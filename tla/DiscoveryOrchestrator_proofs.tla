------------------- MODULE DiscoveryOrchestrator_proofs --------------------
(***************************************************************************)
(* Proofs about the orchestrator for every set of runs, items, assets,     *)
(* agents and concurrent commands, and answers of any length.              *)
(***************************************************************************)
EXTENDS DiscoveryOrchestrator, FiniteSetTheorems, FunctionTheorems, TLAPS

\* The values of a function on a finite set are finitely many.
LEMMA ValuesFinite ==
  ASSUME NEW S, NEW f, IsFiniteSet(S)
  PROVE  IsFiniteSet({f[x] : x \in S})
<1> DEFINE T == {f[x] : x \in S}
<1> DEFINE g == [x \in S |-> f[x]]
<1>1. g \in [S -> T] /\ \A t \in T : \E x \in S : g[x] = t
  OBVIOUS
<1>2. g \in Surjection(S, T)
  <2> HIDE DEF g, T
  <2> QED BY <1>1, Fun_IsSurj
<1> QED BY <1>2, FS_Surjection

\* What a model's answer lists is finite, and lists elements of S only.
LEMMA AnswersFinite ==
  ASSUME NEW S, NEW A \in Answers(S)
  PROVE  A \subseteq S /\ IsFiniteSet(A)
<1>1. CASE A = {}
  BY <1>1, FS_EmptySet
<1>2. ASSUME NEW f \in [1..MaxAnswer -> S], A = {f[n] : n \in 1..MaxAnswer}
      PROVE  A \subseteq S /\ IsFiniteSet(A)
  <2>1. IsFiniteSet(1..MaxAnswer)
    BY OrchestratorAssumption, FS_Interval
  <2> QED BY <1>2, <2>1, ValuesFinite
<1> QED BY <1>1, <1>2 DEF Answers

\* The rows written for an answer are well formed and finitely many.
LEMMA RowsType ==
  ASSUME NEW l \in Local, l.command \in Command, l.run \in Runs, l.agent \in Agents,
         NEW A \in SUBSET Answer, IsFiniteSet(A)
  PROVE  Rows(l, A) \subseteq Observation /\ IsFiniteSet(Rows(l, A))
<1> DEFINE ok == {b \in A : Admissible(b, l.evidence, l.assets)}
<1> DEFINE row == [a \in ok |->
          [command |-> l.command, run |-> l.run, agent |-> l.agent,
           asset |-> a.asset, cites |-> a.cites, related |-> a.related \cap l.assets]]
<1>1. IsFiniteSet(ok)
  <2>1. ok \in SUBSET A
    OBVIOUS
  <2> QED BY <2>1, FS_Subset
<1>2. Rows(l, A) = {row[a] : a \in ok}
  BY DEF Rows
<1>3. IsFiniteSet({row[a] : a \in ok})
  <2> HIDE DEF ok, row
  <2> QED BY <1>1, ValuesFinite
<1>4. ASSUME NEW a \in ok PROVE row[a] \in Observation
  <2>1. a.asset \in Assets /\ a.cites \in SUBSET Items /\ a.related \in SUBSET Assets
    BY DEF Answer, Admissible, Local
  <2> QED BY <2>1 DEF Observation
<1> QED BY <1>2, <1>3, <1>4

----------------------------------------------------------------------------
\* A command that is under way has a number and a run, and an agent once it has
\* begun to read its evidence; one that is not has no locals at all.
Acting(l) ==
  /\ l.step = "idle" => l = Idle
  /\ l.step # "idle" => l.run \in Runs /\ l.command \in Command
  /\ l.step \in {"evidence", "agent", "audit_agent"} => l.agent \in Agents

TypeInv == TypeOK /\ \A c \in Clis : Acting(cli[c])

\* The locals of a command that is not under way are well formed.
LEMMA IdleType == Idle \in Local /\ Acting(Idle)
BY DEF Idle, Local, Steps, Acting

\* A step that sets one command's locals keeps the types if the new locals do.
LEMMA SetType ==
  ASSUME TypeInv, NEW c \in Clis, NEW l \in Local, Acting(l), Set(c, l)
  PROVE  cli' \in [Clis -> Local] /\ \A d \in Clis : Acting(cli'[d])
BY DEF TypeInv, TypeOK, Set

\* Started commands are numbered within the bound.
LEMMA StartType ==
  ASSUME TypeInv, commands < MaxCommands
  PROVE  commands + 1 \in Command /\ commands + 1 \in 0..MaxCommands
BY OrchestratorAssumption DEF TypeInv, TypeOK, Command

\* The types hold of the empty database.
LEMMA TypeInit == Init => TypeInv
<1> SUFFICES ASSUME Init PROVE TypeInv
  OBVIOUS
<1>1. cli \in [Clis -> Local] /\ \A c \in Clis : Acting(cli[c])
  BY IdleType DEF Init
<1>2. commands \in 0..MaxCommands
  BY OrchestratorAssumption DEF Init
<1>3. status \in [Runs -> RunStatus]
  BY DEF Init, RunStatus
<1> QED BY <1>1, <1>2, <1>3 DEF Init, TypeInv, TypeOK, RunColumn, AssetColumn

\* The steps of the discovery command.
LEMMA TypeDiscover ==
  ASSUME TypeInv, NEW c \in Clis, Discover(c) PROVE TypeInv'
<1> DEFINE l == cli[c]
<1>1. l \in Local /\ Acting(l)
  BY DEF TypeInv, TypeOK
<1> USE DEF TypeInv, At
<1>2. CASE ReadCategories(c)
  <2> DEFINE n == [l EXCEPT !.step = "assets",
                     !.categories = {CategoryOf[i] : i \in Normalized(l.run)}]
  <2>1. {CategoryOf[i] : i \in Normalized(l.run)} \subseteq Categories
    BY OrchestratorAssumption DEF Normalized
  <2>2. n \in Local /\ Acting(n)
    BY <1>1, <1>2, <2>1 DEF ReadCategories, Local, Acting, Steps
  <2>3. Set(c, n) /\ UNCHANGED <<status, evidence, outputs, commands>>
    BY <1>2 DEF ReadCategories
  <2> HIDE DEF n
  <2> QED BY <2>2, <2>3, SetType DEF TypeOK, evidence, outputs
<1>3. CASE ReadAssets(c)
  <2> DEFINE n == [l EXCEPT !.step = "agents",
                     !.assets = {a \in Assets : assetRun[a] = l.run},
                     !.agents = {AgentFor[k] : k \in l.categories} \cap Registry]
  <2>1. {AgentFor[k] : k \in l.categories} \cap Registry \subseteq Agents
    BY OrchestratorAssumption
  <2>2. n \in Local /\ Acting(n)
    BY <1>1, <1>3, <2>1 DEF ReadAssets, Local, Acting, Steps
  <2>3. Set(c, n) /\ UNCHANGED <<status, evidence, outputs, commands>>
    BY <1>3 DEF ReadAssets
  <2> HIDE DEF n
  <2> QED BY <2>2, <2>3, SetType DEF TypeOK, evidence, outputs
<1>4. ASSUME NEW g \in Agents, NextAgent(c, g) PROVE TypeInv'
  <2> DEFINE n == [l EXCEPT !.step = "evidence", !.agent = g, !.agents = @ \ {g},
                     !.toRead = {k \in l.categories : AgentFor[k] = g}, !.evidence = {}]
  <2>1. n \in Local /\ Acting(n)
    BY <1>1, <1>4 DEF NextAgent, Local, Acting, Steps
  <2>2. Set(c, n) /\ UNCHANGED <<status, evidence, outputs, commands>>
    BY <1>4 DEF NextAgent
  <2> HIDE DEF n
  <2> QED BY <2>1, <2>2, SetType DEF TypeOK, evidence, outputs
<1>5. ASSUME NEW k \in Categories, ReadEvidence(c, k) PROVE TypeInv'
  <2> DEFINE n == [l EXCEPT !.toRead = @ \ {k},
                     !.step = IF l.toRead = {k} THEN "agent" ELSE "evidence",
                     !.evidence = @ \cup {i \in Normalized(l.run) : CategoryOf[i] = k}]
  <2>1. n \in Local /\ Acting(n)
    BY <1>1, <1>5 DEF ReadEvidence, Normalized, Local, Acting, Steps
  <2>2. Set(c, n) /\ UNCHANGED <<status, evidence, outputs, commands>>
    BY <1>5 DEF ReadEvidence
  <2> HIDE DEF n
  <2> QED BY <2>1, <2>2, SetType DEF TypeOK, evidence, outputs
<1>6. ASSUME NEW A \in Answers(Answer), At(c, "agent"), RunAgent(c, A) PROVE TypeInv'
  <2> DEFINE m == Cardinality(Rows(l, A))
  <2> DEFINE n == [l EXCEPT !.step = "audit_agent", !.written = m, !.total = @ + m]
  <2>1. Rows(l, A) \subseteq Observation /\ m \in Nat
    <3>1. A \in SUBSET Answer /\ IsFiniteSet(A)
      BY AnswersFinite
    <3>2. l.command \in Command /\ l.run \in Runs /\ l.agent \in Agents
      BY <1>1, <1>6 DEF Acting
    <3>3. Rows(l, A) \subseteq Observation /\ IsFiniteSet(Rows(l, A))
      BY <1>1, <3>1, <3>2, RowsType
    <3> QED BY <3>3, FS_CardinalityType
  <2> HIDE DEF m
  <2>2. n \in Local /\ Acting(n)
    <3>1. l.total + m \in Nat
      BY <1>1, <2>1 DEF Local
    <3> QED BY <1>1, <1>6, <2>1, <3>1 DEF Local, Acting, Steps
  <2>3. /\ Set(c, n) /\ UNCHANGED <<status, evidence, sections, audits, commands>>
        /\ observations' = observations \cup Rows(l, A)
    BY <1>6 DEF RunAgent, m
  <2> HIDE DEF n
  <2> QED BY <2>1, <2>2, <2>3, SetType DEF TypeOK, evidence
<1>7. CASE AuditAgent(c)
  <2> DEFINE n == [l EXCEPT !.step = "agents"]
  <2>1. n \in Local /\ Acting(n)
    BY <1>1, <1>7 DEF AuditAgent, Local, Acting, Steps
  <2>2. audits' \subseteq AuditRow
    BY <1>1, <1>7 DEF AuditAgent, LogRow, TypeOK, AuditRow, Local, Acting
  <2>3. Set(c, n) /\ UNCHANGED <<status, evidence, observations, sections, commands>>
    BY <1>7 DEF AuditAgent
  <2> HIDE DEF n
  <2> QED BY <2>1, <2>2, <2>3, SetType DEF TypeOK, evidence
<1>8. CASE FinishDiscovery(c)
  <2> DEFINE n == [l EXCEPT !.step = "audit_run"]
  <2>1. n \in Local /\ Acting(n)
    BY <1>1, <1>8 DEF FinishDiscovery, Local, Acting, Steps
  <2>2. status' \in [Runs -> RunStatus]
    BY <1>8 DEF FinishDiscovery, TypeOK, RunStatus
  <2>3. Set(c, n) /\ UNCHANGED <<evidence, outputs, commands>>
    BY <1>8 DEF FinishDiscovery
  <2> HIDE DEF n
  <2> QED BY <2>1, <2>2, <2>3, SetType DEF TypeOK, evidence, outputs
<1>9. CASE AuditDiscovery(c)
  <2>1. audits' \subseteq AuditRow
    BY <1>1, <1>9 DEF AuditDiscovery, LogRow, TypeOK, AuditRow, Local, Acting
  <2>2. Set(c, Idle) /\ UNCHANGED <<status, evidence, observations, sections, commands>>
    BY <1>9 DEF AuditDiscovery
  <2> QED BY <2>1, <2>2, IdleType, SetType DEF TypeOK, evidence
<1> QED BY <1>2, <1>3, <1>4, <1>5, <1>6, <1>7, <1>8, <1>9 DEF Discover

\* The steps of the report command.
LEMMA TypeDescribe ==
  ASSUME TypeInv, NEW c \in Clis, Describe(c) PROVE TypeInv'
<1> DEFINE l == cli[c]
<1>1. l \in Local /\ Acting(l)
  BY DEF TypeInv, TypeOK
<1> USE DEF TypeInv, At
<1>2. ASSUME NEW A \in Answers(RawSections), At(c, "report"), WriteReport(c, A)
      PROVE  TypeInv'
  <2> DEFINE m == Cardinality(A)
  <2> DEFINE n == [l EXCEPT !.step = "complete", !.written = m]
  <2>1. A \subseteq RawSections /\ m \in Nat
    BY AnswersFinite, FS_CardinalityType
  <2> HIDE DEF m
  <2>2. n \in Local /\ Acting(n)
    BY <1>1, <1>2, <2>1 DEF Local, Acting, Steps
  <2>3. Set(c, n) /\ UNCHANGED <<status, evidence, observations, audits, commands>>
    BY <1>2 DEF WriteReport, m
  <2>4. sections' \subseteq Section
    <3>1. l.command \in Command /\ l.run \in Runs /\ l.facts \subseteq Observation
      BY <1>1, <1>2 DEF Local, Acting
    <3>2. ASSUME NEW a \in A PROVE
            [command |-> l.command, run |-> l.run, embedded |-> a.embedded \cap l.facts,
             markers |-> a.markers] \in Section
      <4>1. a.markers \subseteq observations \cup {Unknown}
        BY <2>1 DEF RawSections
      <4>2. observations \subseteq Observation
        BY DEF TypeOK
      <4> QED BY <3>1, <4>1, <4>2 DEF Section
    <3> QED BY <1>2, <3>2 DEF WriteReport, TypeOK
  <2> HIDE DEF n
  <2> QED BY <2>2, <2>3, <2>4, SetType DEF TypeOK, evidence
<1>3. CASE CompleteRun(c)
  <2> DEFINE n == [l EXCEPT !.step = "audit_report"]
  <2>1. n \in Local /\ Acting(n)
    BY <1>1, <1>3 DEF CompleteRun, Local, Acting, Steps
  <2>2. status' \in [Runs -> RunStatus]
    BY <1>3 DEF CompleteRun, TypeOK, RunStatus
  <2>3. Set(c, n) /\ UNCHANGED <<evidence, outputs, commands>>
    BY <1>3 DEF CompleteRun
  <2> HIDE DEF n
  <2> QED BY <2>1, <2>2, <2>3, SetType DEF TypeOK, evidence, outputs
<1>4. CASE AuditReport(c)
  <2>1. audits' \subseteq AuditRow
    BY <1>1, <1>4 DEF AuditReport, LogRow, TypeOK, AuditRow, Local, Acting
  <2>2. Set(c, Idle) /\ UNCHANGED <<status, evidence, observations, sections, commands>>
    BY <1>4 DEF AuditReport
  <2> QED BY <2>1, <2>2, IdleType, SetType DEF TypeOK, evidence
<1> QED BY <1>2, <1>3, <1>4 DEF Describe

\* Every step keeps the types.
LEMMA TypeStep == ASSUME TypeInv, [Next]_vars PROVE TypeInv'
<1>1. CASE Environment
  <2>1. UNCHANGED <<outputs, cli, commands>>
    BY <1>1 DEF Environment, EvidenceCommitted, EvidenceRepeated, UpsertAsset, WriteParsed
  <2>2. /\ status' \in [Runs -> RunStatus] /\ runOf' \in [Items -> Runs \cup {NoRun}]
        /\ assetRun' \in [Assets -> Runs \cup {NoRun}]
    BY <1>1 DEF Environment, EvidenceCommitted, EvidenceRepeated, UpsertAsset, WriteParsed,
                evidence, TypeInv, TypeOK, RunColumn, RunStatus
  <2>3. parsed' \in [Items -> BOOLEAN]
    BY <1>1 DEF Environment, EvidenceCommitted, EvidenceRepeated, UpsertAsset, WriteParsed,
                evidence, TypeInv, TypeOK
  <2>4. assetOf' \in [Items -> Assets \cup {NoAsset}]
    BY <1>1, OrchestratorAssumption DEF Environment, EvidenceCommitted, EvidenceRepeated, UpsertAsset,
         WriteParsed, evidence, TypeInv, TypeOK, AssetColumn
  <2> QED BY <2>1, <2>2, <2>3, <2>4
        DEF TypeInv, TypeOK, RunColumn, AssetColumn, outputs
<1>2. ASSUME NEW c \in Clis, NEW r \in Runs, StartDiscovery(c, r) PROVE TypeInv'
  <2> DEFINE n == [Idle EXCEPT !.step = "categories", !.command = commands + 1, !.run = r]
  <2>1. commands + 1 \in Command /\ commands + 1 \in 0..MaxCommands
    BY <1>2, StartType DEF StartDiscovery
  <2>2. n \in Local /\ Acting(n)
    BY <2>1 DEF Idle, Local, Acting, Steps
  <2>3. status' \in [Runs -> RunStatus]
    BY <1>2 DEF StartDiscovery, TypeInv, TypeOK, RunStatus
  <2>4. Set(c, n) /\ UNCHANGED <<evidence, outputs>> /\ commands' = commands + 1
    BY <1>2 DEF StartDiscovery
  <2> HIDE DEF n
  <2> QED BY <2>1, <2>2, <2>3, <2>4, SetType DEF TypeInv, TypeOK, evidence, outputs
<1>3. ASSUME NEW c \in Clis, NEW r \in Runs, StartReport(c, r) PROVE TypeInv'
  <2> DEFINE n == [Idle EXCEPT !.step = "report", !.command = commands + 1,
                               !.run = r, !.facts = FactsOf(r)]
  <2>1. commands + 1 \in Command /\ commands + 1 \in 0..MaxCommands
    BY <1>3, StartType DEF StartReport
  <2>2. n \in Local /\ Acting(n)
    BY <2>1 DEF Idle, Local, Acting, Steps, FactsOf, TypeInv, TypeOK
  <2>3. /\ Set(c, n) \/ Set(c, Idle)
        /\ UNCHANGED <<status, evidence, outputs>> /\ commands' = commands + 1
    BY <1>3 DEF StartReport
  <2> HIDE DEF n
  <2> QED BY <2>1, <2>2, <2>3, IdleType, SetType DEF TypeInv, TypeOK, evidence, outputs
<1>4. ASSUME NEW c \in Clis, Discover(c) \/ Describe(c) \/ Abort(c) PROVE TypeInv'
  <2>1. CASE Abort(c)
    BY <2>1, IdleType, SetType DEF Abort, TypeInv, TypeOK, evidence, outputs
  <2> QED BY <1>4, <2>1, TypeDiscover, TypeDescribe
<1>5. CASE UNCHANGED vars
  BY <1>5 DEF vars, evidence, outputs, TypeInv, TypeOK
<1> QED BY <1>1, <1>2, <1>3, <1>4, <1>5 DEF Next

\* Commands under way have a run, a number and, where they need it, an agent.
THEOREM TypedCommands == Spec => []TypeInv
BY TypeInit, TypeStep, PTL DEF Spec

\* Type correctness: rows and the locals of every command keep their shapes,
\* whatever a model answers.
THEOREM TypeCorrect == Spec => []TypeOK
BY TypedCommands, PTL DEF TypeInv

----------------------------------------------------------------------------
\* What a command has read stays true while it waits for the model: its assets are
\* its run's, its evidence is normalized evidence of its run and agent, and its
\* facts are observations of its run, of which a report has some.
Knows(l) ==
  /\ \A a \in l.assets : assetRun[a] = l.run
  /\ \A k \in l.toRead : AgentFor[k] = l.agent
  /\ \A i \in l.evidence : runOf[i] = l.run /\ parsed[i] /\ AgentFor[CategoryOf[i]] = l.agent
  /\ l.facts \subseteq FactsOf(l.run)
  /\ l.step \in {"report", "complete"} => l.facts # {}

\* The inductive invariant.
IInv ==
  /\ TypeInv
  /\ \A c \in Clis : Knows(cli[c])
  /\ ObservationsCiteEvidence /\ ObservationsStayInRun
  /\ SectionsEmbedFacts /\ CompleteHasObservations

\* Nothing a row says of evidence, assets or observations is ever taken back.
Grows ==
  /\ \A i \in Items : runOf[i] # NoRun => runOf'[i] = runOf[i]
  /\ \A i \in Items : parsed[i] => parsed'[i]
  /\ \A a \in Assets : assetRun[a] # NoRun => assetRun'[a] = assetRun[a]
  /\ observations \subseteq observations'

\* Every step of every service only adds to what rows say.
LEMMA StepGrows == ASSUME TypeInv, [Next]_vars PROVE Grows
<1>1. CASE Environment
  <2>1. \A i \in Items : parsed[i] => parsed'[i]
    <3>1. ASSUME NEW j \in Items, WriteParsed(j) PROVE \A i \in Items : parsed[i] => parsed'[i]
      BY <3>1, Zenon DEF WriteParsed, TypeInv, TypeOK
    <3> QED BY <1>1, <3>1 DEF Environment, EvidenceCommitted, EvidenceRepeated, UpsertAsset, evidence
  <2>2. \A i \in Items : runOf[i] # NoRun => runOf'[i] = runOf[i]
    BY <1>1 DEF Environment, EvidenceCommitted, EvidenceRepeated, UpsertAsset, WriteParsed, evidence
  <2>3. \A a \in Assets : assetRun[a] # NoRun => assetRun'[a] = assetRun[a]
    BY <1>1 DEF Environment, EvidenceCommitted, EvidenceRepeated, UpsertAsset, WriteParsed,
                evidence, TypeInv, TypeOK, RunColumn
  <2>4. UNCHANGED observations
    BY <1>1 DEF Environment, EvidenceCommitted, EvidenceRepeated, UpsertAsset, WriteParsed,
                outputs
  <2> QED BY <2>1, <2>2, <2>3, <2>4 DEF Grows
<1>2. CASE UNCHANGED evidence /\ observations \subseteq observations'
  BY <1>2 DEF Grows, evidence
<1>3. ASSUME NEW c \in Clis, Discover(c) PROVE Grows
  BY <1>2, <1>3 DEF Discover, ReadCategories, ReadAssets, NextAgent, ReadEvidence,
                    RunAgent, AuditAgent, FinishDiscovery, AuditDiscovery, outputs
<1>4. ASSUME NEW c \in Clis, Describe(c) \/ Abort(c) PROVE Grows
  BY <1>2, <1>4 DEF Describe, WriteReport, CompleteRun, AuditReport, Abort, outputs
<1>5. ASSUME NEW c \in Clis, NEW r \in Runs, StartDiscovery(c, r) \/ StartReport(c, r)
      PROVE  Grows
  BY <1>2, <1>5 DEF StartDiscovery, StartReport, outputs
<1>6. CASE UNCHANGED vars
  BY <1>2, <1>6 DEF vars, outputs
<1> QED BY <1>1, <1>3, <1>4, <1>5, <1>6 DEF Next

\* A run's observations are never removed.
LEMMA FactsGrow == ASSUME Grows, NEW r PROVE FactsOf(r) \subseteq FactsOf(r)'
BY DEF Grows, FactsOf

\* What a command knows survives every step that leaves its locals alone.
LEMMA KnowsGrows ==
  ASSUME NEW l \in Local, Acting(l), Knows(l), Grows
  PROVE  Knows(l)'
<1>1. CASE l.step = "idle"
  BY <1>1 DEF Acting, Idle, Knows
<1>2. CASE l.step # "idle"
  <2>1. l.run # NoRun
    BY <1>2, SchemaAssumption DEF Acting
  <2>2. \A a \in l.assets : assetRun'[a] = l.run
    BY <2>1 DEF Knows, Grows, Local
  <2>3. \A i \in l.evidence : runOf'[i] = l.run /\ parsed'[i]
                                /\ AgentFor[CategoryOf[i]] = l.agent
    BY <2>1 DEF Knows, Grows, Local
  <2>4. l.facts \subseteq FactsOf(l.run)'
    BY FactsGrow DEF Knows
  <2> QED BY <2>2, <2>3, <2>4 DEF Knows
<1> QED BY <1>1, <1>2

\* Observations and sections once written stay right, and a complete run keeps its
\* observations.
LEMMA RowsGrow ==
  ASSUME IInv, Grows
  PROVE  /\ \A o \in observations :
              /\ o.cites # {}
              /\ \A i \in o.cites : runOf'[i] = o.run /\ parsed'[i]
                                      /\ AgentFor[CategoryOf[i]] = o.agent
              /\ \A a \in {o.asset} \cup o.related : assetRun'[a] = o.run
         /\ \A s \in sections : s.embedded \subseteq FactsOf(s.run)'
         /\ \A r \in Runs : status[r] = "complete" => FactsOf(r)' # {}
<1>1. ASSUME NEW o \in observations PROVE
        /\ o.cites # {}
        /\ \A i \in o.cites : runOf'[i] = o.run /\ parsed'[i]
                                /\ AgentFor[CategoryOf[i]] = o.agent
        /\ \A a \in {o.asset} \cup o.related : assetRun'[a] = o.run
  <2>1. o \in Observation
    BY DEF IInv, TypeInv, TypeOK
  <2>2. /\ o.run # NoRun /\ o.cites \subseteq Items
        /\ o.asset \in Assets /\ o.related \subseteq Assets
    BY <2>1, SchemaAssumption DEF Observation
  <2>3. o.cites # {} /\ \A i \in o.cites : runOf'[i] = o.run /\ parsed'[i]
                                /\ AgentFor[CategoryOf[i]] = o.agent
    BY <2>2 DEF IInv, ObservationsCiteEvidence, Grows
  <2>4. \A a \in {o.asset} \cup o.related : assetRun'[a] = o.run
    BY <2>2 DEF IInv, ObservationsStayInRun, Grows
  <2> QED BY <2>3, <2>4
<1>2. \A s \in sections : s.embedded \subseteq FactsOf(s.run)'
  BY FactsGrow DEF IInv, SectionsEmbedFacts
<1>3. \A r \in Runs : status[r] = "complete" => FactsOf(r)' # {}
  BY FactsGrow DEF IInv, CompleteHasObservations
<1> QED BY <1>1, <1>2, <1>3

\* A command whose locals a step leaves alone, or idles, knows what it says it knows.
LEMMA StillKnows ==
  ASSUME IInv, Grows, NEW d \in Clis, cli'[d] = cli[d] \/ cli'[d] = Idle
  PROVE  Knows(cli[d])'
<1>1. CASE cli'[d] = Idle
  BY <1>1 DEF Knows, Idle
<1>2. CASE cli'[d] = cli[d]
  <2>1. PICK l \in Local : l = cli[d]
    BY DEF IInv, TypeInv, TypeOK
  <2>2. Acting(l) /\ Knows(l)
    BY <2>1 DEF IInv, TypeInv
  <2>3. Knows(l)'
    BY <2>2, KnowsGrows
  <2>4. l = cli'[d]
    BY <1>2, <2>1
  <2> QED BY <2>3, <2>4 DEF Knows
<1> QED BY <1>1, <1>2

\* Only command c's locals change.
Only(c) == \A d \in Clis : d # c => cli'[d] = cli[d]

\* Setting one command's locals leaves the other commands alone.
LEMMA SetOnly ==
  ASSUME TypeInv, NEW c \in Clis, NEW m, Set(c, m)
  PROVE  cli'[c] = m /\ Only(c)
BY DEF Set, Only, TypeInv, TypeOK

\* What a step of command c has to show: that c knows what its new locals say.
LEMMA StepKnows ==
  ASSUME IInv, Grows, NEW c \in Clis, Only(c),
         /\ \A a \in cli'[c].assets : assetRun'[a] = cli'[c].run
         /\ \A k \in cli'[c].toRead : AgentFor[k] = cli'[c].agent
         /\ \A i \in cli'[c].evidence : runOf'[i] = cli'[c].run /\ parsed'[i]
                                /\ AgentFor[CategoryOf[i]] = cli'[c].agent
         /\ cli'[c].facts \subseteq FactsOf(cli[c].run)'
         /\ cli'[c].step \in {"report", "complete"} => cli'[c].facts # {}
  PROVE  \A d \in Clis : Knows(cli[d])'
<1>1. Knows(cli[c])'
  BY DEF Knows, FactsOf
<1> QED BY <1>1, StillKnows DEF Only

\* A command that only moves on, past the report step, knows what it knew.
LEMMA MoveKnows ==
  ASSUME IInv, Grows, NEW c \in Clis, Only(c), cli'[c].step \notin {"report", "complete"},
         cli'[c].assets = cli[c].assets, cli'[c].toRead = cli[c].toRead,
         cli'[c].evidence = cli[c].evidence, cli'[c].facts = cli[c].facts,
         cli'[c].run = cli[c].run, cli'[c].agent = cli[c].agent
  PROVE  \A d \in Clis : Knows(cli[d])'
<1>1. PICK l \in Local : l = cli[c]
  BY DEF IInv, TypeInv, TypeOK
<1>2. Knows(l)'
  BY <1>1, KnowsGrows DEF IInv, TypeInv
<1> QED BY <1>1, <1>2, StepKnows DEF Knows

\* Every step of a discovery keeps what the commands know.
LEMMA DiscoverKnows ==
  ASSUME IInv, Grows, NEW c \in Clis, Discover(c)
  PROVE  \A d \in Clis : Knows(cli[d])'
<1>1. PICK l \in Local : l = cli[c]
  BY DEF IInv, TypeInv, TypeOK
<1>2. TypeInv /\ Knows(l)
  BY <1>1 DEF IInv
<1>3. Knows(l)'
  BY <1>1, <1>2, KnowsGrows DEF TypeInv
<1>4. CASE ReadCategories(c)
  <2> DEFINE n == [l EXCEPT !.step = "assets",
                     !.categories = {CategoryOf[i] : i \in Normalized(l.run)}]
  <2>1. Set(c, n)
    BY <1>1, <1>4 DEF ReadCategories
  <2>2. cli'[c] = n /\ Only(c)
    BY <1>2, <2>1, SetOnly
  <2> QED BY <1>1, <2>2, MoveKnows DEF Local
<1>5. CASE ReadAssets(c)
  <2> DEFINE n == [l EXCEPT !.step = "agents",
                     !.assets = {a \in Assets : assetRun[a] = l.run},
                     !.agents = {AgentFor[k] : k \in l.categories} \cap Registry]
  <2>1. Set(c, n) /\ UNCHANGED assetRun
    BY <1>1, <1>5 DEF ReadAssets, evidence
  <2>2. cli'[c] = n /\ Only(c)
    BY <1>2, <2>1, SetOnly
  <2>3. /\ n.assets = {a \in Assets : assetRun[a] = l.run} /\ n.run = l.run
        /\ n.toRead = l.toRead /\ n.evidence = l.evidence /\ n.facts = l.facts
        /\ n.agent = l.agent /\ n.step = "agents"
    BY DEF Local
  <2> HIDE DEF n
  <2> QED BY <1>3, <2>1, <2>2, <2>3, StepKnows DEF Knows
<1>6. ASSUME NEW g \in Agents, NextAgent(c, g) PROVE \A d \in Clis : Knows(cli[d])'
  <2> DEFINE n == [l EXCEPT !.step = "evidence", !.agent = g, !.agents = @ \ {g},
                     !.toRead = {k \in l.categories : AgentFor[k] = g}, !.evidence = {}]
  <2>1. Set(c, n)
    BY <1>1, <1>6 DEF NextAgent
  <2>2. cli'[c] = n /\ Only(c)
    BY <1>2, <2>1, SetOnly
  <2>3. /\ n.toRead = {k \in l.categories : AgentFor[k] = g} /\ n.evidence = {}
        /\ n.assets = l.assets /\ n.facts = l.facts /\ n.run = l.run
        /\ n.agent = g /\ n.step = "evidence"
    BY DEF Local
  <2> HIDE DEF n
  <2> QED BY <1>3, <2>2, <2>3, StepKnows DEF Knows
<1>7. ASSUME NEW k \in Categories, ReadEvidence(c, k) PROVE \A d \in Clis : Knows(cli[d])'
  <2> DEFINE n == [l EXCEPT !.toRead = @ \ {k},
                     !.step = IF l.toRead = {k} THEN "agent" ELSE "evidence",
                     !.evidence = @ \cup {i \in Normalized(l.run) : CategoryOf[i] = k}]
  <2>1. Set(c, n) /\ k \in l.toRead /\ UNCHANGED <<runOf, parsed>>
    BY <1>1, <1>7 DEF ReadEvidence, evidence
  <2>2. cli'[c] = n /\ Only(c)
    BY <1>2, <2>1, SetOnly
  <2>3. /\ n.toRead = l.toRead \ {k} /\ n.assets = l.assets
        /\ n.evidence = l.evidence \cup {i \in Normalized(l.run) : CategoryOf[i] = k}
        /\ n.facts = l.facts /\ n.run = l.run /\ n.agent = l.agent
        /\ n.step \in {"agent", "evidence"}
    BY DEF Local
  <2> HIDE DEF n
  <2>4. \A i \in n.evidence : runOf'[i] = n.run /\ parsed'[i]
                                /\ AgentFor[CategoryOf[i]] = n.agent
    BY <1>2, <2>1, <2>3 DEF Knows, Normalized
  <2> QED BY <1>3, <2>2, <2>3, <2>4, StepKnows DEF Knows
<1>8. ASSUME NEW A \in Answers(Answer), RunAgent(c, A) PROVE \A d \in Clis : Knows(cli[d])'
  <2> DEFINE w == Cardinality(Rows(l, A))
  <2> DEFINE n == [l EXCEPT !.step = "audit_agent", !.written = w, !.total = @ + w]
  <2>1. Set(c, n)
    BY <1>1, <1>8 DEF RunAgent
  <2>2. cli'[c] = n /\ Only(c)
    BY <1>2, <2>1, SetOnly
  <2> QED BY <1>1, <2>2, MoveKnows DEF Local
<1>9. ASSUME NEW s \in {"agents", "audit_run"}, Set(c, [l EXCEPT !.step = s])
      PROVE  \A d \in Clis : Knows(cli[d])'
  <2>1. cli'[c] = [l EXCEPT !.step = s] /\ Only(c)
    BY <1>2, <1>9, SetOnly
  <2> QED BY <1>1, <2>1, MoveKnows DEF Local
<1>10. CASE AuditAgent(c) \/ FinishDiscovery(c)
  BY <1>1, <1>9, <1>10 DEF AuditAgent, FinishDiscovery
<1>11. CASE AuditDiscovery(c)
  <2>1. \A d \in Clis : cli'[d] = cli[d] \/ cli'[d] = Idle
    BY <1>2, <1>11, SetOnly DEF AuditDiscovery, Only
  <2> QED BY <2>1, StillKnows
<1> QED BY <1>4, <1>5, <1>6, <1>7, <1>8, <1>10, <1>11 DEF Discover

\* Every step of a report keeps what the commands know.
LEMMA DescribeKnows ==
  ASSUME IInv, Grows, NEW c \in Clis, Describe(c)
  PROVE  \A d \in Clis : Knows(cli[d])'
<1>1. PICK l \in Local : l = cli[c]
  BY DEF IInv, TypeInv, TypeOK
<1>2. TypeInv /\ Knows(l)
  BY <1>1 DEF IInv
<1>3. Knows(l)'
  BY <1>1, <1>2, KnowsGrows DEF TypeInv
<1>4. ASSUME NEW A \in Answers(RawSections), At(c, "report"), WriteReport(c, A)
      PROVE  \A d \in Clis : Knows(cli[d])'
  <2> DEFINE w == Cardinality(A)
  <2> DEFINE n == [l EXCEPT !.step = "complete", !.written = w]
  <2>1. Set(c, n)
    BY <1>1, <1>4 DEF WriteReport
  <2>2. cli'[c] = n /\ Only(c)
    BY <1>2, <2>1, SetOnly
  <2>3. /\ n.assets = l.assets /\ n.toRead = l.toRead /\ n.evidence = l.evidence
        /\ n.facts = l.facts /\ n.run = l.run /\ n.agent = l.agent
    BY DEF Local
  <2>4. l.facts # {}
    BY <1>1, <1>2, <1>4 DEF At, Knows
  <2> HIDE DEF n
  <2> QED BY <1>3, <2>2, <2>3, <2>4, StepKnows DEF Knows
<1>5. CASE CompleteRun(c)
  <2>1. Set(c, [l EXCEPT !.step = "audit_report"])
    BY <1>1, <1>5 DEF CompleteRun
  <2>2. cli'[c] = [l EXCEPT !.step = "audit_report"] /\ Only(c)
    BY <1>2, <2>1, SetOnly
  <2> QED BY <1>1, <2>2, MoveKnows DEF Local
<1>6. CASE AuditReport(c)
  <2>1. \A d \in Clis : cli'[d] = cli[d] \/ cli'[d] = Idle
    BY <1>2, <1>6, SetOnly DEF AuditReport, Only
  <2> QED BY <2>1, StillKnows
<1> QED BY <1>4, <1>5, <1>6 DEF Describe

\* Every step keeps what the commands know.
LEMMA KnowsStep ==
  ASSUME IInv, Grows, [Next]_vars
  PROVE  \A d \in Clis : Knows(cli[d])'
<1>1. TypeInv
  BY DEF IInv
<1>2. CASE Environment \/ UNCHANGED vars
  <2>1. UNCHANGED cli
    BY <1>2 DEF Environment, EvidenceCommitted, EvidenceRepeated, UpsertAsset, WriteParsed,
                vars
  <2> QED BY <2>1, StillKnows
<1>3. ASSUME NEW c \in Clis, NEW r \in Runs, StartDiscovery(c, r)
      PROVE  \A d \in Clis : Knows(cli[d])'
  <2> DEFINE n == [Idle EXCEPT !.step = "categories", !.command = commands + 1, !.run = r]
  <2>1. Set(c, n)
    BY <1>3 DEF StartDiscovery
  <2>2. cli'[c] = n /\ Only(c)
    BY <1>1, <2>1, SetOnly
  <2>3. /\ n.assets = {} /\ n.toRead = {} /\ n.evidence = {} /\ n.facts = {}
        /\ n.step = "categories"
    BY DEF Idle
  <2> HIDE DEF n
  <2> QED BY <2>2, <2>3, StepKnows
<1>4. ASSUME NEW c \in Clis, NEW r \in Runs, StartReport(c, r)
      PROVE  \A d \in Clis : Knows(cli[d])'
  <2> DEFINE n == [Idle EXCEPT !.step = "report", !.command = commands + 1,
                               !.run = r, !.facts = FactsOf(r)]
  <2>1. CASE Set(c, Idle)
    <3>1. \A d \in Clis : cli'[d] = cli[d] \/ cli'[d] = Idle
      BY <1>1, <2>1, SetOnly DEF Only
    <3> QED BY <3>1, StillKnows
  <2>2. CASE Set(c, n) /\ FactsOf(r) # {}
    <3>1. cli'[c] = n /\ Only(c)
      BY <1>1, <2>2, SetOnly
    <3>2. /\ n.assets = {} /\ n.toRead = {} /\ n.evidence = {} /\ n.facts = FactsOf(r)
          /\ n.run = r
      BY DEF Idle
    <3> HIDE DEF n
    <3>3. cli'[c].facts \subseteq FactsOf(cli[c].run)'
      BY <3>1, <3>2, FactsGrow DEF FactsOf
    <3> QED BY <2>2, <3>1, <3>2, <3>3, StepKnows
  <2> QED BY <1>4, <2>1, <2>2 DEF StartReport
<1>5. ASSUME NEW c \in Clis, Abort(c) PROVE \A d \in Clis : Knows(cli[d])'
  <2>1. \A d \in Clis : cli'[d] = cli[d] \/ cli'[d] = Idle
    BY <1>1, <1>5, SetOnly DEF Abort, Only
  <2> QED BY <2>1, StillKnows
<1> QED BY <1>2, <1>3, <1>4, <1>5, DiscoverKnows, DescribeKnows DEF Next

\* What a command writes for an answer cites what the command knows.
LEMMA RowsCite ==
  ASSUME NEW l \in Local, Knows(l)', NEW A
  PROVE  \A o \in Rows(l, A) :
            /\ o.cites # {}
            /\ \A i \in o.cites : runOf'[i] = o.run /\ parsed'[i]
                                    /\ AgentFor[CategoryOf[i]] = o.agent
            /\ \A a \in {o.asset} \cup o.related : assetRun'[a] = o.run
BY DEF Rows, Admissible, Knows

\* Where each step takes new observations, sections and complete runs from.
LEMMA StepRows ==
  ASSUME TypeInv, [Next]_vars
  PROVE  \/ UNCHANGED <<observations, sections>>
            /\ \A r \in Runs : status'[r] = "complete" => status[r] = "complete"
         \/ \E c \in Clis, A \in Answers(Answer) :
               observations' = observations \cup Rows(cli[c], A)
                 /\ UNCHANGED <<sections, status>>
         \/ \E c \in Clis, A \in Answers(RawSections) : At(c, "report") /\ WriteReport(c, A)
         \/ \E c \in Clis : CompleteRun(c)
<1> DEFINE Keeps == /\ UNCHANGED <<observations, sections>>
                    /\ \A r \in Runs : status'[r] = "complete" => status[r] = "complete"
<1>1. ASSUME UNCHANGED <<observations, sections, status>> PROVE Keeps
  BY <1>1
<1>2. ASSUME NEW r \in Runs, NEW x \in {"normalizing", "discovering", "reporting"},
             status' = [status EXCEPT ![r] = x], UNCHANGED outputs
      PROVE  Keeps
  BY <1>2 DEF outputs, TypeInv, TypeOK
<1>3. ASSUME Environment PROVE Keeps
  BY <1>1, <1>2, <1>3 DEF Environment, EvidenceCommitted, EvidenceRepeated, UpsertAsset,
                          WriteParsed, outputs
<1>4. ASSUME NEW c \in Clis, NEW r \in Runs, StartDiscovery(c, r) \/ StartReport(c, r)
      PROVE  Keeps
  BY <1>1, <1>2, <1>4 DEF StartDiscovery, StartReport, outputs
<1>5. ASSUME NEW c \in Clis, FinishDiscovery(c) PROVE Keeps
  <2>1. cli[c].run \in Runs
    BY <1>5 DEF FinishDiscovery, At, TypeInv, Acting
  <2> QED BY <1>2, <1>5, <2>1 DEF FinishDiscovery
<1>6. ASSUME NEW c \in Clis, Abort(c) \/ AuditReport(c) \/ ReadCategories(c) \/ ReadAssets(c)
               \/ AuditAgent(c) \/ AuditDiscovery(c)
               \/ (\E g \in Agents : NextAgent(c, g))
               \/ (\E k \in Categories : ReadEvidence(c, k))
      PROVE  Keeps
  BY <1>1, <1>6 DEF Abort, AuditReport, ReadCategories, ReadAssets, NextAgent, ReadEvidence,
                    AuditAgent, AuditDiscovery, outputs
<1>7. ASSUME UNCHANGED vars PROVE Keeps
  BY <1>1, <1>7 DEF vars, outputs
<1>8. ASSUME NEW c \in Clis, NEW A \in Answers(Answer), RunAgent(c, A)
      PROVE  /\ observations' = observations \cup Rows(cli[c], A)
             /\ UNCHANGED <<sections, status>>
  BY <1>8 DEF RunAgent
<1> HIDE DEF Keeps
<1>9. Keeps \/ (\E c \in Clis, A \in Answers(Answer) : RunAgent(c, A))
        \/ (\E c \in Clis, A \in Answers(RawSections) : At(c, "report") /\ WriteReport(c, A))
        \/ (\E c \in Clis : CompleteRun(c))
  BY <1>3, <1>4, <1>5, <1>6, <1>7 DEF Next, Discover, Describe
<1> QED BY <1>8, <1>9 DEF Keeps

\* Every step keeps the invariant.
LEMMA InvStep == ASSUME IInv, [Next]_vars PROVE IInv'
<1>1. TypeInv /\ TypeInv' /\ Grows
  BY TypeStep, StepGrows DEF IInv
<1>2. \A c \in Clis : Knows(cli[c])'
  BY <1>1, KnowsStep
<1> DEFINE Facts ==
      /\ ObservationsCiteEvidence' /\ ObservationsStayInRun'
      /\ SectionsEmbedFacts' /\ CompleteHasObservations'
<1> USE DEF ObservationsCiteEvidence, ObservationsStayInRun, SectionsEmbedFacts,
            CompleteHasObservations
<1>3. ASSUME UNCHANGED <<observations, sections>>,
             \A r \in Runs : status'[r] = "complete" => status[r] = "complete"
      PROVE  Facts
  BY <1>1, <1>3, RowsGrow
<1>4. ASSUME NEW c \in Clis, NEW A \in Answers(Answer),
             observations' = observations \cup Rows(cli[c], A),
             UNCHANGED <<sections, status>>
      PROVE  Facts
  <2>1. PICK l \in Local : l = cli[c]
    BY <1>1 DEF TypeInv, TypeOK
  <2>2. Knows(l)'
    BY <1>1, <2>1, KnowsGrows DEF IInv, TypeInv
  <2>3. \A o \in Rows(cli[c], A) :
            /\ o.cites # {}
            /\ \A i \in o.cites : runOf'[i] = o.run /\ parsed'[i]
                                    /\ AgentFor[CategoryOf[i]] = o.agent
            /\ \A a \in {o.asset} \cup o.related : assetRun'[a] = o.run
    BY <2>1, <2>2, RowsCite
  <2> QED BY <1>1, <1>4, <2>3, RowsGrow
<1>5. ASSUME NEW c \in Clis, NEW A \in Answers(RawSections), At(c, "report"), WriteReport(c, A)
      PROVE  Facts
  <2>1. UNCHANGED <<observations, status>>
    BY <1>5 DEF WriteReport
  <2>2. cli[c].facts \subseteq FactsOf(cli[c].run)
    BY DEF IInv, Knows
  <2>3. ASSUME NEW s \in sections', s \notin sections
        PROVE  s.run = cli[c].run /\ s.embedded \subseteq cli[c].facts
    <3>1. PICK a \in A : s = [command |-> cli[c].command, run |-> cli[c].run,
                              embedded |-> a.embedded \cap cli[c].facts,
                              markers |-> a.markers]
      BY <1>5, <2>3 DEF WriteReport
    <3> QED BY <3>1
  <2>4. \A r : FactsOf(r)' = FactsOf(r)
    BY <2>1 DEF FactsOf
  <2>5. SectionsEmbedFacts'
    BY <1>1, <2>2, <2>3, <2>4, RowsGrow
  <2> QED BY <1>1, <2>1, <2>5, RowsGrow
<1>6. ASSUME NEW c \in Clis, CompleteRun(c) PROVE Facts
  <2>1. UNCHANGED <<observations, sections>>
    BY <1>6 DEF CompleteRun, outputs
  <2>2. /\ cli[c].facts # {} /\ cli[c].facts \subseteq FactsOf(cli[c].run)
    BY <1>6 DEF IInv, Knows, CompleteRun, At
  <2>3. \A r \in Runs : status'[r] = "complete" => status[r] = "complete" \/ r = cli[c].run
    BY <1>1, <1>6 DEF CompleteRun, TypeInv, TypeOK
  <2>4. \A r : FactsOf(r)' = FactsOf(r)
    BY <2>1 DEF FactsOf
  <2>5. CompleteHasObservations'
    BY <1>1, <2>2, <2>3, <2>4, RowsGrow
  <2> QED BY <1>1, <2>1, <2>5, RowsGrow
<1>7. Facts
  BY <1>1, <1>3, <1>4, <1>5, <1>6, StepRows
<1> QED BY <1>1, <1>2, <1>7 DEF IInv

\* The invariant holds initially.
LEMMA InvInit == Init => IInv
<1> SUFFICES ASSUME Init PROVE IInv
  OBVIOUS
<1>1. TypeInv
  BY TypeInit
<1>2. \A c \in Clis : Knows(cli[c])
  BY DEF Init, Idle, Knows
<1>3. /\ ObservationsCiteEvidence /\ ObservationsStayInRun
      /\ SectionsEmbedFacts /\ CompleteHasObservations
  BY DEF Init, ObservationsCiteEvidence, ObservationsStayInRun, SectionsEmbedFacts,
         CompleteHasObservations
<1> QED BY <1>1, <1>2, <1>3 DEF IInv

\* The inductive invariant holds in every reachable state.
THEOREM Inductive == Spec => []IInv
BY InvInit, InvStep, PTL DEF Spec

\* The integrity guarantee, for any number of concurrent commands and any answers:
\* an observation cites normalized evidence of its own run and agent, and some.
THEOREM Cited == Spec => []ObservationsCiteEvidence
BY Inductive, PTL DEF IInv

\* No asset of another run enters an observation.
THEOREM InRun == Spec => []ObservationsStayInRun
BY Inductive, PTL DEF IInv

\* A section's list of observations holds observations of its run only.
THEOREM Embedded == Spec => []SectionsEmbedFacts
BY Inductive, PTL DEF IInv

\* A complete run has observations.
THEOREM Complete == Spec => []CompleteHasObservations
BY Inductive, PTL DEF IInv

----------------------------------------------------------------------------
(* The commands run over the lifecycle of evidence.                         *)

\* Runs exist as long as commands work on them.
RunsExist == \A r \in Runs : status[r] # "absent"

\* What the environment of the commands does is a step of the lifecycle, made by
\* another service.
LEMMA EnvironmentRefines ==
  ASSUME RunsExist, Environment PROVE Lifecycle!Service
<1>1. ASSUME NEW r \in Runs, NEW S \in SUBSET Items, EvidenceCommitted(r, S)
      PROVE  Lifecycle!Arrive(r, S)
  BY <1>1 DEF EvidenceCommitted, RunsExist, Lifecycle!Arrive
<1>2. ASSUME NEW r \in Runs, EvidenceRepeated(r) PROVE Lifecycle!Repeat(r)
  BY <1>2 DEF EvidenceRepeated, RunsExist, evidence, Lifecycle!Repeat
<1>3. ASSUME NEW i \in Items, UpsertAsset(i) PROVE Lifecycle!FindAsset(i)
  BY <1>3 DEF UpsertAsset, Lifecycle!FindAsset
<1>4. ASSUME NEW i \in Items, WriteParsed(i) PROVE Lifecycle!Normalize(i)
  <2>1. \/ AssetFor[i] = NoAsset /\ UNCHANGED assetOf
        \/ /\ AssetFor[i] \in Assets /\ assetRun[AssetFor[i]] # NoRun
           /\ assetOf' = [assetOf EXCEPT ![i] = AssetFor[i]]
    BY <1>4, OrchestratorAssumption DEF WriteParsed, AssetColumn
  <2> QED BY <1>4, <2>1, Zenon DEF WriteParsed, Lifecycle!Normalize
<1> QED BY <1>1, <1>2, <1>3, <1>4 DEF Environment, Lifecycle!Service

\* A command moves its run on, or changes neither runs nor evidence.
LEMMA CommandRefines ==
  ASSUME TypeInv, RunsExist, NEW c \in Clis,
         \/ Discover(c) \/ Describe(c) \/ Abort(c)
         \/ \E r \in Runs : StartDiscovery(c, r) \/ StartReport(c, r)
  PROVE  (\E r \in Runs : Lifecycle!Command(r)) \/ UNCHANGED Lifecycle!columns
<1> DEFINE Maps == (\E r \in Runs : Lifecycle!Command(r)) \/ UNCHANGED Lifecycle!columns
<1>1. ASSUME UNCHANGED <<status, evidence>> PROVE Maps
  BY <1>1 DEF evidence, Lifecycle!columns
<1>2. ASSUME NEW r \in Runs, NEW s \in {"discovering", "reporting", "complete"},
             status' = [status EXCEPT ![r] = s], UNCHANGED evidence
      PROVE  Maps
  BY <1>2 DEF evidence, RunsExist, Lifecycle!Command
<1> HIDE DEF Maps
<1>3. ASSUME NEW r \in Runs, StartDiscovery(c, r) \/ StartReport(c, r) PROVE Maps
  BY <1>1, <1>2, <1>3 DEF StartDiscovery, StartReport
<1>4. ASSUME FinishDiscovery(c) \/ CompleteRun(c) PROVE Maps
  <2>1. cli[c].run \in Runs
    BY <1>4 DEF FinishDiscovery, CompleteRun, At, TypeInv, Acting
  <2> QED BY <1>2, <1>4, <2>1 DEF FinishDiscovery, CompleteRun
<1>5. ASSUME Discover(c), ~FinishDiscovery(c) PROVE Maps
  BY <1>1, <1>5 DEF Discover, ReadCategories, ReadAssets, NextAgent, ReadEvidence,
                    RunAgent, AuditAgent, AuditDiscovery
<1>6. ASSUME Describe(c) \/ Abort(c), ~CompleteRun(c) PROVE Maps
  BY <1>1, <1>6 DEF Describe, WriteReport, AuditReport, Abort
<1> QED BY <1>3, <1>4, <1>5, <1>6 DEF Maps

\* Every step of every actor is a step of the lifecycle or changes none of its columns.
LEMMA StepRefines ==
  ASSUME TypeInv, RunsExist, [Next]_vars
  PROVE  [Lifecycle!Next]_(Lifecycle!columns)
<1>1. CASE Environment
  BY <1>1, EnvironmentRefines DEF Lifecycle!Next
<1>2. CASE UNCHANGED vars
  BY <1>2 DEF vars, evidence, Lifecycle!columns
<1>3. CASE Next /\ ~Environment
  <2>1. PICK c \in Clis : \/ Discover(c) \/ Describe(c) \/ Abort(c)
                          \/ \E r \in Runs : StartDiscovery(c, r) \/ StartReport(c, r)
    BY <1>3 DEF Next
  <2> QED BY <2>1, CommandRefines DEF Lifecycle!Next
<1> QED BY <1>1, <1>2, <1>3

\* No step removes a run.
LEMMA RunsStay == ASSUME TypeInv, RunsExist, [Next]_vars PROVE RunsExist'
<1>1. status \in [Runs -> RunStatus]
  BY DEF TypeInv, TypeOK
<1>2. CASE Lifecycle!Service \/ \E r \in Runs : Lifecycle!Create(r) \/ Lifecycle!Command(r)
  BY <1>1, <1>2 DEF RunsExist, Lifecycle!Service, Lifecycle!Create, Lifecycle!Command,
       Lifecycle!Arrive, Lifecycle!Repeat, Lifecycle!FindAsset, Lifecycle!Normalize
<1>3. CASE UNCHANGED Lifecycle!columns
  BY <1>3 DEF RunsExist, Lifecycle!columns
<1> QED BY <1>2, <1>3, StepRefines DEF Lifecycle!Next

\* Discovery and report passes change no evidence and no asset, move runs on only,
\* and what changes all of these underneath is the lifecycle the other services
\* implement.
THEOREM Refines == Spec => ImplementsLifecycle
<1>1. Init => Lifecycle!Init /\ RunsExist
  BY DEF Init, RunsExist, Lifecycle!Init, Lifecycle!Fresh
<1> QED BY <1>1, StepRefines, RunsStay, TypedCommands, PTL
        DEF Spec, ImplementsLifecycle, Lifecycle!Spec

\* So the laws of the lifecycle hold while commands overwrite statuses: a run that has
\* evidence never looks as if it had none, and what an agent was shown stays true.
THEOREM Lawful == Spec => []Lifecycle!ColumnsAgree /\ Lifecycle!NothingTakenBack
BY Refines, SchemaAssumption, Lifecycle!Agree, Lifecycle!Permanent, PTL DEF ImplementsLifecycle

\* The commands beside other services of which nothing is known but that they take the
\* columns they share through the lifecycle and leave the orchestrator's tables alone.
OtherService == Lifecycle!Service /\ UNCHANGED <<outputs, cli, commands>>

CommandStep ==
  \/ \E c \in Clis, r \in Runs : StartDiscovery(c, r) \/ StartReport(c, r)
  \/ \E c \in Clis : Discover(c) \/ Describe(c) \/ Abort(c)

OpenSpec == Init /\ [][OtherService \/ CommandStep]_vars

\* Whatever another service does is in the environment.
LEMMA OtherIsEnvironment == ASSUME OtherService PROVE Environment
<1>1. ASSUME NEW r \in Runs, Lifecycle!Repeat(r) PROVE EvidenceRepeated(r)
  BY <1>1 DEF OtherService, Lifecycle!Repeat, EvidenceRepeated, evidence
<1>2. ASSUME NEW r \in Runs, NEW S \in SUBSET Items, Lifecycle!Arrive(r, S)
      PROVE  EvidenceCommitted(r, S)
  BY <1>2 DEF OtherService, Lifecycle!Arrive, EvidenceCommitted
<1>3. ASSUME NEW i \in Items, Lifecycle!FindAsset(i) PROVE UpsertAsset(i)
  BY <1>3 DEF OtherService, Lifecycle!FindAsset, UpsertAsset
<1>4. ASSUME NEW i \in Items, Lifecycle!Normalize(i) PROVE WriteParsed(i)
  <2>1. /\ AssetFor[i] # NoAsset => assetRun[AssetFor[i]] # NoRun
        /\ assetOf' = IF AssetFor[i] = NoAsset THEN assetOf
                      ELSE [assetOf EXCEPT ![i] = AssetFor[i]]
    BY <1>4, SchemaAssumption DEF Lifecycle!Normalize
  <2> QED BY <1>4, <2>1, Zenon DEF OtherService, Lifecycle!Normalize, WriteParsed
<1> QED BY <1>1, <1>2, <1>3, <1>4 DEF OtherService, Lifecycle!Service, Environment

\* The orchestrator relies on nothing else of the ingestion API and the normalizer:
\* beside any services that implement the lifecycle its commands behave as specified,
\* so every guarantee of this module holds for the whole system.
THEOREM AnyServices == OpenSpec => Spec
<1>1. OtherService \/ CommandStep => Next
  BY OtherIsEnvironment DEF CommandStep, Next
<1> QED BY <1>1, PTL DEF OpenSpec, Spec

----------------------------------------------------------------------------
(* The audit log accounts for the observations.                             *)

Wrote(k)       == {o \in observations : o.command = k}
WroteFor(k, g) == {o \in observations : o.command = k /\ o.agent = g}

\* Nothing has been written or logged by command k, or by k for agent g.
Unused(k)   == /\ \A o \in observations : o.command # k
               /\ \A e \in audits : e.command # k
Fresh(k, g) == /\ \A o \in observations : ~(o.command = k /\ o.agent = g)
               /\ \A e \in audits : ~(e.action = "agent_run" /\ e.command = k /\ e.agent = g)

Discovering == {"categories", "assets", "agents", "evidence", "agent", "audit_agent", "audit_run"}

\* What a command under way has counted: all it wrote, and before an agent's row what
\* it wrote for that agent. It has nothing of the agents it still has to run.
Ledger(l) ==
  /\ l.step # "idle" => l.command \in 1..commands
  /\ l.step \in {"categories", "assets"} => Unused(l.command) /\ l.total = 0
  /\ l.step \in Discovering => /\ l.total = Cardinality(Wrote(l.command))
                               /\ \A e \in audits : ~(e.action = "discovered" /\ e.command = l.command)
  /\ l.step \in Discovering => \A g \in l.agents : Fresh(l.command, g)
  /\ l.step \in {"evidence", "agent"} => Fresh(l.command, l.agent)
  /\ l.step \in {"evidence", "agent", "audit_agent"} => l.agent \notin l.agents
  /\ l.step = "audit_agent" => l.written = Cardinality(WroteFor(l.command, l.agent))

\* No two commands under way have one number.
Numbered == \A c, d \in Clis : c # d /\ cli[c].step # "idle" /\ cli[d].step # "idle"
                                 => cli[c].command # cli[d].command

Books ==
  /\ IsFiniteSet(observations)
  /\ \A o \in observations : o.command \in 1..commands
  /\ \A e \in audits : e.command \in 1..commands
  /\ \A c \in Clis : Ledger(cli[c])
  /\ Numbered
  /\ AuditAccountsForRows

\* A ledger holds as long as nothing is written or logged under its number.
LEMMA LedgerKept ==
  ASSUME NEW l \in Local, Ledger(l), l.step # "idle",
         commands \in Nat, commands' \in Nat, commands <= commands',
         observations \subseteq observations', audits \subseteq audits',
         \A o \in observations' \ observations : o.command # l.command,
         \A e \in audits' \ audits : e.command # l.command
  PROVE  Ledger(l)'
<1>1. Wrote(l.command)' = Wrote(l.command)
  BY DEF Wrote
<1>2. \A g : WroteFor(l.command, g)' = WroteFor(l.command, g)
  BY DEF WroteFor
<1>3. Unused(l.command) => Unused(l.command)'
  BY DEF Unused
<1>4. \A g : Fresh(l.command, g) => Fresh(l.command, g)'
  BY DEF Fresh
<1>5. \A e \in audits' : e.command = l.command => e \in audits
  OBVIOUS
<1>6. l.command \in 1..commands => l.command \in 1..commands'
  OBVIOUS
<1> QED BY <1>1, <1>2, <1>3, <1>4, <1>5, <1>6 DEF Ledger

\* What a step of command c has to show when it writes or logs under number k only:
\* that its own ledger is right and that the audit log still is.
LEMMA BooksKept ==
  ASSUME TypeInv, TypeInv', Books, NEW c \in Clis, NEW k \in 1..commands', Only(c),
         commands <= commands', IsFiniteSet(observations'),
         observations \subseteq observations', audits \subseteq audits',
         \A o \in observations' \ observations : o.command = k,
         \A e \in audits' \ audits : e.command = k,
         \A d \in Clis : d # c /\ cli[d].step # "idle" => cli[d].command # k,
         cli'[c].step # "idle" => cli'[c].command = k,
         Ledger(cli[c])', AuditAccountsForRows'
  PROVE  Books'
<1>1. commands \in Nat /\ commands' \in Nat
  BY OrchestratorAssumption DEF TypeInv, TypeOK
<1>2. ASSUME NEW d \in Clis, d # c PROVE Ledger(cli[d])'
  <2>1. PICK l \in Local : l = cli[d]
    BY DEF TypeInv, TypeOK
  <2>2. l = cli'[d] /\ Ledger(l)
    BY <1>2, <2>1 DEF Only, Books
  <2>3. CASE l.step = "idle"
    BY <2>2, <2>3 DEF Ledger, Discovering
  <2>4. CASE l.step # "idle"
    <3>1. l.command # k
      BY <1>2, <2>1, <2>4
    <3>2. Ledger(l)'
      BY <1>1, <2>2, <2>4, <3>1, LedgerKept
    <3> QED BY <2>2, <3>2 DEF Ledger, Discovering
  <2> QED BY <2>3, <2>4
<1>3. \A d \in Clis : Ledger(cli[d])'
  BY <1>2
<1>4. Numbered'
  BY DEF Numbered, Only, Books
<1>5. /\ \A o \in observations' : o.command \in 1..commands'
      /\ \A e \in audits' : e.command \in 1..commands'
  BY <1>1 DEF Books
<1> QED BY <1>3, <1>4, <1>5 DEF Books

\* Starting a command takes a number nothing has been written under.
LEMMA BooksStart ==
  ASSUME TypeInv, TypeInv', Books, NEW c \in Clis, NEW r \in Runs,
         StartDiscovery(c, r) \/ StartReport(c, r)
  PROVE  Books'
<1>0. PICK k \in Nat : k = commands + 1 /\ commands \in Nat
  BY OrchestratorAssumption DEF TypeInv, TypeOK
<1> DEFINE n == [Idle EXCEPT !.step = "categories", !.command = k, !.run = r]
           m == [Idle EXCEPT !.step = "report", !.command = k, !.run = r, !.facts = FactsOf(r)]
<1>1. commands' = k /\ k \in 1..commands'
  BY <1>0 DEF StartDiscovery, StartReport
<1>2. UNCHANGED <<observations, audits>>
  BY DEF StartDiscovery, StartReport, outputs
<1>3. Set(c, n) \/ Set(c, m) \/ Set(c, Idle)
  BY <1>0 DEF StartDiscovery, StartReport
<1>4. (cli'[c] = n \/ cli'[c] = m \/ cli'[c] = Idle) /\ Only(c)
  BY <1>3, SetOnly
<1>5. Unused(k)'
  BY <1>0, <1>2 DEF Unused, Books
<1>6. Wrote(k)' = {}
  BY <1>5 DEF Wrote, Unused
<1>7. Ledger(cli[c])'
  <2>1. CASE cli'[c] = Idle
    BY <2>1 DEF Ledger, Discovering, Idle
  <2>2. CASE cli'[c] = m
    <3>1. m.step = "report" /\ m.command = k
      BY DEF Idle
    <3> QED BY <1>1, <2>2, <3>1 DEF Ledger, Discovering
  <2>3. CASE cli'[c] = n
    <3>1. n.step = "categories" /\ n.command = k /\ n.total = 0 /\ n.agents = {}
      BY DEF Idle
    <3>2. Cardinality(Wrote(k)') = 0
      BY <1>6, FS_EmptySet
    <3>3. \A e \in audits' : e.command # k
      BY <1>5 DEF Unused
    <3> HIDE DEF n
    <3> QED BY <1>1, <1>5, <2>3, <3>1, <3>2, <3>3 DEF Ledger, Discovering, Wrote
  <2> QED BY <1>4, <2>1, <2>2, <2>3
<1>8. cli'[c].step # "idle" => cli'[c].command = k
  <2>1. n.command = k /\ m.command = k /\ Idle.step = "idle"
    BY DEF Idle
  <2> HIDE DEF n, m
  <2> QED BY <1>4, <2>1
<1>9. \A d \in Clis : d # c /\ cli[d].step # "idle" => cli[d].command # k
  BY <1>0 DEF Books, Ledger
<1>10. AuditAccountsForRows' /\ IsFiniteSet(observations')
  BY <1>2 DEF Books, AuditAccountsForRows
<1>11. commands <= commands'
  BY <1>0, <1>1
<1> QED BY <1>1, <1>2, <1>4, <1>7, <1>8, <1>9, <1>10, <1>11, BooksKept

\* A command under way writes and logs under its own number only.
LEMMA BooksOwn ==
  ASSUME TypeInv, TypeInv', Books, NEW c \in Clis, Only(c), cli[c].step # "idle",
         commands' = commands, IsFiniteSet(observations'),
         observations \subseteq observations', audits \subseteq audits',
         \A o \in observations' \ observations : o.command = cli[c].command,
         \A e \in audits' \ audits : e.command = cli[c].command,
         cli'[c].step # "idle" => cli'[c].command = cli[c].command,
         Ledger(cli[c])', AuditAccountsForRows'
  PROVE  Books'
<1>1. PICK k \in 1..commands : k = cli[c].command
  BY DEF Books, Ledger
<1>2. commands \in Nat /\ commands <= commands'
  BY OrchestratorAssumption DEF TypeInv, TypeOK
<1>3. \A d \in Clis : d # c /\ cli[d].step # "idle" => cli[d].command # k
  BY <1>1 DEF Books, Numbered
<1> QED BY <1>1, <1>2, <1>3, BooksKept

\* A step that writes and logs nothing has its own ledger to keep, none if it idles.
LEMMA BooksQuiet ==
  ASSUME TypeInv, TypeInv', Books, NEW c \in Clis, NEW m, Set(c, m), cli[c].step # "idle",
         UNCHANGED <<observations, audits, commands>>,
         \/ m = Idle
         \/ m.command = cli[c].command /\ Ledger(m)
  PROVE  Books'
<1>1. cli'[c] = m /\ Only(c)
  BY SetOnly
<1>2. Ledger(m)
  BY DEF Ledger, Discovering, Idle
<1>3. Wrote(m.command)' = Wrote(m.command)
  BY DEF Wrote
<1>4. \A g : WroteFor(m.command, g)' = WroteFor(m.command, g)
  BY DEF WroteFor
<1>5. Ledger(m)'
  BY <1>2, <1>3, <1>4 DEF Ledger, Unused, Fresh
<1>6. Ledger(cli[c])'
  BY <1>1, <1>5, <1>3, <1>4 DEF Ledger, Unused, Fresh, Wrote, WroteFor
<1>7. AuditAccountsForRows' /\ IsFiniteSet(observations')
  BY DEF Books, AuditAccountsForRows
<1>8. cli'[c].step # "idle" => cli'[c].command = cli[c].command
  BY <1>1 DEF Idle
<1> QED BY <1>1, <1>6, <1>7, <1>8, BooksOwn

\* Reading, choosing an agent and moving on write nothing; an agent is run once.
LEMMA BooksRead ==
  ASSUME TypeInv, TypeInv', Books, NEW c \in Clis,
         \/ ReadCategories(c) \/ ReadAssets(c) \/ FinishDiscovery(c)
         \/ \E g \in Agents : NextAgent(c, g)
         \/ \E k \in Categories : ReadEvidence(c, k)
  PROVE  Books'
<1> DEFINE l == cli[c]
<1>1. l \in Local /\ Ledger(l)
  BY DEF TypeInv, TypeOK, Books
<1> USE DEF At, outputs
<1>2. CASE ReadCategories(c)
  <2> DEFINE n == [l EXCEPT !.step = "assets",
                     !.categories = {CategoryOf[i] : i \in Normalized(l.run)}]
  <2>1. /\ n.step = "assets" /\ n.command = l.command /\ n.total = l.total
        /\ n.agents = l.agents /\ l.step = "categories"
    BY <1>1, <1>2 DEF ReadCategories, Local
  <2>2. Set(c, n) /\ UNCHANGED <<observations, audits, commands>>
    BY <1>2 DEF ReadCategories
  <2> HIDE DEF n
  <2>3. Ledger(n)
    BY <1>1, <2>1 DEF Ledger, Discovering
  <2> QED BY <2>1, <2>2, <2>3, BooksQuiet
<1>3. CASE ReadAssets(c)
  <2> DEFINE n == [l EXCEPT !.step = "agents",
                     !.assets = {a \in Assets : assetRun[a] = l.run},
                     !.agents = {AgentFor[k] : k \in l.categories} \cap Registry]
  <2>1. /\ n.step = "agents" /\ n.command = l.command /\ n.total = l.total
        /\ l.step = "assets"
    BY <1>1, <1>3 DEF ReadAssets, Local
  <2>2. Set(c, n) /\ UNCHANGED <<observations, audits, commands>>
    BY <1>3 DEF ReadAssets
  <2> HIDE DEF n
  <2>3. \A g : Unused(l.command) => Fresh(l.command, g)
    BY DEF Unused, Fresh
  <2>4. Ledger(n)
    BY <1>1, <2>1, <2>3 DEF Ledger, Discovering
  <2> QED BY <2>1, <2>2, <2>4, BooksQuiet
<1>4. CASE FinishDiscovery(c)
  <2> DEFINE n == [l EXCEPT !.step = "audit_run"]
  <2>1. /\ n.step = "audit_run" /\ n.command = l.command /\ n.total = l.total
        /\ n.agents = l.agents /\ l.step = "agents"
    BY <1>1, <1>4 DEF FinishDiscovery, Local
  <2>2. Set(c, n) /\ UNCHANGED <<observations, audits, commands>>
    BY <1>4 DEF FinishDiscovery
  <2> HIDE DEF n
  <2>3. Ledger(n)
    BY <1>1, <2>1 DEF Ledger, Discovering
  <2> QED BY <2>1, <2>2, <2>3, BooksQuiet
<1>5. ASSUME NEW g \in Agents, NextAgent(c, g) PROVE Books'
  <2> DEFINE n == [l EXCEPT !.step = "evidence", !.agent = g, !.agents = @ \ {g},
                     !.toRead = {k \in l.categories : AgentFor[k] = g}, !.evidence = {}]
  <2>1. /\ n.step = "evidence" /\ n.command = l.command /\ n.total = l.total
        /\ n.agents = l.agents \ {g} /\ n.agent = g /\ l.step = "agents" /\ g \in l.agents
    BY <1>1, <1>5 DEF NextAgent, Local
  <2>2. Set(c, n) /\ UNCHANGED <<observations, audits, commands>>
    BY <1>5 DEF NextAgent
  <2> HIDE DEF n
  <2>3. Ledger(n)
    BY <1>1, <2>1 DEF Ledger, Discovering
  <2> QED BY <2>1, <2>2, <2>3, BooksQuiet
<1>6. ASSUME NEW k \in Categories, ReadEvidence(c, k) PROVE Books'
  <2> DEFINE n == [l EXCEPT !.toRead = @ \ {k},
                     !.step = IF l.toRead = {k} THEN "agent" ELSE "evidence",
                     !.evidence = @ \cup {i \in Normalized(l.run) : CategoryOf[i] = k}]
  <2>1. /\ n.step \in {"agent", "evidence"} /\ n.command = l.command /\ n.total = l.total
        /\ n.agents = l.agents /\ n.agent = l.agent /\ l.step = "evidence"
    BY <1>1, <1>6 DEF ReadEvidence, Local
  <2>2. Set(c, n) /\ UNCHANGED <<observations, audits, commands>>
    BY <1>6 DEF ReadEvidence
  <2> HIDE DEF n
  <2>3. Ledger(n)
    BY <1>1, <2>1 DEF Ledger, Discovering
  <2> QED BY <2>1, <2>2, <2>3, BooksQuiet
<1> QED BY <1>2, <1>3, <1>4, <1>5, <1>6

\* What an agent's answer adds to the observations is its own and new, so its two
\* counts are right; what was logged before is of other agents or other commands.
LEMMA BooksAgent ==
  ASSUME TypeInv, TypeInv', Books, NEW c \in Clis, NEW A \in Answers(Answer), RunAgent(c, A)
  PROVE  Books'
<1>1. PICK l \in Local : l = cli[c]
  BY DEF TypeInv, TypeOK
<1>2. PICK R : R = Rows(l, A)
  OBVIOUS
<1>3. PICK m : m = Cardinality(R)
  OBVIOUS
<1> DEFINE n == [l EXCEPT !.step = "audit_agent", !.written = m, !.total = @ + m]
<1>4. l.step = "agent" /\ Ledger(l) /\ l.command \in Command /\ l.run \in Runs /\ l.agent \in Agents
  BY <1>1 DEF RunAgent, At, Books, TypeInv, Acting
<1>5. R \subseteq Observation /\ IsFiniteSet(R)
  BY <1>2, <1>4, AnswersFinite, RowsType
<1>6. \A o \in R : o.command = l.command /\ o.agent = l.agent
  BY <1>2 DEF Rows
<1>7. /\ observations' = observations \cup R /\ Set(c, n)
      /\ UNCHANGED <<audits, commands>>
  BY <1>1, <1>2, <1>3 DEF RunAgent
<1>8. /\ n.step = "audit_agent" /\ n.command = l.command /\ n.agent = l.agent
      /\ n.agents = l.agents /\ n.written = m /\ n.total = l.total + m
  BY DEF Local
<1> HIDE DEF n
<1>9. cli'[c] = n /\ Only(c)
  BY <1>7, SetOnly
<1>10. Fresh(l.command, l.agent) /\ l.agent \notin l.agents
  BY <1>4 DEF Ledger
<1>11. WroteFor(l.command, l.agent)' = R
  BY <1>6, <1>7, <1>10 DEF WroteFor, Fresh
<1>12. \A k, g : k # l.command \/ g # l.agent => WroteFor(k, g)' = WroteFor(k, g)
  BY <1>6, <1>7 DEF WroteFor
<1>13. \A k : k # l.command => Wrote(k)' = Wrote(k)
  BY <1>6, <1>7 DEF Wrote
<1>14. Cardinality(Wrote(l.command)') = l.total + m
  <2>1. PICK W : W = Wrote(l.command)
    OBVIOUS
  <2>2. Wrote(l.command)' = W \cup R /\ W \cap R = {}
    BY <1>6, <1>7, <1>10, <2>1 DEF Wrote, Fresh
  <2>3. IsFiniteSet(W)
    <3>1. W \subseteq observations
      BY <2>1 DEF Wrote
    <3> QED BY <3>1, FS_Subset DEF Books
  <2>4. Cardinality(W \cup R) = Cardinality(W) + Cardinality(R) - Cardinality(W \cap R)
    BY <1>5, <2>3, FS_Union
  <2>5. Cardinality(W \cap R) = 0
    BY <2>2, FS_EmptySet
  <2>6. l.total = Cardinality(W) /\ l.total \in Nat /\ m \in Nat
    BY <1>3, <1>4, <1>5, <2>1, FS_CardinalityType DEF Ledger, Discovering, Local
  <2>7. Cardinality(W \cup R) = l.total + m
    BY <1>3, <2>4, <2>5, <2>6
  <2> QED BY <2>2, <2>7
<1>15. Ledger(cli[c])'
  <2>1. \A g \in l.agents : Fresh(l.command, g)'
    <3>1. \A g \in l.agents : Fresh(l.command, g) /\ g # l.agent
      BY <1>4, <1>10 DEF Ledger, Discovering
    <3> QED BY <1>6, <1>7, <3>1 DEF Fresh
  <2>2. \A e \in audits' : ~(e.action = "discovered" /\ e.command = l.command)
    BY <1>4, <1>7 DEF Ledger, Discovering
  <2>3. l.command \in 1..commands'
    BY <1>4, <1>7 DEF Ledger
  <2>4. m = Cardinality(WroteFor(l.command, l.agent)')
    BY <1>3, <1>11
  <2> QED BY <1>8, <1>9, <1>10, <1>14, <2>1, <2>2, <2>3, <2>4
           DEF Ledger, Discovering, Wrote, WroteFor, Fresh
<1>16. AuditAccountsForRows'
  <2> SUFFICES ASSUME NEW e \in audits
               PROVE  /\ e.action = "agent_run" =>
                           e.count = Cardinality(WroteFor(e.command, e.agent)')
                      /\ e.action = "discovered" => e.count = Cardinality(Wrote(e.command)')
    BY <1>7 DEF AuditAccountsForRows, Wrote, WroteFor
  <2>1. /\ e.action = "agent_run" => e.command # l.command \/ e.agent # l.agent
        /\ e.action = "discovered" => e.command # l.command
    BY <1>4, <1>10 DEF Ledger, Fresh, Discovering
  <2>2. /\ e.action = "agent_run" => e.count = Cardinality(WroteFor(e.command, e.agent))
        /\ e.action = "discovered" => e.count = Cardinality(Wrote(e.command))
    BY DEF Books, AuditAccountsForRows, Wrote, WroteFor
  <2> QED BY <1>12, <1>13, <2>1, <2>2
<1>17. IsFiniteSet(observations')
  BY <1>5, <1>7, FS_Union DEF Books
<1>18. cli[c].step # "idle" /\ cli'[c].command = cli[c].command
  BY <1>1, <1>4, <1>8, <1>9
<1> QED BY <1>1, <1>6, <1>7, <1>9, <1>15, <1>16, <1>17, <1>18, BooksOwn

\* An audit row is written with the count its command has kept.
LEMMA BooksLog ==
  ASSUME TypeInv, TypeInv', Books, NEW c \in Clis,
         AuditAgent(c) \/ AuditDiscovery(c) \/ AuditReport(c)
  PROVE  Books'
<1>1. PICK l \in Local : l = cli[c]
  BY DEF TypeInv, TypeOK
<1>2. l.step # "idle" /\ Ledger(l)
  BY <1>1 DEF AuditAgent, AuditDiscovery, AuditReport, At, Books
<1>3. PICK e : /\ audits' = audits \cup {e}
               /\ e.command = l.command
               /\ \/ /\ e.action = "agent_run" /\ e.agent = l.agent /\ e.count = l.written
                     /\ l.step = "audit_agent" /\ Set(c, [l EXCEPT !.step = "agents"])
                  \/ /\ e.action = "discovered" /\ e.count = l.total
                     /\ l.step = "audit_run" /\ Set(c, Idle)
                  \/ e.action = "reported" /\ Set(c, Idle)
  <2> DEFINE Row(action, agent, count) ==
        [action |-> action, command |-> l.command, agent |-> agent, count |-> count]
  <2>1. CASE AuditAgent(c)
    <3> WITNESS Row("agent_run", l.agent, l.written)
    <3> QED BY <1>1, <2>1 DEF AuditAgent, LogRow, At
  <2>2. CASE AuditDiscovery(c)
    <3> WITNESS Row("discovered", NoAgent, l.total)
    <3> QED BY <1>1, <2>2 DEF AuditDiscovery, LogRow, At
  <2>3. CASE AuditReport(c)
    <3> WITNESS Row("reported", NoAgent, l.written)
    <3> QED BY <1>1, <2>3 DEF AuditReport, LogRow, At
  <2> QED BY <2>1, <2>2, <2>3
<1>4. UNCHANGED <<observations, commands>>
  BY DEF AuditAgent, AuditDiscovery, AuditReport
<1>5. \A k : Wrote(k)' = Wrote(k)
  BY <1>4 DEF Wrote
<1>6. \A k, g : WroteFor(k, g)' = WroteFor(k, g)
  BY <1>4 DEF WroteFor
<1>7. Ledger(cli[c])' /\ Only(c) /\ (cli'[c].step # "idle" => cli'[c].command = cli[c].command)
  <2>1. CASE Set(c, Idle)
    <3>1. cli'[c] = Idle /\ Only(c)
      BY <2>1, SetOnly
    <3> QED BY <3>1 DEF Ledger, Discovering, Idle
  <2>2. CASE /\ e.action = "agent_run" /\ e.agent = l.agent /\ l.step = "audit_agent"
             /\ Set(c, [l EXCEPT !.step = "agents"])
    <3> DEFINE n == [l EXCEPT !.step = "agents"]
    <3>1. /\ n.step = "agents" /\ n.command = l.command /\ n.total = l.total
          /\ n.agents = l.agents
      BY DEF Local
    <3>2. cli'[c] = n /\ Only(c)
      BY <2>2, SetOnly
    <3> HIDE DEF n
    <3>3. /\ l.agent \notin l.agents
          /\ \A g \in l.agents : Fresh(l.command, g)
          /\ l.total = Cardinality(Wrote(l.command)) /\ l.command \in 1..commands
          /\ \A f \in audits : ~(f.action = "discovered" /\ f.command = l.command)
      BY <1>2, <2>2 DEF Ledger, Discovering
    <3>4. \A g \in l.agents : Fresh(l.command, g)'
      BY <1>3, <1>4, <2>2, <3>3 DEF Fresh
    <3>5. \A f \in audits' : ~(f.action = "discovered" /\ f.command = l.command)
      BY <1>3, <2>2, <3>3
    <3>6. Wrote(l.command)' = {o \in observations' : o.command = n.command}
      BY <3>1 DEF Wrote
    <3>7. l.total = Cardinality({o \in observations' : o.command = n.command})
      BY <1>5, <3>3, <3>6
    <3> QED BY <1>1, <1>4, <3>1, <3>2, <3>3, <3>4, <3>5, <3>7
             DEF Ledger, Discovering, Fresh, Wrote
  <2> QED BY <1>3, <2>1, <2>2
<1>8. AuditAccountsForRows'
  <2> SUFFICES ASSUME NEW f \in audits'
               PROVE  /\ f.action = "agent_run" =>
                           f.count = Cardinality(WroteFor(f.command, f.agent)')
                      /\ f.action = "discovered" => f.count = Cardinality(Wrote(f.command)')
    BY DEF AuditAccountsForRows, Wrote, WroteFor
  <2>1. CASE f \in audits
    <3>1. /\ f.action = "agent_run" => f.count = Cardinality(WroteFor(f.command, f.agent))
          /\ f.action = "discovered" => f.count = Cardinality(Wrote(f.command))
      BY <2>1 DEF Books, AuditAccountsForRows, Wrote, WroteFor
    <3> QED BY <1>5, <1>6, <3>1
  <2>2. CASE f = e
    <3>1. /\ l.step = "audit_agent" => l.written = Cardinality(WroteFor(l.command, l.agent))
          /\ l.step = "audit_run" => l.total = Cardinality(Wrote(l.command))
      BY <1>2 DEF Ledger, Discovering
    <3> QED BY <1>3, <1>5, <1>6, <2>2, <3>1
  <2> QED BY <1>3, <2>1, <2>2
<1>9. IsFiniteSet(observations')
  BY <1>4 DEF Books
<1> QED BY <1>1, <1>2, <1>3, <1>4, <1>7, <1>8, <1>9, BooksOwn

\* Report passes write no observation, and an aborted command leaves what it has
\* written and logged.
LEMMA BooksRest ==
  ASSUME TypeInv, TypeInv', Books, NEW c \in Clis,
         \/ Abort(c) \/ CompleteRun(c)
         \/ \E A \in Answers(RawSections) : At(c, "report") /\ WriteReport(c, A)
  PROVE  Books'
<1> DEFINE l == cli[c]
<1>1. l \in Local /\ Ledger(l)
  BY DEF TypeInv, TypeOK, Books
<1>2. CASE Abort(c)
  BY <1>2, BooksQuiet DEF Abort, At, outputs
<1>3. CASE CompleteRun(c)
  <2> DEFINE n == [l EXCEPT !.step = "audit_report"]
  <2>1. n.step = "audit_report" /\ n.command = l.command /\ l.step = "complete"
    BY <1>1, <1>3 DEF CompleteRun, At, Local
  <2>2. Set(c, n) /\ UNCHANGED <<observations, audits, commands>>
    BY <1>3 DEF CompleteRun, outputs
  <2> HIDE DEF n
  <2>3. Ledger(n)
    BY <1>1, <2>1 DEF Ledger, Discovering
  <2> QED BY <2>1, <2>2, <2>3, BooksQuiet
<1>4. ASSUME NEW A \in Answers(RawSections), At(c, "report"), WriteReport(c, A) PROVE Books'
  <2> DEFINE n == [l EXCEPT !.step = "complete", !.written = Cardinality(A)]
  <2>1. n.step = "complete" /\ n.command = l.command /\ l.step = "report"
    BY <1>1, <1>4 DEF At, Local
  <2>2. Set(c, n) /\ UNCHANGED <<observations, audits, commands>>
    BY <1>4 DEF WriteReport
  <2> HIDE DEF n
  <2>3. Ledger(n)
    BY <1>1, <2>1 DEF Ledger, Discovering
  <2> QED BY <2>1, <2>2, <2>3, BooksQuiet
<1> QED BY <1>2, <1>3, <1>4

\* The audit log never says more or less than a command wrote, for any number of
\* concurrent and aborted commands: a command writes under a number of its own,
\* runs an agent once, and logs what it counted when it wrote.
THEOREM AuditAccounts == Spec => []AuditAccountsForRows
<1>1. Init => Books
  <2> SUFFICES ASSUME Init PROVE Books
    OBVIOUS
  <2>1. \A c \in Clis : cli[c] = Idle
    BY DEF Init
  <2>2. \A c \in Clis : Ledger(cli[c])
    BY <2>1 DEF Ledger, Discovering, Idle
  <2>3. Numbered
    BY <2>1 DEF Numbered, Idle
  <2> QED BY <2>2, <2>3, FS_EmptySet DEF Init, Books, AuditAccountsForRows
<1>2. TypeInv /\ TypeInv' /\ Books /\ [Next]_vars => Books'
  <2> SUFFICES ASSUME TypeInv, TypeInv', Books, [Next]_vars PROVE Books'
    OBVIOUS
  <2>1. CASE Environment \/ UNCHANGED vars
    <3>1. UNCHANGED <<observations, audits, cli, commands>>
      BY <2>1 DEF Environment, EvidenceCommitted, EvidenceRepeated, UpsertAsset, WriteParsed,
                  vars, outputs
    <3> QED BY <3>1 DEF Books, Ledger, Unused, Fresh, Wrote, WroteFor, Numbered,
                        AuditAccountsForRows
  <2>2. ASSUME NEW c \in Clis, NEW r \in Runs, StartDiscovery(c, r) \/ StartReport(c, r)
        PROVE  Books'
    BY <2>2, BooksStart
  <2>3. ASSUME NEW c \in Clis, Discover(c) PROVE Books'
    BY <2>3, BooksRead, BooksAgent, BooksLog DEF Discover
  <2>4. ASSUME NEW c \in Clis, Describe(c) \/ Abort(c) PROVE Books'
    BY <2>4, BooksRest, BooksLog DEF Describe
  <2> QED BY <2>1, <2>2, <2>3, <2>4 DEF Next
<1>3. Books => AuditAccountsForRows
  BY DEF Books
<1> QED BY <1>1, <1>2, <1>3, TypedCommands, PTL DEF Spec
============================================================================
