------------------------- MODULE RunReaders_proofs -------------------------
(***************************************************************************)
(* Proofs about the readers of a run, for any number of readers, commands, *)
(* runs and items: what the order of a reader's queries makes of tables    *)
(* that only grow.                                                         *)
(***************************************************************************)
EXTENDS RunReaders, DiscoveryOrchestrator_proofs

\* The results of the queries, and a reader's locals.
Seens == [status : RunStatus, evidence : SUBSET Items, normalized : SUBSET Items,
          assets : SUBSET Assets, observations : SUBSET Observation,
          sections : SUBSET Section]
Reading == [kind : Kinds, run : Runs \cup {NoRun}, at : Nat, seen : Seens]

\* The queries of each reader.
LEMMA QueryTable ==
  /\ Kinds = {"get_run", "load_run", "load_sections"}
  /\ Queries["get_run"] = <<"status", "evidence", "normalized", "observations", "sections">>
  /\ Queries["load_run"] = <<"status", "assets", "evidence", "observations">>
  /\ Queries["load_sections"] = <<"status", "sections", "observations">>
BY DEF Kinds, Queries

\* Every reader sends its query for the status first, the one for the sections of a
\* narrated report second and the one for observations at its place.
PlaceOf(k) == IF k = "load_sections" THEN 3 ELSE 4

LEMMA QueryOrder ==
  ASSUME NEW k \in Kinds
  PROVE  /\ Len(Queries[k]) \in Nat /\ Len(Queries[k]) >= PlaceOf(k)
         /\ \A n \in 1..Len(Queries[k]) :
              /\ Queries[k][n] \in DOMAIN Unread
              /\ Queries[k][n] = "status" <=> n = 1
              /\ Queries[k][n] = "observations" <=> n = PlaceOf(k)
              /\ k = "load_sections" => (Queries[k][n] = "sections" <=> n = 2)
<1>1. CASE k = "get_run"
  BY <1>1, QueryTable DEF Unread, PlaceOf
<1>2. CASE k = "load_run"
  BY <1>2, QueryTable DEF Unread, PlaceOf
<1>3. CASE k = "load_sections"
  BY <1>3, QueryTable DEF Unread, PlaceOf
<1> QED BY <1>1, <1>2, <1>3, QueryTable

\* Every step of the readers' specification is one of the orchestrator's or leaves
\* its variables alone.
LEMMA ReadersStep == [ReadersNext]_readers => [Next]_vars
BY DEF ReadersNext, readers, Read, Close, Open

THEOREM ReadersRun == ReadersSpec => Spec
BY ReadersStep, PTL DEF ReadersSpec, ReadersInit, Spec

----------------------------------------------------------------------------
\* Whether the observations have been read.
Loaded(l) == l.at > PlaceOf(l.kind)

\* What a reader knows at any time: a run it has seen complete has observations,
\* the sections it has seen are rows, and facts they point at are loaded.
Consistent(l) ==
  /\ l.at > 0 /\ l.run = NoRun => l.at = 1
  /\ l.seen.status = "complete" => l.at > 1 /\ FactsOf(l.run) # {}
  /\ l.seen.status = "complete" /\ Loaded(l) => l.seen.observations # {}
  /\ l.seen.sections \subseteq sections
  /\ l.kind = "load_sections" /\ Loaded(l) =>
       \A s \in l.seen.sections : s.markers \cap FactsOf(l.run) \subseteq l.seen.observations

\* The markers of stored sections point at stored observations or at nothing.
MarkersExist == \A s \in sections : s.markers \subseteq observations \cup {Unknown}

ReadInv ==
  /\ IInv /\ MarkersExist
  /\ reading \in [Readers -> Reading]
  /\ \A p \in Readers : Consistent(reading[p])
\* A stored section was written over observations that were there.
LEMMA MarkersStep == ASSUME TypeInv, MarkersExist, [Next]_vars PROVE MarkersExist'
<1>1. observations \subseteq observations'
  BY StepGrows DEF Grows
<1>2. CASE UNCHANGED sections
  BY <1>1, <1>2 DEF MarkersExist
<1>3. ASSUME NEW c \in Clis, NEW A \in Answers(RawSections), WriteReport(c, A)
      PROVE  MarkersExist'
  <2>1. A \subseteq RawSections
    BY AnswersFinite
  <2>2. ASSUME NEW s \in sections', s \notin sections
        PROVE  s.markers \subseteq observations \cup {Unknown}
    <3>1. PICK a \in A : s = [command |-> cli[c].command, run |-> cli[c].run,
                              embedded |-> a.embedded \cap cli[c].facts,
                              markers |-> a.markers]
      BY <1>3, <2>2 DEF WriteReport
    <3> QED BY <2>1, <3>1 DEF RawSections
  <2> QED BY <1>1, <2>2 DEF MarkersExist
<1>4. ASSUME NEW c \in Clis, CompleteRun(c) PROVE UNCHANGED sections
  BY <1>4 DEF CompleteRun, outputs
<1> QED BY <1>2, <1>3, <1>4, StepRows

\* Sections are never removed.
LEMMA SectionsGrow == ASSUME TypeInv, [Next]_vars PROVE sections \subseteq sections'
<1>1. ASSUME NEW c \in Clis, NEW A \in Answers(RawSections), WriteReport(c, A)
      PROVE  sections \subseteq sections'
  BY <1>1 DEF WriteReport
<1>2. ASSUME NEW c \in Clis, CompleteRun(c) PROVE UNCHANGED sections
  BY <1>2 DEF CompleteRun, outputs
<1> QED BY <1>1, <1>2, StepRows

\* What a reader knows survives whatever the others do between two of its queries.
LEMMA OthersStep ==
  ASSUME ReadInv, [Next]_vars, UNCHANGED reading
  PROVE  \A p \in Readers : Consistent(reading[p])'
<1>1. TypeInv /\ TypeInv' /\ Grows /\ sections \subseteq sections'
  BY TypeStep, StepGrows, SectionsGrow DEF ReadInv, IInv
<1> SUFFICES ASSUME NEW p \in Readers PROVE Consistent(reading[p])'
  OBVIOUS
<1> DEFINE l == reading[p]
<1>2. l' = l /\ l \in Reading /\ Consistent(l)
  BY DEF ReadInv
<1>3. FactsOf(l.run) \subseteq FactsOf(l.run)'
  BY <1>1, FactsGrow
<1>4. ASSUME NEW s \in l.seen.sections
      PROVE  s.markers \cap FactsOf(l.run)' \subseteq s.markers \cap FactsOf(l.run)
  <2>1. s.markers \subseteq observations \cup {Unknown}
    BY <1>2, <1>4 DEF Consistent, ReadInv, MarkersExist
  <2>2. Unknown \notin observations'
    BY <1>1, ReadersAssumption DEF TypeInv, TypeOK
  <2> QED BY <2>1, <2>2 DEF FactsOf
<1> HIDE DEF l
<1>5. Consistent(l)'
  BY <1>1, <1>2, <1>3, <1>4 DEF Consistent, Loaded
<1> QED BY <1>5 DEF l

\* What a query returns is well formed, and is a field of a reader's results.
LEMMA SnapshotType ==
  ASSUME TypeOK, NEW r \in Runs, NEW seen \in Seens, NEW q \in DOMAIN Unread
  PROVE  /\ Snapshot(r) \in Seens
         /\ [seen EXCEPT ![q] = Snapshot(r)[q]] \in Seens
         /\ \A f \in DOMAIN Unread : [seen EXCEPT ![q] = Snapshot(r)[q]][f]
                                       = IF f = q THEN Snapshot(r)[q] ELSE seen[f]
<1>1. Snapshot(r) \in Seens
  BY DEF Snapshot, Seens, TypeOK, Normalized, FactsOf
<1>2. q \in {"status", "evidence", "normalized", "assets", "observations", "sections"}
  BY DEF Unread
<1> DEFINE w == Snapshot(r)
<1> HIDE DEF w
<1>3. w \in Seens
  BY <1>1 DEF w
<1>4. [seen EXCEPT ![q] = w[q]] \in Seens
  BY <1>2, <1>3 DEF Seens
<1>5. \A f \in DOMAIN Unread : [seen EXCEPT ![q] = w[q]][f] = IF f = q THEN w[q] ELSE seen[f]
  BY DEF Seens, Unread
<1> QED BY <1>1, <1>4, <1>5 DEF w

\* A query leaves its reader consistent, and the others alone.
LEMMA ReadStep ==
  ASSUME ReadInv, NEW p \in Readers, Read(p)
  PROVE  /\ reading' \in [Readers -> Reading]
         /\ \A d \in Readers : Consistent(reading[d])'
<1> DEFINE l == reading[p]
<1> DEFINE q == Query(p)
<1> DEFINE w == [l.seen EXCEPT ![q] = Snapshot(l.run)[q]]
<1> DEFINE m == [[l EXCEPT !.at = @ + 1] EXCEPT !.seen = w]
<1>1. /\ l \in Reading /\ Consistent(l) /\ TypeOK /\ IInv
      /\ reading \in [Readers -> Reading]
  BY DEF ReadInv, IInv, TypeInv
<1>2. l.at \in 1..Len(Queries[l.kind]) /\ l.run \in Runs /\ l.kind \in Kinds /\ l.seen \in Seens
  BY <1>1 DEF Read, Reading
<1>3. /\ q \in DOMAIN Unread
      /\ q = "status" <=> l.at = 1
      /\ q = "observations" <=> l.at = PlaceOf(l.kind)
      /\ l.kind = "load_sections" => (q = "sections" <=> l.at = 2)
  BY <1>2, QueryOrder DEF Query
<1>4. /\ w \in Seens
      /\ w.status = IF q = "status" THEN status[l.run] ELSE l.seen.status
      /\ w.observations = IF q = "observations" THEN FactsOf(l.run) ELSE l.seen.observations
      /\ w.sections = IF q = "sections" THEN {s \in sections : s.run = l.run}
                      ELSE l.seen.sections
  <2> DEFINE seen == l.seen
  <2> DEFINE r == l.run
  <2>0. TypeOK /\ r \in Runs /\ seen \in Seens /\ q \in DOMAIN Unread
    BY <1>1, <1>2, <1>3
  <2> HIDE DEF l, q, seen, r
  <2>a. /\ [seen EXCEPT ![q] = Snapshot(r)[q]] \in Seens
        /\ \A f \in DOMAIN Unread : [seen EXCEPT ![q] = Snapshot(r)[q]][f]
                                       = IF f = q THEN Snapshot(r)[q] ELSE seen[f]
    BY <2>0, SnapshotType
  <2>b. w = [seen EXCEPT ![q] = Snapshot(r)[q]]
    BY DEF seen, r
  <2>1. \A f \in DOMAIN Unread : w[f] = IF f = q THEN Snapshot(l.run)[q] ELSE l.seen[f]
    BY <2>a, <2>b, Zenon DEF seen, r
  <2>2. w \in Seens
    BY <2>a, <2>b
  <2>3. "status" \in DOMAIN Unread /\ "observations" \in DOMAIN Unread /\ "sections" \in DOMAIN Unread
    BY DEF Unread
  <2>4. /\ Snapshot(l.run)["status"] = status[l.run]
        /\ Snapshot(l.run)["observations"] = FactsOf(l.run)
        /\ Snapshot(l.run)["sections"] = {s \in sections : s.run = l.run}
    BY DEF Snapshot
  <2> HIDE DEF w
  <2> QED BY <2>1, <2>2, <2>3, <2>4
<1>5. reading' = [reading EXCEPT ![p] = m]
  <2>1. reading' = [reading EXCEPT ![p].at = @ + 1, ![p].seen[q] = Snapshot(l.run)[q]]
    BY DEF Read
  <2> HIDE DEF q
  <2> QED BY <1>1, <2>1 DEF Reading
<1>6. m \in Reading /\ m.kind = l.kind /\ m.run = l.run /\ m.at = l.at + 1 /\ m.seen = w
  <2>1. l \in Reading /\ l.at + 1 \in Nat /\ w \in Seens
    BY <1>1, <1>4 DEF Reading
  <2> HIDE DEF l, w
  <2> DEFINE n == [l EXCEPT !.at = @ + 1]
  <2>2. n \in Reading /\ n.kind = l.kind /\ n.run = l.run /\ n.at = l.at + 1
    BY <2>1 DEF Reading
  <2> HIDE DEF n
  <2>3. [n EXCEPT !.seen = w] \in Reading
    BY <2>1, <2>2 DEF Reading
  <2>4. m = [n EXCEPT !.seen = w]
    BY DEF n
  <2> QED BY <2>2, <2>3, <2>4 DEF Reading
<1>7. Consistent(m)
  <2>1. PlaceOf(l.kind) \in {3, 4} /\ (l.kind = "load_sections" => PlaceOf(l.kind) = 3)
    BY DEF PlaceOf
  <2>2. status[l.run] = "complete" => FactsOf(l.run) # {}
    BY <1>1, <1>2 DEF IInv, CompleteHasObservations
  <2>3. l.run # NoRun /\ l.at \in Nat /\ l.at > 0
    BY <1>2 DEF Read
  <2>4. /\ m.kind = l.kind /\ m.run = l.run /\ m.at = l.at + 1 /\ m.seen = w
        /\ Loaded(l) <=> l.at > PlaceOf(l.kind)
        /\ Loaded(m) <=> l.at + 1 > PlaceOf(l.kind)
    BY <1>6 DEF Loaded
  <2> HIDE DEF l, m, w, q
  <2>5. Loaded(m) <=> Loaded(l) \/ q = "observations"
    BY <1>3, <2>1, <2>3, <2>4
  <2>6. w.status = "complete" => m.at > 1 /\ FactsOf(l.run) # {}
    BY <1>1, <1>4, <2>2, <2>3, <2>4 DEF Consistent
  <2>7. w.status = "complete" /\ Loaded(m) => w.observations # {}
    <3>1. CASE q = "observations"
      BY <1>4, <2>6, <3>1
    <3>2. CASE q # "observations" /\ Loaded(l)
      <4>1. q # "status"
        BY <1>3, <2>1, <2>3, <2>4, <3>2
      <4> QED BY <1>1, <1>4, <3>2, <4>1 DEF Consistent
    <3> QED BY <2>5, <3>1, <3>2
  <2>8. w.sections \subseteq sections
    BY <1>1, <1>4 DEF Consistent
  <2>9. ASSUME l.kind = "load_sections", Loaded(m), NEW s \in w.sections
        PROVE  s.markers \cap FactsOf(l.run) \subseteq w.observations
    <3>1. q # "sections"
      BY <1>3, <2>1, <2>3, <2>4, <2>9
    <3>2. CASE q = "observations"
      BY <1>4, <3>2
    <3>3. CASE q # "observations"
      BY <1>1, <1>4, <2>5, <2>9, <3>1, <3>3 DEF Consistent
    <3> QED BY <3>2, <3>3
  <2> QED BY <2>3, <2>4, <2>6, <2>7, <2>8, <2>9 DEF Consistent
<1>8. /\ reading' \in [Readers -> Reading]
      /\ \A d \in Readers : Consistent(reading'[d])
  <2> HIDE DEF m
  <2> QED BY <1>1, <1>5, <1>6, <1>7 DEF ReadInv
<1>9. UNCHANGED vars
  BY DEF Read
<1> QED BY <1>8, <1>9 DEF vars, outputs, Consistent, FactsOf

\* A reader that begins, or rests again, has read nothing.
LEMMA RestStep ==
  ASSUME ReadInv, NEW p \in Readers,
         Close(p) \/ \E k \in Kinds, r \in Runs \cup {NoRun} : Open(p, k, r)
  PROVE  /\ reading' \in [Readers -> Reading]
         /\ \A d \in Readers : Consistent(reading[d])'
<1>1. Unread \in Seens
  BY DEF Unread, Seens, RunStatus
<1>2. Resting \in Reading
  BY <1>1, QueryTable DEF Resting, Reading
<1>3. PICK m \in Reading : /\ reading' = [reading EXCEPT ![p] = m]
                          /\ m.seen = Unread /\ m.at \in {0, 1}
  <2>1. CASE Close(p)
    <3>1. Resting.seen = Unread /\ Resting.at = 0
      BY DEF Resting
    <3> QED BY <1>2, <2>1, <3>1 DEF Close
  <2>2. ASSUME NEW k \in Kinds, NEW r \in Runs \cup {NoRun}, Open(p, k, r)
        PROVE  \E m \in Reading : /\ reading' = [reading EXCEPT ![p] = m]
                                  /\ m.seen = Unread /\ m.at \in {0, 1}
    <3> DEFINE m == [Resting EXCEPT !.kind = k, !.run = r, !.at = 1]
    <3>1. m \in Reading
      BY <1>2 DEF Reading
    <3>2. m.seen = Unread /\ m.at = 1
      BY DEF Resting
    <3>3. reading' = [reading EXCEPT ![p] = m]
      BY <2>2 DEF Open
    <3> HIDE DEF m
    <3> QED BY <3>1, <3>2, <3>3
  <2> QED BY <2>1, <2>2
<1>5. Consistent(m)
  <2>1. ~Loaded(m)
    BY <1>3 DEF Loaded, PlaceOf
  <2> QED BY <1>3, <2>1 DEF Consistent, Unread
<1>6. /\ reading' \in [Readers -> Reading]
      /\ \A d \in Readers : Consistent(reading'[d])
  BY <1>3, <1>5 DEF ReadInv
<1>7. UNCHANGED vars
  BY DEF Close, Open
<1> QED BY <1>6, <1>7 DEF vars, outputs, Consistent, FactsOf

\* Every step keeps the readers' invariant.
LEMMA ReadInvStep == ASSUME ReadInv, [ReadersNext]_readers PROVE ReadInv'
<1>1. [Next]_vars
  BY ReadersStep
<1>2. IInv' /\ MarkersExist'
  BY <1>1, InvStep, MarkersStep DEF ReadInv, IInv
<1>3. CASE UNCHANGED reading
  <2>1. reading' \in [Readers -> Reading]
    BY <1>3 DEF ReadInv
  <2>2. \A p \in Readers : Consistent(reading[p])'
    BY <1>1, <1>3, OthersStep
  <2> QED BY <1>2, <1>3, <2>1, <2>2 DEF ReadInv
<1>4. ASSUME NEW p \in Readers, Read(p) PROVE ReadInv'
  <2>1. /\ reading' \in [Readers -> Reading]
        /\ \A d \in Readers : Consistent(reading[d])'
    BY <1>4, ReadStep
  <2> QED BY <1>2, <2>1 DEF ReadInv
<1>5. ASSUME NEW p \in Readers,
             Close(p) \/ \E k \in Kinds, r \in Runs \cup {NoRun} : Open(p, k, r)
      PROVE  ReadInv'
  <2>1. /\ reading' \in [Readers -> Reading]
        /\ \A d \in Readers : Consistent(reading[d])'
    BY <1>5, RestStep
  <2> QED BY <1>2, <2>1 DEF ReadInv
<1> QED BY <1>3, <1>4, <1>5 DEF ReadersNext, readers

\* The readers' invariant holds initially.
LEMMA ReadInvInit == ReadersInit => ReadInv
<1> SUFFICES ASSUME ReadersInit PROVE ReadInv
  OBVIOUS
<1>1. IInv
  BY InvInit DEF ReadersInit
<1>2. MarkersExist
  BY DEF ReadersInit, Init, MarkersExist
<1>3. Resting \in Reading
  BY QueryTable DEF Resting, Reading, Unread, Seens, RunStatus
<1>4. Consistent(Resting)
  <2>1. ~Loaded(Resting)
    BY DEF Resting, Loaded, PlaceOf
  <2> QED BY <2>1 DEF Resting, Consistent, Unread
<1> QED BY <1>1, <1>2, <1>3, <1>4 DEF ReadersInit, ReadInv

\* The readers' invariant holds in every reachable state.
THEOREM ReadersInductive == ReadersSpec => []ReadInv
BY ReadInvInit, ReadInvStep, PTL DEF ReadersSpec

\* A reader that has all its answers has read the observations.
LEMMA ReadAll ==
  ASSUME ReadInv, NEW p \in Readers, HasRead(p)
  PROVE  Loaded(reading[p])
<1>1. reading[p].kind \in Kinds /\ reading[p].at \in Nat
  BY DEF ReadInv, Reading
<1>2. /\ Len(Queries[reading[p].kind]) \in Nat
      /\ Len(Queries[reading[p].kind]) >= PlaceOf(reading[p].kind)
      /\ PlaceOf(reading[p].kind) \in Nat
  BY <1>1, QueryOrder DEF PlaceOf
<1> QED BY <1>1, <1>2 DEF HasRead, Loaded

\* An answer or a report that calls its run complete shows observations, whatever
\* happened between its queries.
THEOREM CompleteAnswers == ReadersSpec => []CompleteAnswersShowFacts
<1>1. ReadInv => CompleteAnswersShowFacts
  BY ReadAll DEF ReadInv, CompleteAnswersShowFacts, Consistent
<1> QED BY <1>1, ReadersInductive, PTL

\* The narrated report finds every fact its sections point at.
THEOREM PointedFacts == ReadersSpec => []PointedFactsAreLoaded
<1>1. ReadInv => PointedFactsAreLoaded
  BY ReadAll DEF ReadInv, PointedFactsAreLoaded, Consistent
<1> QED BY <1>1, ReadersInductive, PTL
=============================================================================
