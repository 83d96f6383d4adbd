----------------------------- MODULE RunReaders -----------------------------
(***************************************************************************)
(* Who reads a run while commands, uploads and the normalizer change it:   *)
(* GET /v1/runs/{id} of the ingestion API, and the two loaders of the      *)
(* report generator, one for the report rendered from the tables and one   *)
(* for the sections the report agent narrated. Each sends several queries  *)
(* in one transaction; at Postgres' default isolation every query sees     *)
(* what is committed when it starts, so an answer puts together the        *)
(* tables of different moments, and only the order of its queries says     *)
(* what its parts may be taken for together.                               *)
(***************************************************************************)
EXTENDS DiscoveryOrchestrator, Sequences

CONSTANT Readers  \* requests and renderings that may run at the same time

ASSUME ReadersAssumption == Unknown \notin Observation

VARIABLE reading  \* what each reader does and has read

readers == <<vars, reading>>

\* Mutant: the status is read last.
QueriesStatusLast ==
  [get_run       |-> <<"evidence", "normalized", "observations", "sections", "status">>,
   load_run      |-> <<"assets", "evidence", "observations", "status">>,
   load_sections |-> <<"sections", "observations", "status">>]

\* Mutant: the topics are read before the sections.
QueriesTopicsFirst ==
  [get_run       |-> <<"status", "evidence", "normalized", "observations", "sections">>,
   load_run      |-> <<"status", "assets", "evidence", "observations">>,
   load_sections |-> <<"status", "observations", "sections">>]

\* The queries of each reader, in their order.
Queries ==
  [get_run       |-> <<"status", "evidence", "normalized", "observations", "sections">>,
   load_run      |-> <<"status", "assets", "evidence", "observations">>,
   load_sections |-> <<"status", "sections", "observations">>]

Kinds == DOMAIN Queries

\* What each query would return now; of some a reader keeps only the number of rows.
Snapshot(r) ==
  [status       |-> status[r],
   evidence     |-> {i \in Items : runOf[i] = r},
   normalized   |-> Normalized(r),
   assets       |-> {a \in Assets : assetRun[a] = r},
   observations |-> FactsOf(r),
   sections     |-> {s \in sections : s.run = r}]

Unread == [status |-> "planning", evidence |-> {}, normalized |-> {}, assets |-> {},
           observations |-> {}, sections |-> {}]

\* A reader that rests has no query to send.
Resting == [kind |-> "get_run", run |-> NoRun, at |-> 0, seen |-> Unread]

ReadersInit == Init /\ reading = [p \in Readers |-> Resting]

\* A request or a rendering of run r begins; NoRun stands for an id without a run.
Open(p, k, r) ==
  /\ reading[p].at = 0
  /\ reading' = [reading EXCEPT ![p] = [Resting EXCEPT !.kind = k, !.run = r, !.at = 1]]
  /\ UNCHANGED vars

Query(p) == Queries[reading[p].kind][reading[p].at]

\* Its next query. If the first one finds no run there is no other.
Read(p) ==
  LET l == reading[p] IN
  /\ l.at \in 1..Len(Queries[l.kind]) /\ l.run # NoRun
  /\ reading' = [reading EXCEPT ![p].at = @ + 1,
                                ![p].seen[Query(p)] = Snapshot(l.run)[Query(p)]]
  /\ UNCHANGED vars

\* It answers or renders what it has read, answers 404 or gives up.
Close(p) ==
  /\ reading[p].at # 0
  /\ reading' = [reading EXCEPT ![p] = Resting]
  /\ UNCHANGED vars

ReadersNext ==
  \/ Next /\ UNCHANGED reading
  \/ \E p \in Readers : Read(p) \/ Close(p) \/ \E k \in Kinds, r \in Runs \cup {NoRun} : Open(p, k, r)

ReadersSpec == ReadersInit /\ [][ReadersNext]_readers

----------------------------------------------------------------------------
\* All queries of reader p have been answered.
HasRead(p) == reading[p].at > Len(Queries[reading[p].kind])

\* An answer, or a report, that calls its run complete shows observations, though
\* the status and the observations are of different moments.
CompleteAnswersShowFacts ==
  \A p \in Readers : LET seen == reading[p].seen IN
     HasRead(p) /\ seen.status = "complete" => seen.observations # {}

\* The narrated report finds the topic of every fact of its run that its sections
\* point at, though sections and topics are of different moments: none of them is
\* expanded as an unknown observation because it was not loaded.
PointedFactsAreLoaded ==
  \A p \in Readers : HasRead(p) /\ reading[p].kind = "load_sections" =>
     \A s \in reading[p].seen.sections :
        s.markers \cap FactsOf(reading[p].run) \subseteq reading[p].seen.observations
=============================================================================
