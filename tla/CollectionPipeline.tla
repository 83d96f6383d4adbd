------------------------- MODULE CollectionPipeline -------------------------
(***************************************************************************)
(* The collector (collector/cmd/auditor-collect) in front of the ingestion *)
(* API and the normalizer: a process that runs the selected tools one by   *)
(* one, packs what they printed into a bundle, creates a run and uploads   *)
(* the bundle to it, once. It does not retry: after a failure the operator *)
(* starts another process, which collects afresh, into a run of its own.   *)
(*                                                                         *)
(* EvidenceIngestion has the upload step by step and proves that a bundle  *)
(* is stored whole or not at all; here the server stores it in one step.   *)
(***************************************************************************)
EXTENDS NormalizerWorker

CONSTANTS Collectors,  \* collector processes
          Tools,       \* tool names an operator may ask for
          Allowlist,   \* policy.Phase1
          ToolOf       \* the tool an item comes from

ASSUME CollectorAssumption ==
  /\ Allowlist \subseteq Tools
  /\ ToolOf \in [Items -> Tools]

VARIABLES
  step,     \* what each collector is doing, or how it ended
  asked,    \* the tools selected for it
  toRun,    \* those it has still to run
  missing,  \* those that are not on its host
  items,    \* the items of its bundle
  target,   \* the run it created, NoRun before
  post,     \* its upload, as the server sees it
  status    \* runs.status

collector == <<step, asked, toRun, missing, items>>
server    == <<target, post, status>>
pipelineVars == <<vars, collector, server>>

CollectorSteps == {"idle", "collect", "create", "upload", "waiting", "ok", "written", "failed"}

PipelineTypeOK ==
  /\ TypeOK
  /\ step \in [Collectors -> CollectorSteps]
  /\ asked \in [Collectors -> SUBSET Allowlist]
  /\ toRun \in [Collectors -> SUBSET Allowlist]
  /\ missing \in [Collectors -> SUBSET Allowlist]
  /\ items \in [Collectors -> SUBSET Items]
  /\ target \in [Collectors -> Runs \cup {NoRun}]
  /\ post \in [Collectors -> {"none", "posted", "stored", "refused"}]
  /\ status \in [Runs -> RunStatus]

PipelineInit ==
  /\ Init
  /\ step = [c \in Collectors |-> "idle"]
  /\ asked = [c \in Collectors |-> {}]
  /\ toRun = [c \in Collectors |-> {}]
  /\ missing = [c \in Collectors |-> {}]
  /\ items = [c \in Collectors |-> {}]
  /\ target = [c \in Collectors |-> NoRun]
  /\ post = [c \in Collectors |-> "none"]
  /\ status = [r \in Runs |-> "absent"]

Goto(c, s) == step' = [step EXCEPT ![c] = s]

\* The process ends: what it has not posted is gone with it.
Ends(c, s) ==
  /\ Goto(c, s)
  /\ toRun' = [toRun EXCEPT ![c] = {}]
  /\ IF post[c] # "none" THEN UNCHANGED <<asked, missing, items>>
     ELSE /\ asked' = [asked EXCEPT ![c] = {}]
          /\ missing' = [missing EXCEPT ![c] = {}]
          /\ items' = [items EXCEPT ![c] = {}]

----------------------------------------------------------------------------
(* The collector.                                                           *)

Over == {"idle", "ok", "written", "failed"}

\* Mutant: the names are taken as they are.
SelectedAny(T) == T

\* selectTools.
Selected(T) == T \cap Allowlist

\* auditor-collect run --tools T: names that are not on the allowlist are ignored,
\* and with none left the process ends. Processes are alike, so they start in a
\* fixed order. Bound: one at a time.
StartCollector(c, T) ==
  /\ step[c] = "idle" /\ c = CHOOSE d \in Collectors : step[d] = "idle"
  /\ \A d \in Collectors : step[d] \in Over
  /\ asked' = [asked EXCEPT ![c] = Selected(T)]
  /\ toRun' = [toRun EXCEPT ![c] = Selected(T)]
  /\ Goto(c, IF Selected(T) = {} THEN "failed" ELSE "collect")
  /\ UNCHANGED <<vars, missing, items, server>>

\* A tool has run, and its output becomes a new item whatever its exit code, even
\* if the timeout killed it half-way. Its version is asked for without a timeout.
ToolCaptured(c, t, i) ==
  /\ step[c] = "collect" /\ t \in toRun[c]
  /\ ToolOf[i] = t /\ \A d \in Collectors : i \notin items[d]
  /\ items' = [items EXCEPT ![c] = @ \cup {i}]
  /\ toRun' = [toRun EXCEPT ![c] = @ \ {t}]
  /\ UNCHANGED <<vars, step, asked, missing, server>>

\* The tool is not on this host: it is skipped.
ToolMissing(c, t) ==
  /\ step[c] = "collect" /\ t \in toRun[c]
  /\ missing' = [missing EXCEPT ![c] = @ \cup {t}]
  /\ toRun' = [toRun EXCEPT ![c] = @ \ {t}]
  /\ UNCHANGED <<vars, step, asked, items, server>>

\* Mutant: a tool that cannot be started is skipped as well.
ToolErrorSkipped(c, t) ==
  /\ step[c] = "collect" /\ t \in toRun[c]
  /\ toRun' = [toRun EXCEPT ![c] = @ \ {t}]
  /\ UNCHANGED <<vars, step, asked, missing, items, server>>

\* The tool cannot be started: the whole collection ends.
ToolError(c, t) ==
  /\ step[c] = "collect" /\ t \in toRun[c]
  /\ Ends(c, "failed")
  /\ UNCHANGED <<vars, server>>

\* All tools are done: the bundle is built, and written to a file with --output.
\* Without an item there is nothing to build.
BuildBundle(c) ==
  /\ step[c] = "collect" /\ toRun[c] = {}
  /\ \/ items[c] = {} /\ Ends(c, "failed")
     \/ items[c] # {} /\ Ends(c, "written")
     \/ /\ items[c] # {} /\ Goto(c, "create")
        /\ UNCHANGED <<asked, toRun, missing, items>>
  /\ UNCHANGED <<vars, server>>

Absent == {r \in Runs : status[r] = "absent"}

\* POST /v1/runs, answered or with its answer lost after the run was created, which
\* then stays as it is. The server gives the run a new id.
CreateRun(c) ==
  LET r == CHOOSE r \in Absent : TRUE IN
  /\ step[c] = "create" /\ Absent # {}
  /\ status' = [status EXCEPT ![r] = "collecting"]
  /\ \/ /\ Goto(c, "upload") /\ target' = [target EXCEPT ![c] = r]
        /\ UNCHANGED <<asked, toRun, missing, items>>
     \/ Ends(c, "failed") /\ UNCHANGED target
  /\ UNCHANGED <<vars, post>>

PostBundle(c) ==
  /\ step[c] = "upload"
  /\ Goto(c, "waiting")
  /\ post' = [post EXCEPT ![c] = "posted"]
  /\ UNCHANGED <<vars, asked, toRun, missing, items, target, status>>

\* Mutant: any answer is taken for success.
UploadEndsAnyhow(c) ==
  /\ step[c] = "waiting" /\ post[c] # "posted"
  /\ Ends(c, "ok")
  /\ UNCHANGED <<vars, server>>

\* The answer to the upload: anything but a 2xx is an error.
UploadEnds(c) ==
  /\ step[c] = "waiting" /\ post[c] # "posted"
  /\ Ends(c, IF post[c] = "stored" THEN "ok" ELSE "failed")
  /\ UNCHANGED <<vars, server>>

\* A call gets no answer: its 5 minutes are over, the connection is lost, or the
\* process is killed. A bundle that has been posted may still be stored.
CollectorFails(c) ==
  /\ step[c] \in {"collect", "create", "upload", "waiting"}
  /\ Ends(c, "failed")
  /\ UNCHANGED <<vars, server>>

----------------------------------------------------------------------------
(* The ingestion API.                                                       *)

\* Mutant: the rows are stored and the run stays as it is.
StoreOnly(c, t) ==
  /\ post[c] = "posted"
  /\ EvidenceCommitted(target[c], items[c], t)
  /\ post' = [post EXCEPT ![c] = "stored"]
  /\ UNCHANGED <<collector, target, status>>

\* The upload commits: the rows, the run's status and the NOTIFY, in one transaction.
Store(c, t) ==
  /\ post[c] = "posted"
  /\ EvidenceCommitted(target[c], items[c], t)
  /\ post' = [post EXCEPT ![c] = "stored"]
  /\ status' = [status EXCEPT ![target[c]] = "normalizing"]
  /\ UNCHANGED <<collector, target>>

\* The upload is refused as too large or malformed, or its handler fails.
Refuse(c) ==
  /\ post[c] = "posted"
  /\ post' = [post EXCEPT ![c] = "refused"]
  /\ UNCHANGED <<vars, collector, target, status>>

----------------------------------------------------------------------------
Collect(c) ==
  \/ \E T \in SUBSET Tools : StartCollector(c, T)
  \/ \E t \in Tools : \/ ToolMissing(c, t) \/ ToolError(c, t)
                      \/ \E i \in Items : ToolCaptured(c, t, i)
  \/ BuildBundle(c) \/ PostBundle(c) \/ UploadEnds(c) \/ CollectorFails(c)
  \/ CreateRun(c) \/ Refuse(c) \/ \E t \in 0..MaxStamp : Store(c, t)

Normalize == \E w \in Workers : Work(w) \/ OnTick(w) \/ Disturb(w)

PipelineNext ==
  \/ \E c \in Collectors : Collect(c)
  \/ Normalize /\ UNCHANGED <<collector, server>>

PipelineSpec == PipelineInit /\ [][PipelineNext]_pipelineVars

\* Only the normalizer is fair: a tool may hang, and no client or server owes
\* an upload.
PipelineFairSpec == PipelineSpec /\ Fairness

----------------------------------------------------------------------------
\* A bundle that is posted is complete: every selected tool has exactly one item in
\* it or is missing on the host. No tool is lost to an error on the way.
PostedIsComplete ==
  \A c \in Collectors : post[c] # "none" =>
     \A t \in asked[c] :
        t \in missing[c] <=> {i \in items[c] : ToolOf[i] = t} = {}

\* A collector that reports success has its whole bundle stored in the run it
\* created; and a run holds the items of one collector at most, all or none,
\* whatever the collector reported.
UploadedOnce ==
  \A c \in Collectors :
     /\ step[c] = "ok" => post[c] = "stored"
     /\ target[c] # NoRun =>
          {i \in Items : runOf[i] = target[c]} =
             (IF post[c] = "stored" THEN items[c] ELSE {})

\* The status of a run tells whether its evidence has arrived, even when its
\* collector died or gave up before it could know.
StatusTellsArrival ==
  \A r \in Runs :
     status[r] \in {"absent", "collecting"} <=> \A i \in Items : runOf[i] # r

\* With its collectors and its server, and with the real status of every run, the
\* normalizer still is the lifecycle of evidence to those who read the tables.
Evidence == INSTANCE EvidenceLifecycle WITH Uploads <- SUBSET Items

PipelineImplementsLifecycle == Evidence!Spec

\* Once a collector reports success, all it has collected and a parser can read is
\* normalized in the end, after lost notifications, failures and restarts.
ReportedIsNormalized ==
  \A c \in Collectors, i \in Items \ (NoParser \cup Unreadable) :
     step[c] = "ok" /\ i \in items[c] ~> parsed[i]
=============================================================================
