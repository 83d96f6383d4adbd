------------------------- MODULE EvidenceIngestion -------------------------
(***************************************************************************)
(* The ingestion API (services/ingestion-api): POST /v1/runs and           *)
(* POST /v1/runs/{id}/bundle over Postgres and the raw object store.       *)
(*                                                                         *)
(* Each server is one API process. The upload handler is an async function *)
(* whose body after the first await blocks, so a process handles one       *)
(* upload at a time; several processes interleave at every call they make  *)
(* to the object store or to Postgres. A transaction's rows are invisible  *)
(* (held in inserted) until Commit, and an INSERT that meets a row of      *)
(* another open transaction waits for it, as Postgres does.                *)
(*                                                                         *)
(* A bundle that is too large or malformed is answered 413 or 400 before   *)
(* any write, so only well-formed bundles are enumerated.                  *)
(***************************************************************************)
EXTENDS AuditSchema, Naturals, Sequences, FiniteSets

CONSTANTS Bundles,     \* the well-formed bundles clients upload, maybe repeatedly
          Manifest,    \* the item ids of a bundle, in manifest order
          Servers,     \* API processes
          NoBundle,    \* an object key that holds nothing
          NoRequest,   \* a server that handles no upload
          MaxClock,    \* bound: the wall clock stops at this second
          MaxUploads   \* bound: upload calls, retries included

ItemsOf(b) == {Manifest[b][n] : n \in 1..Len(Manifest[b])}

\* Item ids are fresh UUIDs of the collector: two bundles share none.
ASSUME IngestionAssumption ==
  /\ Manifest \in [Bundles -> Seq(Items)]
  /\ \A b, c \in Bundles : b # c => ItemsOf(b) \cap ItemsOf(c) = {}
  /\ MaxClock \in Nat /\ MaxUploads \in Nat

VARIABLES
  status,     \* runs.status
  runOf,      \* evidence_items.run_id, NoRun while there is no row
  created,    \* evidence_items.created_at: when the inserting transaction began
  tarball,    \* object store: (run, second) -> the bundle stored at that key
  raw,        \* object store: the (run, item) keys that hold an item's bytes
  receipts,   \* one record per committed upload: its audit row and its answer
  clock,      \* wall clock, in seconds
  uploads,    \* upload calls so far
  pc,         \* where each server's handler is
  request,    \* the (run, bundle, second, call) a server is handling
  began,      \* when the server's transaction began
  rest,       \* manifest items its loop has not finished
  inserted    \* rows its open transaction has inserted

db      == <<status, runOf, created, receipts>>
store   == <<tarball, raw>>
handler == <<pc, request, began, rest, inserted>>
vars    == <<db, store, clock, uploads, handler>>

Steps    == {"idle", "put_tarball", "begin", "put_item", "insert"}
Request  == [run : Runs, bundle : Bundles, second : 0..MaxClock, call : 1..MaxUploads]
Receipt  == [run : Runs, bundle : Bundles, second : 0..MaxClock,
             call : 1..MaxUploads, items : Nat, accepted : Nat]

TypeOK ==
  /\ status \in [Runs -> RunStatus]
  /\ runOf \in RunColumn(Items)
  /\ created \in [Items -> 0..MaxClock]
  /\ tarball \in [Runs \X (0..MaxClock) -> Bundles \cup {NoBundle}]
  /\ raw \subseteq Runs \X Items
  /\ receipts \subseteq Receipt
  /\ clock \in 0..MaxClock
  /\ uploads \in 0..MaxUploads
  /\ pc \in [Servers -> Steps]
  /\ request \in [Servers -> Request \cup {NoRequest}]
  /\ \A s \in Servers : pc[s] # "idle" => request[s] \in Request
  /\ began \in [Servers -> 0..MaxClock]
  /\ rest \in [Servers -> Seq(Items)]
  /\ inserted \in [Servers -> SUBSET Items]

Init ==
  /\ status = [r \in Runs |-> "absent"]
  /\ runOf = [i \in Items |-> NoRun]
  /\ created = [i \in Items |-> 0]
  /\ tarball = [k \in Runs \X (0..MaxClock) |-> NoBundle]
  /\ raw = {}
  /\ receipts = {}
  /\ clock = 0
  /\ uploads = 0
  /\ pc = [s \in Servers |-> "idle"]
  /\ request = [s \in Servers |-> NoRequest]
  /\ began = [s \in Servers |-> 0]
  /\ rest = [s \in Servers |-> << >>]
  /\ inserted = [s \in Servers |-> {}]

Goto(s, step) == pc' = [pc EXCEPT ![s] = step]

\* Mutant: creating the run again resets it.
CreateRunAgain(r) ==
  /\ status' = [status EXCEPT ![r] = "collecting"]
  /\ UNCHANGED <<runOf, created, receipts, store, clock, uploads, handler>>

\* POST /v1/runs: one transaction inserts the run and its audit row.
CreateRun(r) ==
  /\ status[r] = "absent"
  /\ status' = [status EXCEPT ![r] = "collecting"]
  /\ UNCHANGED <<runOf, created, receipts, store, clock, uploads, handler>>

\* Mutant: two uploads of a bundle may go through its items in opposite orders.
ReceiveUnordered(s, r, b) ==
  LET m == Manifest[b] IN
  /\ pc[s] = "idle" /\ uploads < MaxUploads
  /\ uploads' = uploads + 1
  /\ request' = [request EXCEPT ![s] =
       [run |-> r, bundle |-> b, second |-> clock, call |-> uploads + 1]]
  /\ rest' \in {[rest EXCEPT ![s] = m],
               [rest EXCEPT ![s] = [n \in 1..Len(m) |-> m[Len(m) + 1 - n]]]}
  /\ Goto(s, "put_tarball")
  /\ UNCHANGED <<db, store, clock, began, inserted>>

\* A client posts bundle b to run r: the body has been read and parsed, and the
\* key of the tarball fixed from the clock, which has a resolution of a second.
\* Nothing has looked the run up yet.
Receive(s, r, b) ==
  /\ pc[s] = "idle"
  /\ uploads < MaxUploads
  /\ uploads' = uploads + 1
  /\ request' = [request EXCEPT ![s] =
       [run |-> r, bundle |-> b, second |-> clock, call |-> uploads + 1]]
  /\ rest' = [rest EXCEPT ![s] = Manifest[b]]
  /\ Goto(s, "put_tarball")
  /\ UNCHANGED <<db, store, clock, began, inserted>>

\* The raw tarball is stored before the run is known to exist.
PutTarball(s) ==
  LET q == request[s] IN
  /\ pc[s] = "put_tarball"
  /\ tarball' = [tarball EXCEPT ![<<q.run, q.second>>] = q.bundle]
  /\ Goto(s, "begin")
  /\ UNCHANGED <<db, raw, clock, uploads, request, began, rest, inserted>>

\* The transaction begins and finds the run.
BeginTx(s) ==
  /\ pc[s] = "begin"
  /\ status[request[s].run] # "absent"
  /\ began' = [began EXCEPT ![s] = clock]
  /\ Goto(s, "put_item")
  /\ UNCHANGED <<db, store, clock, uploads, request, rest, inserted>>

\* Mutant: the handler drops its request without ending.
LeaveStuck(s) ==
  /\ request' = [request EXCEPT ![s] = NoRequest]
  /\ UNCHANGED <<pc, began, rest, inserted>>

\* The handler is over: an open transaction is rolled back, the objects stay.
Leave(s) ==
  /\ Goto(s, "idle")
  /\ rest' = [rest EXCEPT ![s] = << >>]
  /\ inserted' = [inserted EXCEPT ![s] = {}]
  /\ request' = [request EXCEPT ![s] = NoRequest]
  /\ began' = [began EXCEPT ![s] = 0]

\* The run does not exist: 404, with the tarball already stored.
RunNotFound(s) ==
  /\ pc[s] = "begin"
  /\ status[request[s].run] = "absent"
  /\ Leave(s)
  /\ UNCHANGED <<db, store, clock, uploads>>

\* Mutant: the bytes are not put before the row is inserted.
PutItemLater(s) ==
  /\ pc[s] = "put_item" /\ rest[s] # << >>
  /\ Goto(s, "insert")
  /\ UNCHANGED <<db, store, clock, uploads, request, began, rest, inserted>>

\* Each item's bytes are put before its row is inserted.
PutItem(s) ==
  /\ pc[s] = "put_item"
  /\ rest[s] # << >>
  /\ raw' = raw \cup {<<request[s].run, Head(rest[s])>>}
  /\ Goto(s, "insert")
  /\ UNCHANGED <<db, tarball, clock, uploads, request, began, rest, inserted>>

\* s is at an INSERT whose key another open transaction holds.
WaitsFor(s, t) ==
  s # t /\ pc[s] = "insert" /\ Head(rest[s]) \in inserted[t]

\* Mutant: a plain upsert, which takes the row over.
InsertRowAlways(s) ==
  /\ pc[s] = "insert"
  /\ inserted' = [inserted EXCEPT ![s] = @ \cup {Head(rest[s])}]
  /\ rest' = [rest EXCEPT ![s] = Tail(@)]
  /\ Goto(s, "put_item")
  /\ UNCHANGED <<db, store, clock, uploads, request, began>>

\* INSERT ... ON CONFLICT (id) DO NOTHING: a row of an open transaction makes
\* it wait, a committed row makes it insert nothing.
InsertRow(s) ==
  LET i == Head(rest[s]) IN
  /\ pc[s] = "insert"
  /\ \A t \in Servers : ~WaitsFor(s, t)
  /\ inserted' = IF runOf[i] = NoRun
                 THEN [inserted EXCEPT ![s] = @ \cup {i}] ELSE inserted
  /\ rest' = [rest EXCEPT ![s] = Tail(@)]
  /\ Goto(s, "put_item")
  /\ UNCHANGED <<db, store, clock, uploads, request, began>>

\* Mutant: every item's row is committed on its own.
CommitEach(s) ==
  LET q == request[s] IN
  /\ pc[s] = "put_item"
  /\ runOf' = [i \in Items |-> IF i \in inserted[s] THEN q.run ELSE runOf[i]]
  /\ status' = [status EXCEPT ![q.run] = "normalizing"]
  /\ inserted' = [inserted EXCEPT ![s] = {}]
  /\ UNCHANGED <<created, receipts, store, clock, uploads, pc, request, began, rest>>

\* The run moves to normalizing whatever its status was, the upload is audited
\* with the manifest's length and the tarball's key, the transaction commits and
\* the answer carries the number of rows inserted.
Commit(s) ==
  LET q == request[s] IN
  /\ pc[s] = "put_item"
  /\ rest[s] = << >>
  /\ runOf' = [i \in Items |-> IF i \in inserted[s] THEN q.run ELSE runOf[i]]
  /\ created' = [i \in Items |-> IF i \in inserted[s] THEN began[s] ELSE created[i]]
  /\ status' = [status EXCEPT ![q.run] = "normalizing"]
  /\ receipts' = receipts \cup
       {[run |-> q.run, bundle |-> q.bundle, second |-> q.second, call |-> q.call,
         items |-> Len(Manifest[q.bundle]), accepted |-> Cardinality(inserted[s])]}
  /\ Leave(s)
  /\ UNCHANGED <<store, clock, uploads>>

\* The process dies, or a call to the store or to Postgres raises.
Abort(s) ==
  /\ pc[s] # "idle"
  /\ Leave(s)
  /\ UNCHANGED <<db, store, clock, uploads>>

Tick ==
  /\ clock < MaxClock
  /\ clock' = clock + 1
  /\ UNCHANGED <<db, store, uploads, handler>>

\* The steps of the upload handler of s after the request has arrived.
Handle(s) ==
  \/ PutTarball(s)
  \/ BeginTx(s)
  \/ RunNotFound(s)
  \/ PutItem(s)
  \/ InsertRow(s)
  \/ Commit(s)

Next ==
  \/ \E r \in Runs : CreateRun(r)
  \/ \E s \in Servers, r \in Runs, b \in Bundles : Receive(s, r, b)
  \/ \E s \in Servers : Handle(s) \/ Abort(s)
  \/ Tick

Spec == Init /\ [][Next]_vars

\* A live process runs its handler to the end; clients, clocks and failures owe
\* nothing.
FairSpec == Spec /\ \A s \in Servers : WF_vars(Handle(s))

----------------------------------------------------------------------------
\* Every evidence row, committed or still inside a transaction, has the bytes its
\* raw_ref names in the object store, so that the normalizer can fetch them
\* whatever crashes between the put and the commit.
EvidenceHasRawObject ==
  /\ \A i \in Items : runOf[i] # NoRun => <<runOf[i], i>> \in raw
  /\ \A s \in Servers : \A i \in inserted[s] : <<request[s].run, i>> \in raw

\* The rows of a bundle appear all together or not at all, whichever server dies
\* in the middle of whichever upload or retry of it.
BundleAllOrNothing ==
  \A b \in Bundles : (\E i \in ItemsOf(b) : runOf[i] # NoRun)
                       => \A i \in ItemsOf(b) : runOf[i] # NoRun

\* Evidence belongs to a run that exists and has left "collecting": rows and
\* status move in one transaction.
EvidenceMovesRun ==
  \A i \in Items : runOf[i] # NoRun =>
     status[runOf[i]] \notin {"absent", "collecting"}

\* However often a bundle is retried or sent to several servers at once, one upload
\* at most is told that its items were accepted: it is told of all of them, they are
\* in its run, and while no upload has been told so the bundle has no row.
ItemsAcceptedOnce ==
  \A b \in Bundles :
     LET accepting == {q \in receipts : q.bundle = b /\ q.accepted # 0} IN
     /\ \A p, q \in accepting : p = q
     /\ \A q \in accepting : /\ q.accepted = Cardinality(ItemsOf(b))
                              /\ \A i \in ItemsOf(b) : runOf[i] = q.run
     /\ \A i \in ItemsOf(b) : runOf[i] # NoRun => accepting # {}

\* Uploads never wait for each other in a circle: any set of servers has one that
\* waits for none of the others. Every upload inserts in manifest order.
NoWaitCycle ==
  \A S \in (SUBSET Servers) \ {{}} :
     \E s \in S : \A t \in S : ~WaitsFor(s, t)

\* A row once committed keeps its run and its creation time: the first upload of
\* an item wins and a re-upload, even to another run, changes nothing.
FirstUploadWins ==
  [][\A i \in Items : runOf[i] # NoRun
       => runOf'[i] = runOf[i] /\ created'[i] = created[i]]_vars

\* An upload that has been received is answered or fails: waiting for another
\* transaction's rows never lasts forever.
EveryUploadEnds == \A s \in Servers : pc[s] # "idle" ~> pc[s] = "idle"

\* What the other services see of all this: the items of a bundle arrive in one run,
\* whole and at once, however many servers put, inserted, waited and died for it.
Lifecycle == INSTANCE EvidenceLifecycle WITH
  Uploads  <- {ItemsOf(b) : b \in Bundles},
  AssetFor <- [i \in Items |-> NoAsset],
  parsed   <- [i \in Items |-> FALSE],
  assetOf  <- [i \in Items |-> NoAsset],
  assetRun <- [a \in Assets |-> NoRun]

ImplementsLifecycle == Lifecycle!Spec

\* ARCHITECTURE.md calls the raw-evidence store "Immutable bundle + per-item raw
\* artifact storage": a stored bundle is never replaced by another.
BundlesImmutable ==
  [][\A k \in DOMAIN tarball : tarball[k] # NoBundle => tarball'[k] = tarball[k]]_vars
============================================================================
