---------------------- MODULE EvidenceIngestion_proofs ----------------------
(***************************************************************************)
(* Proofs about the ingestion API for every set of servers, runs, items    *)
(* and bundles of any length, and any number of uploads.                   *)
(***************************************************************************)
EXTENDS EvidenceIngestion, FiniteSetTheorems, WellFoundedInduction, TLAPS

\* An open transaction has inserted finitely many rows, none after its end.
Open == \A s \in Servers :
          /\ IsFiniteSet(inserted[s])
          /\ pc[s] \notin {"put_item", "insert"} => inserted[s] = {}
          /\ pc[s] = "insert" => rest[s] # << >>

TypeInv == TypeOK /\ Open

\* The types hold of the empty database and the idle servers.
LEMMA TypeInit == Init => TypeInv
<1> SUFFICES ASSUME Init PROVE TypeInv
  OBVIOUS
<1>1. Open
  BY FS_EmptySet DEF Init, Open
<1>2. clock \in 0..MaxClock /\ uploads \in 0..MaxUploads /\ 0 \in 0..MaxClock
  BY IngestionAssumption DEF Init
<1>3. << >> \in Seq(Items)
  OBVIOUS
<1>4. /\ pc \in [Servers -> Steps] /\ status \in [Runs -> RunStatus]
      /\ \A s \in Servers : pc[s] = "idle"
  BY DEF Init, Steps, RunStatus
<1> QED BY <1>1, <1>2, <1>3, <1>4 DEF Init, TypeInv, TypeOK, RunColumn

\* The end of a handler, whatever it did before.
LEMMA LeaveType ==
  ASSUME TypeInv, NEW s \in Servers, Leave(s)
  PROVE  /\ pc' \in [Servers -> Steps] /\ request' \in [Servers -> Request \cup {NoRequest}]
         /\ \A t \in Servers : pc'[t] # "idle" => request'[t] \in Request
         /\ began' \in [Servers -> 0..MaxClock] /\ rest' \in [Servers -> Seq(Items)]
         /\ inserted' \in [Servers -> SUBSET Items] /\ Open'
<1> USE DEF Leave, Goto, TypeInv, TypeOK
<1>1. pc' \in [Servers -> Steps]
  BY DEF Steps
<1>2. request' \in [Servers -> Request \cup {NoRequest}]
  OBVIOUS
<1>3. \A t \in Servers : pc'[t] # "idle" => request'[t] \in Request
  OBVIOUS
<1>4. 0 \in 0..MaxClock
  BY IngestionAssumption
<1>5. began' \in [Servers -> 0..MaxClock]
  BY <1>4
<1>6. rest' \in [Servers -> Seq(Items)]
  <2>1. << >> \in Seq(Items)
    OBVIOUS
  <2> QED BY <2>1
<1>7. inserted' \in [Servers -> SUBSET Items]
  OBVIOUS
<1>8. Open'
  BY FS_EmptySet DEF Open
<1> QED BY <1>1, <1>2, <1>3, <1>5, <1>6, <1>7, <1>8

\* The handler's steps that go on: what they leave of its types to show.
LEMMA ItemType ==
  ASSUME TypeInv, NEW s \in Servers, PutItem(s) \/ InsertRow(s)
  PROVE  TypeInv'
<1> USE DEF TypeInv, TypeOK
<1>1. request[s] \in Request /\ rest[s] \in Seq(Items) /\ rest[s] # << >>
  BY DEF PutItem, InsertRow, Open
<1>2. Head(rest[s]) \in Items /\ Tail(rest[s]) \in Seq(Items)
  BY <1>1
<1>3. CASE PutItem(s)
  <2>1. raw' \subseteq Runs \X Items
    BY <1>1, <1>2, <1>3 DEF PutItem, Request
  <2>2. pc' \in [Servers -> Steps] /\ \A t \in Servers : pc'[t] # "idle" => request'[t] \in Request
    BY <1>1, <1>3 DEF PutItem, Goto, Steps
  <2>3. Open'
    BY <1>1, <1>3 DEF PutItem, Goto, Open
  <2> QED BY <1>3, <2>1, <2>2, <2>3 DEF PutItem, db
<1>4. CASE InsertRow(s)
  <2>1. pc' \in [Servers -> Steps] /\ \A t \in Servers : pc'[t] # "idle" => request'[t] \in Request
    BY <1>1, <1>4 DEF InsertRow, Goto, Steps
  <2>2. inserted' \in [Servers -> SUBSET Items]
    BY <1>2, <1>4 DEF InsertRow
  <2>3. rest' \in [Servers -> Seq(Items)]
    BY <1>2, <1>4 DEF InsertRow
  <2>4. Open'
    <3>1. IsFiniteSet(inserted[s] \cup {Head(rest[s])})
      BY FS_AddElement DEF Open
    <3>2. \A t \in Servers : IsFiniteSet(inserted'[t])
      BY <1>4, <3>1 DEF InsertRow, Open
    <3> QED BY <1>4, <3>2 DEF InsertRow, Goto, Open
  <2> QED BY <1>4, <2>1, <2>2, <2>3, <2>4 DEF InsertRow, db, store
<1> QED BY <1>3, <1>4

\* Every step keeps the types.
LEMMA TypeStep == ASSUME TypeInv, [Next]_vars PROVE TypeInv'
<1> USE DEF TypeInv, TypeOK
<1>1. ASSUME NEW r \in Runs, CreateRun(r) PROVE TypeInv'
  <2>1. status' \in [Runs -> RunStatus]
    BY <1>1 DEF CreateRun, RunStatus
  <2> QED BY <1>1, <2>1 DEF CreateRun, store, handler, Open
<1>2. ASSUME NEW s \in Servers, NEW r \in Runs, NEW b \in Bundles, Receive(s, r, b)
      PROVE  TypeInv'
  <2> DEFINE q == [run |-> r, bundle |-> b, second |-> clock, call |-> uploads + 1]
  <2>1. uploads + 1 \in 1..MaxUploads /\ uploads + 1 \in 0..MaxUploads
    BY <1>2, IngestionAssumption DEF Receive
  <2>2. q \in Request
    BY <2>1 DEF Request
  <2> HIDE DEF q
  <2>3. request' = [request EXCEPT ![s] = q]
    BY <1>2 DEF Receive, q
  <2>4. /\ request' \in [Servers -> Request \cup {NoRequest}]
        /\ pc' \in [Servers -> Steps]
        /\ \A t \in Servers : pc'[t] # "idle" => request'[t] \in Request
    BY <1>2, <2>2, <2>3 DEF Receive, Goto, Steps
  <2>5. rest' \in [Servers -> Seq(Items)]
    BY <1>2, IngestionAssumption DEF Receive
  <2>6. Open'
    BY <1>2 DEF Receive, Goto, Open
  <2> QED BY <1>2, <2>1, <2>4, <2>5, <2>6 DEF Receive, db, store
<1>3. ASSUME NEW s \in Servers, PutTarball(s) PROVE TypeInv'
  <2>1. request[s] \in Request
    BY <1>3 DEF PutTarball
  <2>2. tarball' \in [Runs \X (0..MaxClock) -> Bundles \cup {NoBundle}]
    BY <1>3, <2>1 DEF PutTarball, Request
  <2>3. pc' \in [Servers -> Steps] /\ \A t \in Servers : pc'[t] # "idle" => request'[t] \in Request
    BY <1>3, <2>1 DEF PutTarball, Goto, Steps
  <2>4. Open'
    BY <1>3 DEF PutTarball, Goto, Open
  <2> QED BY <1>3, <2>2, <2>3, <2>4 DEF PutTarball, db
<1>4. ASSUME NEW s \in Servers, BeginTx(s) PROVE TypeInv'
  <2>1. pc' \in [Servers -> Steps] /\ \A t \in Servers : pc'[t] # "idle" => request'[t] \in Request
    BY <1>4 DEF BeginTx, Goto, Steps
  <2>2. Open'
    BY <1>4 DEF BeginTx, Goto, Open
  <2>3. began' \in [Servers -> 0..MaxClock]
    BY <1>4 DEF BeginTx
  <2> QED BY <1>4, <2>1, <2>2, <2>3 DEF BeginTx, db, store
<1>5. ASSUME NEW s \in Servers, RunNotFound(s) \/ Abort(s) PROVE TypeInv'
  BY <1>5, LeaveType DEF RunNotFound, Abort, db, store
<1>6. ASSUME NEW s \in Servers, Commit(s) PROVE TypeInv'
  <2> DEFINE q == request[s]
  <2>1. q \in Request
    BY <1>6 DEF Commit
  <2>2. q.run \in Runs /\ q.bundle \in Bundles
    BY <2>1 DEF Request
  <2>3. runOf' \in [Items -> Runs \cup {NoRun}]
    BY <1>6, <2>2 DEF Commit, RunColumn
  <2>4. created' \in [Items -> 0..MaxClock]
    BY <1>6 DEF Commit
  <2>5. status' \in [Runs -> RunStatus]
    BY <1>6 DEF Commit, RunStatus
  <2>6. Len(Manifest[q.bundle]) \in Nat /\ Cardinality(inserted[s]) \in Nat
    BY <2>2, IngestionAssumption, FS_CardinalityType DEF Open
  <2>7. receipts' \subseteq Receipt
    BY <1>6, <2>1, <2>6 DEF Commit, Receipt, Request
  <2> HIDE DEF q
  <2>8. Leave(s) /\ UNCHANGED <<store, clock, uploads>>
    BY <1>6 DEF Commit
  <2> QED BY <2>3, <2>4, <2>5, <2>7, <2>8, LeaveType DEF store, RunColumn
<1>7. CASE Tick
  <2>1. clock' \in 0..MaxClock
    BY <1>7, IngestionAssumption DEF Tick
  <2> QED BY <1>7, <2>1 DEF Tick, db, store, handler, Open
<1>8. CASE UNCHANGED vars
  BY <1>8 DEF vars, db, store, handler, Open
<1> QED BY <1>1, <1>2, <1>3, <1>4, <1>5, <1>6, <1>7, <1>8, ItemType DEF Next, Handle

\* The types, and finitely many rows in every open transaction.
THEOREM Typed == Spec => []TypeInv
BY TypeInit, TypeStep, PTL DEF Spec

\* Type correctness: tables, objects and handlers keep their shapes whatever fails.
THEOREM TypeCorrect == Spec => []TypeOK
BY Typed, PTL DEF TypeInv

----------------------------------------------------------------------------
\* The items a list holds.
Elements(m) == {m[n] : n \in 1..Len(m)}

\* What a handler has made of its bundle. The run exists once it writes rows; the
\* rows it has inserted are the bundle's; every item of the bundle is still to come,
\* is inserted or is committed; the row it is about to insert has its bytes.
Made(s) ==
  /\ pc[s] \in {"put_item", "insert"} => status[request[s].run] # "absent"
  /\ \A i \in ItemsOf(request[s].bundle) :
        i \in Elements(rest[s]) \/ i \in inserted[s] \/ runOf[i] # NoRun
  /\ Elements(rest[s]) \subseteq ItemsOf(request[s].bundle)
  /\ inserted[s] \subseteq ItemsOf(request[s].bundle)
  /\ pc[s] = "insert" => <<request[s].run, Head(rest[s])>> \in raw

Progress == \A s \in Servers : pc[s] # "idle" => Made(s)

\* The rows of open transactions are new, and each is in one transaction only.
Exclusive ==
  \A s \in Servers : \A i \in inserted[s] :
     runOf[i] = NoRun /\ \A t \in Servers : i \in inserted[t] => t = s

\* The inductive invariant.
IInv == TypeInv /\ Progress /\ Exclusive
          /\ EvidenceHasRawObject /\ BundleAllOrNothing /\ EvidenceMovesRun

\* Objects, rows and runs are only added.
Grows ==
  /\ raw \subseteq raw'
  /\ \A i \in Items : runOf[i] # NoRun => runOf'[i] = runOf[i]
  /\ \A r \in Runs : status[r] # "absent" => status'[r] # "absent"

\* A server does nothing while another takes its step.
Rests(s) ==
  /\ pc'[s] = pc[s] /\ request'[s] = request[s]
  /\ rest'[s] = rest[s] /\ inserted'[s] = inserted[s]

\* What a resting server has made stays true.
LEMMA MadeStays ==
  ASSUME TypeInv, Grows, NEW s \in Servers, pc[s] # "idle", Made(s), Rests(s)
  PROVE  Made(s)'
<1>1. request[s].run \in Runs /\ request[s].bundle \in Bundles
  BY DEF TypeInv, TypeOK, Request
<1>2. ItemsOf(request[s].bundle) \subseteq Items
  BY <1>1, IngestionAssumption DEF ItemsOf
<1>3. pc'[s] \in {"put_item", "insert"} => status'[request'[s].run] # "absent"
  BY <1>1 DEF Made, Grows, Rests
<1>4. \A i \in ItemsOf(request'[s].bundle) :
        i \in Elements(rest'[s]) \/ i \in inserted'[s] \/ runOf'[i] # NoRun
  BY <1>2 DEF Made, Grows, Rests
<1>5. /\ Elements(rest'[s]) \subseteq ItemsOf(request'[s].bundle)
      /\ inserted'[s] \subseteq ItemsOf(request'[s].bundle)
  BY DEF Made, Rests
<1>6. pc'[s] = "insert" => <<request'[s].run, Head(rest'[s])>> \in raw'
  BY DEF Made, Grows, Rests
<1> QED BY <1>3, <1>4, <1>5, <1>6 DEF Made, Elements, ItemsOf

\* A step keeps Progress if every server rests, is done or shows its part.
LEMMA ProgressStep ==
  ASSUME TypeInv, Progress, Grows,
         \A s \in Servers : Rests(s) \/ pc'[s] = "idle" \/ Made(s)'
  PROVE  Progress'
<1> SUFFICES ASSUME NEW s \in Servers, pc'[s] # "idle" PROVE Made(s)'
  BY DEF Progress
<1>1. CASE Rests(s)
  BY <1>1, MadeStays DEF Progress, Rests
<1> QED BY <1>1

\* What a step that writes no committed row has to show.
LEMMA NoRowStep ==
  ASSUME IInv, TypeInv', UNCHANGED runOf, raw \subseteq raw',
         \A r \in Runs : status'[r] = status[r]
                           \/ (status[r] = "absent" /\ status'[r] = "collecting"),
         \A s \in Servers : Rests(s) \/ pc'[s] = "idle" \/ Made(s)',
         Exclusive',
         \A s \in Servers : \A i \in inserted'[s] : <<request'[s].run, i>> \in raw'
  PROVE  IInv'
<1> USE DEF IInv
<1>1. Grows
  BY DEF Grows
<1>2. Progress'
  BY <1>1, ProgressStep
<1>3. EvidenceHasRawObject'
  BY DEF EvidenceHasRawObject
<1>4. BundleAllOrNothing'
  BY DEF BundleAllOrNothing, ItemsOf
<1>5. EvidenceMovesRun'
  <2>1. \A i \in Items : runOf[i] # NoRun => runOf[i] \in Runs
    BY DEF TypeInv, TypeOK, RunColumn
  <2> QED BY <2>1 DEF EvidenceMovesRun
<1> QED BY <1>2, <1>3, <1>4, <1>5

\* The end of a handler without a commit keeps the invariant.
LEMMA EndStep ==
  ASSUME IInv, TypeInv', NEW s \in Servers, RunNotFound(s) \/ Abort(s)
  PROVE  IInv'
<1>1. Leave(s) /\ UNCHANGED <<runOf, raw, status>>
  BY DEF RunNotFound, Abort, db, store
<1>2. /\ pc'[s] = "idle" /\ inserted'[s] = {}
      /\ \A t \in Servers : t # s => Rests(t)
  BY <1>1 DEF Leave, Goto, Rests, IInv, TypeInv, TypeOK
<1>3. \A t \in Servers : Rests(t) \/ pc'[t] = "idle" \/ Made(t)'
  BY <1>2
<1>4. Exclusive'
  BY <1>1, <1>2 DEF IInv, Exclusive, Rests
<1>5. \A t \in Servers : \A i \in inserted'[t] : <<request'[t].run, i>> \in raw'
  BY <1>1, <1>2 DEF IInv, EvidenceHasRawObject, Rests
<1>6. raw \subseteq raw' /\ \A r \in Runs : status'[r] = status[r]
  BY <1>1
<1> QED BY <1>1, <1>3, <1>4, <1>5, <1>6, NoRowStep

\* A new run, and the passing of time, keep the invariant.
LEMMA RunStep ==
  ASSUME IInv, TypeInv', Tick \/ UNCHANGED vars \/ \E r \in Runs : CreateRun(r)
  PROVE  IInv'
<1>1. UNCHANGED <<runOf, raw, handler>>
  BY DEF Tick, CreateRun, vars, db, store
<1>2. \A r \in Runs : status'[r] = status[r]
                        \/ (status[r] = "absent" /\ status'[r] = "collecting")
  <2>1. CASE Tick \/ UNCHANGED vars
    BY <2>1 DEF Tick, vars, db
  <2>2. ASSUME NEW r \in Runs, CreateRun(r)
        PROVE  \A x \in Runs : status'[x] = status[x]
                    \/ (status[x] = "absent" /\ status'[x] = "collecting")
    BY <2>2 DEF CreateRun, IInv, TypeInv, TypeOK
  <2> QED BY <2>1, <2>2
<1>3. \A s \in Servers : Rests(s)
  BY <1>1 DEF handler, Rests
<1>4. Exclusive' /\ \A s \in Servers : \A i \in inserted'[s] : <<request'[s].run, i>> \in raw'
  BY <1>1 DEF IInv, Exclusive, EvidenceHasRawObject, handler
<1> QED BY <1>1, <1>2, <1>3, <1>4, NoRowStep

\* The steps before the first row keep the invariant: the whole bundle is to come.
LEMMA StartStep ==
  ASSUME IInv, TypeInv', NEW s \in Servers,
         (\E r \in Runs, b \in Bundles : Receive(s, r, b)) \/ PutTarball(s) \/ BeginTx(s)
  PROVE  IInv'
<1>1. UNCHANGED <<runOf, raw, status, inserted>> /\ inserted[s] = {}
  BY DEF Receive, PutTarball, BeginTx, db, store, IInv, TypeInv, Open
<1>2. \A t \in Servers : t # s => Rests(t)
  BY <1>1 DEF Receive, PutTarball, BeginTx, Goto, Rests, IInv, TypeInv, TypeOK
<1>3. Made(s)'
  <2>1. ASSUME NEW r \in Runs, NEW b \in Bundles, Receive(s, r, b) PROVE Made(s)'
    <3>1. /\ pc'[s] = "put_tarball" /\ rest'[s] = Manifest[b] /\ request'[s].bundle = b
          /\ inserted'[s] = {}
      BY <1>1, <2>1 DEF Receive, Goto, IInv, TypeInv, TypeOK
    <3> QED BY <3>1 DEF Made, Elements, ItemsOf
  <2>2. CASE PutTarball(s) \/ BeginTx(s)
    <3>1. /\ Made(s) /\ pc'[s] \in {"begin", "put_item"}
          /\ rest'[s] = rest[s] /\ request'[s] = request[s]
          /\ pc'[s] = "put_item" => status[request[s].run] # "absent"
      BY <2>2 DEF PutTarball, BeginTx, Goto, IInv, Progress, TypeInv, TypeOK
    <3> QED BY <1>1, <3>1 DEF Made, Elements, ItemsOf
  <2> QED BY <2>1, <2>2
<1>4. Exclusive'
  BY <1>1 DEF IInv, Exclusive
<1>5. \A t \in Servers : \A i \in inserted'[t] : <<request'[t].run, i>> \in raw'
  BY <1>1, <1>2 DEF IInv, EvidenceHasRawObject, Rests
<1>6. \A t \in Servers : Rests(t) \/ pc'[t] = "idle" \/ Made(t)'
  <2> SUFFICES ASSUME NEW t \in Servers PROVE Rests(t) \/ Made(t)'
    OBVIOUS
  <2>1. CASE t = s
    BY <1>3, <2>1
  <2> QED BY <1>2, <2>1
<1>7. raw \subseteq raw' /\ \A r \in Runs : status'[r] = status[r]
  BY <1>1
<1> QED BY <1>1, <1>4, <1>5, <1>6, <1>7, NoRowStep

\* Putting an item's bytes keeps the invariant and prepares its row.
LEMMA PutStep == ASSUME IInv, TypeInv', NEW s \in Servers, PutItem(s) PROVE IInv'
<1>1. /\ UNCHANGED <<runOf, status, request, rest, inserted>>
      /\ raw' = raw \cup {<<request[s].run, Head(rest[s])>>}
  BY DEF PutItem, db
<1>2. \A t \in Servers : t # s => Rests(t)
  BY <1>1 DEF PutItem, Goto, Rests, IInv, TypeInv, TypeOK
<1>3. Made(s)'
  <2>1. Made(s) /\ pc[s] = "put_item"
    BY DEF IInv, Progress, PutItem
  <2> QED BY <1>1, <2>1 DEF Made, Elements, ItemsOf
<1>4. Exclusive'
  BY <1>1 DEF IInv, Exclusive
<1>5. \A t \in Servers : \A i \in inserted'[t] : <<request'[t].run, i>> \in raw'
  BY <1>1 DEF IInv, EvidenceHasRawObject
<1>6. \A t \in Servers : Rests(t) \/ pc'[t] = "idle" \/ Made(t)'
  <2> SUFFICES ASSUME NEW t \in Servers PROVE Rests(t) \/ Made(t)'
    OBVIOUS
  <2>1. CASE t = s
    BY <1>3, <2>1
  <2> QED BY <1>2, <2>1
<1>7. raw \subseteq raw' /\ \A r \in Runs : status'[r] = status[r]
  BY <1>1
<1> QED BY <1>1, <1>4, <1>5, <1>6, <1>7, NoRowStep

\* A list is its head and its tail.
LEMMA HeadTail ==
  ASSUME NEW m \in Seq(Items), m # << >>
  PROVE  Head(m) \in Elements(m) /\ Elements(m) = {Head(m)} \cup Elements(Tail(m))
<1>1. Len(m) \in Nat /\ Len(m) > 0 /\ Len(Tail(m)) = Len(m) - 1
  OBVIOUS
<1>2. Head(m) = m[1] /\ 1 \in 1..Len(m)
  BY <1>1
<1>3. \A n \in 1..(Len(m) - 1) : Tail(m)[n] = m[n + 1]
  BY <1>1
<1>4. Elements(Tail(m)) = {m[n + 1] : n \in 1..(Len(m) - 1)}
  BY <1>1, <1>3 DEF Elements
<1>5. ASSUME NEW n \in 1..Len(m) PROVE m[n] \in {Head(m)} \cup Elements(Tail(m))
  <2>1. CASE n = 1
    BY <1>2, <2>1
  <2>2. CASE n # 1
    <3>1. n - 1 \in 1..(Len(m) - 1) /\ (n - 1) + 1 = n
      BY <1>1, <2>2
    <3> QED BY <1>4, <3>1
  <2> QED BY <2>1, <2>2
<1>6. ASSUME NEW n \in 1..(Len(m) - 1) PROVE m[n + 1] \in Elements(m)
  BY <1>1 DEF Elements
<1> QED BY <1>2, <1>4, <1>5, <1>6 DEF Elements

\* Inserting a row, or finding it committed, keeps the invariant: the row is new and
\* in no other transaction, because a row that is would be waited for.
LEMMA InsertStep == ASSUME IInv, TypeInv', NEW s \in Servers, InsertRow(s) PROVE IInv'
<1> DEFINE i == Head(rest[s])
<1>1. /\ UNCHANGED <<runOf, status, request, raw>> /\ pc[s] = "insert"
      /\ rest[s] \in Seq(Items) /\ rest[s] # << >>
  BY DEF InsertRow, db, store, IInv, TypeInv, TypeOK, Open
<1>2. \A t \in Servers : t # s => Rests(t)
  BY DEF InsertRow, Goto, Rests, IInv, TypeInv, TypeOK
<1>3. /\ pc'[s] = "put_item" /\ rest'[s] = Tail(rest[s])
      /\ inserted'[s] = IF runOf[i] = NoRun THEN inserted[s] \cup {i} ELSE inserted[s]
  BY DEF InsertRow, Goto, IInv, TypeInv, TypeOK
<1>4. \A t \in Servers : t # s => i \notin inserted[t]
  BY <1>1 DEF InsertRow, WaitsFor
<1>5. Made(s)
  BY <1>1 DEF IInv, Progress
<1>6. i \in ItemsOf(request[s].bundle) /\ Elements(rest[s]) = {i} \cup Elements(Tail(rest[s]))
  BY <1>1, <1>5, HeadTail DEF Made
<1> HIDE DEF i
<1>7. Made(s)'
  <2>1. \A j \in ItemsOf(request[s].bundle) :
           j \in Elements(rest'[s]) \/ j \in inserted'[s] \/ runOf[j] # NoRun
    BY <1>3, <1>5, <1>6 DEF Made
  <2>2. /\ Elements(rest'[s]) \subseteq ItemsOf(request[s].bundle)
        /\ inserted'[s] \subseteq ItemsOf(request[s].bundle)
    BY <1>3, <1>5, <1>6 DEF Made
  <2>3. status[request[s].run] # "absent"
    BY <1>1, <1>5 DEF Made
  <2> QED BY <1>1, <1>3, <2>1, <2>2, <2>3 DEF Made, Elements, ItemsOf
<1>8. \A t \in Servers : t # s => inserted'[t] = inserted[t] /\ request'[t] = request[t]
  BY <1>2 DEF Rests
<1>9. \A j \in inserted[s] :
         runOf[j] = NoRun /\ \A t \in Servers : j \in inserted[t] => t = s
  BY DEF IInv, Exclusive
<1>10. \A j \in inserted'[s] :
         runOf[j] = NoRun /\ \A t \in Servers : j \in inserted'[t] => t = s
  BY <1>3, <1>4, <1>8, <1>9
<1>11. Exclusive'
  <2> SUFFICES ASSUME NEW t \in Servers, NEW j \in inserted'[t] PROVE
                 runOf[j] = NoRun /\ \A u \in Servers : j \in inserted'[u] => u = t
    BY <1>1 DEF Exclusive
  <2>1. CASE t = s
    BY <1>10, <2>1
  <2>2. CASE t # s
    <3>1. j \in inserted[t]
      BY <1>8, <2>2
    <3>2. runOf[j] = NoRun /\ \A u \in Servers : j \in inserted[u] => u = t
      BY <3>1 DEF IInv, Exclusive
    <3>3. j \notin inserted'[s]
      BY <1>10, <2>2
    <3> QED BY <1>8, <3>2, <3>3
  <2> QED BY <2>1, <2>2
<1>12. \A t \in Servers : \A j \in inserted'[t] : <<request'[t].run, j>> \in raw'
  <2>1. <<request[s].run, i>> \in raw
    BY <1>1, <1>5 DEF Made, i
  <2>2. \A j \in inserted'[s] : <<request[s].run, j>> \in raw
    BY <1>3, <2>1 DEF IInv, EvidenceHasRawObject
  <2> QED BY <1>1, <1>8, <2>2 DEF IInv, EvidenceHasRawObject
<1>13. \A t \in Servers : Rests(t) \/ pc'[t] = "idle" \/ Made(t)'
  <2> SUFFICES ASSUME NEW t \in Servers PROVE Rests(t) \/ Made(t)'
    OBVIOUS
  <2>1. CASE t = s
    BY <1>7, <2>1
  <2> QED BY <1>2, <2>1
<1>14. raw \subseteq raw' /\ \A r \in Runs : status'[r] = status[r]
  BY <1>1
<1> QED BY <1>1, <1>11, <1>12, <1>13, <1>14, NoRowStep

\* The commit makes the transaction's rows visible and no others.
LEMMA CommitRows ==
  ASSUME IInv, NEW s \in Servers, Commit(s)
  PROVE  /\ \A i \in Items : runOf'[i] =
              IF i \in inserted[s] THEN request[s].run ELSE runOf[i]
         /\ \A i \in Items : created'[i] =
              IF i \in inserted[s] THEN began[s] ELSE created[i]
         /\ \A i \in inserted[s] : runOf[i] = NoRun
         /\ request[s].run \in Runs /\ request[s].run # NoRun
         /\ request[s].bundle \in Bundles
<1>1. request[s] \in Request
  BY DEF Commit, IInv, TypeInv, TypeOK
<1>2. request[s].run \in Runs /\ request[s].run # NoRun /\ request[s].bundle \in Bundles
  BY <1>1, SchemaAssumption DEF Request
<1>3. \A i \in inserted[s] : runOf[i] = NoRun
  BY DEF IInv, Exclusive
<1> QED BY <1>2, <1>3 DEF Commit

\* A commit keeps the invariant: every item of the bundle is inserted or committed
\* by then, and no other transaction holds its rows.
LEMMA CommitStep == ASSUME IInv, TypeInv', NEW s \in Servers, Commit(s) PROVE IInv'
<1> DEFINE q == request[s]
<1>1. /\ \A i \in Items : runOf'[i] = IF i \in inserted[s] THEN q.run ELSE runOf[i]
      /\ \A i \in inserted[s] : runOf[i] = NoRun
      /\ q.run \in Runs /\ q.run # NoRun /\ q.bundle \in Bundles
  BY CommitRows
<1>2. /\ UNCHANGED raw /\ pc[s] = "put_item" /\ rest[s] = << >> /\ Leave(s)
      /\ status' = [status EXCEPT ![q.run] = "normalizing"]
  BY DEF Commit, store
<1>3. Made(s)
  BY <1>2 DEF IInv, Progress
<1> HIDE DEF q
<1>4. \A r \in Runs : status'[r] = IF r = q.run THEN "normalizing" ELSE status[r]
  BY <1>2 DEF IInv, TypeInv, TypeOK
<1>5. /\ pc'[s] = "idle" /\ inserted'[s] = {}
      /\ \A t \in Servers : t # s => Rests(t)
  BY <1>2 DEF Leave, Goto, Rests, IInv, TypeInv, TypeOK
<1>6. \A t \in Servers : inserted[t] \subseteq Items
  BY DEF IInv, TypeInv, TypeOK
<1>7. Grows
  BY <1>1, <1>2, <1>4 DEF Grows
<1>8. Progress'
  <2>1. \A t \in Servers : Rests(t) \/ pc'[t] = "idle" \/ Made(t)'
    BY <1>5
  <2> QED BY <1>7, <2>1, ProgressStep DEF IInv
<1>9. Exclusive'
  <2> SUFFICES ASSUME NEW t \in Servers, NEW i \in inserted'[t] PROVE
                 runOf'[i] = NoRun /\ \A u \in Servers : i \in inserted'[u] => u = t
    BY DEF Exclusive
  <2>1. t # s /\ i \in inserted[t] /\ i \in Items
    BY <1>5, <1>6 DEF Rests
  <2>2. runOf[i] = NoRun /\ \A u \in Servers : i \in inserted[u] => u = t
    BY <2>1 DEF IInv, Exclusive
  <2>3. runOf'[i] = NoRun
    BY <1>1, <2>1, <2>2
  <2> QED BY <1>5, <2>2, <2>3 DEF Rests
<1>10. EvidenceHasRawObject'
  <2>1. ASSUME NEW i \in Items, runOf'[i] # NoRun PROVE <<runOf'[i], i>> \in raw
    BY <1>1, <2>1 DEF IInv, EvidenceHasRawObject, q
  <2>2. ASSUME NEW t \in Servers, NEW i \in inserted'[t] PROVE <<request'[t].run, i>> \in raw
    BY <1>5, <2>2 DEF Rests, IInv, EvidenceHasRawObject
  <2> QED BY <1>2, <2>1, <2>2 DEF EvidenceHasRawObject
<1>11. BundleAllOrNothing'
  <2> SUFFICES ASSUME NEW b \in Bundles, NEW i \in ItemsOf(b), runOf'[i] # NoRun,
                      NEW j \in ItemsOf(b)
               PROVE  runOf'[j] # NoRun
    BY DEF BundleAllOrNothing, ItemsOf
  <2>1. ItemsOf(b) \subseteq Items
    BY IngestionAssumption DEF ItemsOf
  <2>2. CASE b = q.bundle
    <3>1. j \in inserted[s] \/ runOf[j] # NoRun
      BY <1>2, <1>3, <2>2 DEF Made, Elements, q
    <3> QED BY <1>1, <2>1, <3>1
  <2>3. CASE b # q.bundle
    <3>1. ItemsOf(b) \cap inserted[s] = {}
      <4>1. inserted[s] \subseteq ItemsOf(q.bundle)
        BY <1>3 DEF Made, q
      <4> QED BY <1>1, <2>3, <4>1, IngestionAssumption
    <3>2. runOf'[i] = runOf[i] /\ runOf'[j] = runOf[j]
      BY <1>1, <2>1, <3>1
    <3> QED BY <3>2 DEF IInv, BundleAllOrNothing
  <2> QED BY <2>2, <2>3
<1>12. EvidenceMovesRun'
  <2> SUFFICES ASSUME NEW i \in Items, runOf'[i] # NoRun
               PROVE  status'[runOf'[i]] \notin {"absent", "collecting"}
    BY DEF EvidenceMovesRun
  <2>1. CASE i \in inserted[s]
    BY <1>1, <1>4, <2>1
  <2>2. CASE i \notin inserted[s]
    <3>1. runOf'[i] = runOf[i] /\ runOf[i] \in Runs
      BY <1>1, <2>2 DEF IInv, TypeInv, TypeOK, RunColumn
    <3> QED BY <1>4, <3>1 DEF IInv, EvidenceMovesRun
  <2> QED BY <2>1, <2>2
<1> QED BY <1>8, <1>9, <1>10, <1>11, <1>12 DEF IInv

\* Every step keeps the invariant.
LEMMA InvStep == ASSUME IInv, [Next]_vars PROVE IInv'
<1>1. TypeInv'
  BY TypeStep DEF IInv
<1> QED BY <1>1, RunStep, StartStep, EndStep, PutStep, InsertStep, CommitStep
        DEF Next, Handle

\* The invariant holds initially.
LEMMA InvInit == Init => IInv
<1> SUFFICES ASSUME Init PROVE IInv
  OBVIOUS
<1>1. Progress /\ Exclusive /\ EvidenceHasRawObject /\ EvidenceMovesRun
  BY DEF Init, Progress, Exclusive, EvidenceHasRawObject, EvidenceMovesRun
<1>2. BundleAllOrNothing
  <2>1. \A b \in Bundles : ItemsOf(b) \subseteq Items
    BY IngestionAssumption DEF ItemsOf
  <2> QED BY <2>1 DEF Init, BundleAllOrNothing
<1> QED BY <1>1, <1>2, TypeInit DEF IInv

\* The inductive invariant holds in every reachable state.
THEOREM Inductive == Spec => []IInv
BY InvInit, InvStep, PTL DEF Spec

\* Every evidence row has its bytes in the object store.
THEOREM RawObject == Spec => []EvidenceHasRawObject
BY Inductive, PTL DEF IInv

\* A bundle is stored whole or not at all, whatever crashes and is retried.
THEOREM AllOrNothing == Spec => []BundleAllOrNothing
BY Inductive, PTL DEF IInv

\* A run with evidence has left collecting.
THEOREM MovesRun == Spec => []EvidenceMovesRun
BY Inductive, PTL DEF IInv

\* A committed row keeps its run and its creation time through every retry.
THEOREM FirstWins == Spec => FirstUploadWins
<1> DEFINE Keeps == \A i \in Items : runOf[i] # NoRun =>
                       runOf'[i] = runOf[i] /\ created'[i] = created[i]
<1>1. IInv /\ [Next]_vars => Keeps
  <2> SUFFICES ASSUME IInv, [Next]_vars PROVE Keeps
    OBVIOUS
  <2>1. ASSUME NEW s \in Servers, Commit(s) PROVE Keeps
    BY <2>1, CommitRows
  <2>2. ASSUME UNCHANGED <<runOf, created>> PROVE Keeps
    BY <2>2
  <2> HIDE DEF Keeps
  <2>3. ASSUME NEW s \in Servers, Handle(s) PROVE Keeps
    BY <2>1, <2>2, <2>3 DEF Handle, PutTarball, BeginTx, RunNotFound, PutItem, InsertRow, db
  <2>4. ASSUME NEW s \in Servers, Abort(s) \/ \E r \in Runs, b \in Bundles : Receive(s, r, b)
        PROVE  Keeps
    BY <2>2, <2>4 DEF Abort, Receive, db
  <2> QED BY <2>2, <2>3, <2>4 DEF Next, CreateRun, Tick, vars, db
<1> QED BY <1>1, Inductive, PTL DEF Spec, FirstUploadWins

----------------------------------------------------------------------------
\* How far a handler has come in its bundle.
Done(s) == Len(Manifest[request[s].bundle]) - Len(rest[s])

\* A handler goes through its manifest in order: what it has not finished is the
\* manifest's end, it holds or found committed every item before that, and it
\* holds no other.
InOrder(s) ==
  /\ Done(s) \in Nat
  /\ \A n \in 1..Len(rest[s]) : rest[s][n] = Manifest[request[s].bundle][Done(s) + n]
  /\ \A n \in 1..Done(s) : Manifest[request[s].bundle][n] \in inserted[s]
                             \/ runOf[Manifest[request[s].bundle][n]] # NoRun
  /\ \A i \in inserted[s] : \E n \in 1..Done(s) : i = Manifest[request[s].bundle][n]

OInv == IInv /\ \A s \in Servers : pc[s] # "idle" => InOrder(s)

\* A handler that neither takes nor finishes an item stays where it is.
LEMMA OrderStays ==
  ASSUME IInv, Grows, NEW s \in Servers, pc[s] # "idle", InOrder(s),
         request'[s] = request[s], rest'[s] = rest[s], inserted'[s] = inserted[s]
  PROVE  InOrder(s)'
<1> DEFINE m == Manifest[request[s].bundle]
<1>1. m \in Seq(Items) /\ rest[s] \in Seq(Items)
  BY IngestionAssumption DEF IInv, TypeInv, TypeOK, Request
<1>2. Done(s)' = Done(s)
  BY DEF Done
<1>3. Len(m) \in Nat /\ Len(rest[s]) \in Nat
  BY <1>1
<1>4. Done(s) \in Nat
  BY DEF InOrder
<1>5. Done(s) = Len(m) - Len(rest[s])
  BY DEF Done
<1> HIDE DEF m
<1>6. Done(s) <= Len(m)
  BY <1>3, <1>4, <1>5
<1>7. \A n \in 1..Done(s) : m[n] \in Items
  BY <1>1, <1>3, <1>4, <1>6
<1>8. \A n \in 1..Done(s) : m[n] \in inserted[s] \/ runOf'[m[n]] # NoRun
  BY <1>7 DEF InOrder, Grows, m
<1> QED BY <1>2, <1>8 DEF InOrder, m

\* Objects, rows and runs are only added, by every step.
LEMMA StepGrows == ASSUME IInv, [Next]_vars PROVE Grows
<1>1. ASSUME NEW s \in Servers, Commit(s) PROVE Grows
  <2>1. /\ UNCHANGED raw
        /\ \A i \in Items : runOf[i] # NoRun => runOf'[i] = runOf[i]
    BY <1>1, CommitRows DEF Commit, store
  <2>2. \A r \in Runs : status[r] # "absent" => status'[r] # "absent"
    BY <1>1 DEF Commit, IInv, TypeInv, TypeOK
  <2> QED BY <2>1, <2>2 DEF Grows
<1>2. ASSUME UNCHANGED <<runOf, status>>, raw \subseteq raw' PROVE Grows
  BY <1>2 DEF Grows
<1>3. ASSUME NEW r \in Runs, CreateRun(r) PROVE Grows
  <2>1. UNCHANGED <<runOf, raw>>
    BY <1>3 DEF CreateRun, store
  <2>2. \A x \in Runs : status[x] # "absent" => status'[x] # "absent"
    BY <1>3 DEF CreateRun, IInv, TypeInv, TypeOK
  <2> QED BY <2>1, <2>2 DEF Grows
<1>4. ASSUME NEW s \in Servers, Handle(s) PROVE Grows
  BY <1>1, <1>2, <1>4
     DEF Handle, PutTarball, BeginTx, RunNotFound, PutItem, InsertRow, db, store
<1>5. ASSUME NEW s \in Servers, Abort(s) \/ \E r \in Runs, b \in Bundles : Receive(s, r, b)
      PROVE  Grows
  BY <1>2, <1>5 DEF Abort, Receive, db, store
<1>6. CASE Tick \/ UNCHANGED vars
  BY <1>2, <1>6 DEF Tick, vars, db, store
<1> QED BY <1>3, <1>4, <1>5, <1>6 DEF Next

\* A step of the handler leaves the other servers to rest.
LEMMA OthersRest ==
  ASSUME TypeInv, NEW s \in Servers,
         \/ Handle(s) \/ Abort(s) \/ \E r \in Runs, b \in Bundles : Receive(s, r, b)
  PROVE  \A t \in Servers : t # s => Rests(t)
<1> USE DEF TypeInv, TypeOK, Rests, Goto
<1>1. CASE PutTarball(s) \/ BeginTx(s) \/ PutItem(s) \/ InsertRow(s)
  BY <1>1 DEF PutTarball, BeginTx, PutItem, InsertRow
<1>2. CASE Leave(s)
  BY <1>2 DEF Leave
<1>3. CASE \E r \in Runs, b \in Bundles : Receive(s, r, b)
  BY <1>3 DEF Receive
<1> QED BY <1>1, <1>2, <1>3 DEF Handle, Abort, RunNotFound, Commit

\* A new upload has its whole manifest to go.
LEMMA OrderStarts ==
  ASSUME IInv, NEW s \in Servers, NEW r \in Runs, NEW b \in Bundles, Receive(s, r, b)
  PROVE  InOrder(s)'
<1>1. request'[s].bundle = b /\ rest'[s] = Manifest[b] /\ inserted'[s] = {}
  BY DEF Receive, IInv, TypeInv, TypeOK, Open
<1>2. Len(Manifest[b]) \in Nat
  BY IngestionAssumption
<1>3. Done(s)' = 0
  BY <1>1, <1>2 DEF Done
<1> QED BY <1>1, <1>2, <1>3 DEF InOrder

\* Inserting a row, or finding it committed, is one item's progress.
LEMMA OrderGoesOn ==
  ASSUME IInv, NEW s \in Servers, InsertRow(s), InOrder(s)
  PROVE  InOrder(s)'
<1> DEFINE m == Manifest[request[s].bundle]
           k == Done(s)
           i == Head(rest[s])
<1>1. /\ request'[s] = request[s] /\ runOf' = runOf /\ rest'[s] = Tail(rest[s])
      /\ inserted'[s] = IF runOf[i] = NoRun THEN inserted[s] \cup {i} ELSE inserted[s]
      /\ rest[s] \in Seq(Items) /\ rest[s] # << >>
  BY DEF InsertRow, db, IInv, TypeInv, TypeOK, Open
<1>2. m \in Seq(Items)
  BY IngestionAssumption DEF InsertRow, IInv, TypeInv, TypeOK, Request
<1>3. /\ Len(m) \in Nat /\ Len(rest[s]) \in Nat /\ Len(rest[s]) > 0
      /\ Len(Tail(rest[s])) = Len(rest[s]) - 1
  BY <1>1, <1>2
<1>4. k = Len(m) - Len(rest[s]) /\ Done(s)' = Len(m) - Len(Tail(rest[s]))
  BY <1>1 DEF Done
<1>5. /\ k \in Nat
      /\ \A n \in 1..Len(rest[s]) : rest[s][n] = m[k + n]
      /\ \A n \in 1..k : m[n] \in inserted[s] \/ runOf[m[n]] # NoRun
      /\ \A j \in inserted[s] : \E n \in 1..k : j = m[n]
  BY DEF InOrder
<1> HIDE DEF m, k
<1>6. Done(s)' = k + 1
  <2>1. Len(Tail(rest[s])) = Len(rest[s]) - 1 /\ Len(m) \in Nat /\ Len(rest[s]) \in Nat
    BY <1>3
  <2>2. Len(m) - (Len(rest[s]) - 1) = (Len(m) - Len(rest[s])) + 1
    BY <2>1
  <2> QED BY <1>4, <2>1, <2>2, Zenon
<1>7. i = m[k + 1]
  BY <1>1, <1>3, <1>5
<1> HIDE DEF i
<1>8. \A n \in 1..(Len(rest[s]) - 1) : Tail(rest[s])[n] = m[(k + 1) + n]
  <2> SUFFICES ASSUME NEW n \in 1..(Len(rest[s]) - 1)
               PROVE  Tail(rest[s])[n] = m[(k + 1) + n]
    OBVIOUS
  <2>1. Tail(rest[s])[n] = rest[s][n + 1] /\ n + 1 \in 1..Len(rest[s])
    BY <1>1, <1>3
  <2>2. k + (n + 1) = (k + 1) + n
    BY <1>3, <1>5
  <2> QED BY <1>5, <2>1, <2>2
<1>9. \A n \in 1..(k + 1) : m[n] \in inserted'[s] \/ runOf'[m[n]] # NoRun
  <2> SUFFICES ASSUME NEW n \in 1..(k + 1)
               PROVE  m[n] \in inserted'[s] \/ runOf[m[n]] # NoRun
    BY <1>1
  <2>1. n = k + 1 \/ n \in 1..k
    BY <1>5
  <2> QED BY <1>1, <1>5, <1>7, <2>1
<1>10. \A j \in inserted'[s] : \E n \in 1..(k + 1) : j = m[n]
  <2> SUFFICES ASSUME NEW j \in inserted'[s] PROVE \E n \in 1..(k + 1) : j = m[n]
    OBVIOUS
  <2>1. CASE j = i
    BY <1>5, <1>7, <2>1
  <2>2. CASE j # i
    <3>1. PICK n \in 1..k : j = m[n]
      BY <1>1, <1>5, <2>2
    <3> QED BY <1>5, <3>1
  <2> QED BY <2>1, <2>2
<1>11. k + 1 \in Nat
  BY <1>5
<1>12. Len(rest'[s]) = Len(rest[s]) - 1
  BY <1>1, <1>3
<1>13. \A n \in 1..Len(rest'[s]) : rest'[s][n] = m[(k + 1) + n]
  BY <1>1, <1>8, <1>12, Zenon
<1>14. (Done(s)' \in Nat) /\ \A n \in 1..Len(rest'[s]) : rest'[s][n] = m[Done(s)' + n]
  BY <1>6, <1>11, <1>13, Zenon
<1>15. /\ \A n \in 1..Done(s)' : m[n] \in inserted'[s] \/ runOf'[m[n]] # NoRun
       /\ \A j \in inserted'[s] : \E n \in 1..Done(s)' : j = m[n]
  BY <1>6, <1>9, <1>10, Zenon
<1>16. Manifest[request'[s].bundle] = m
  BY <1>1, Zenon DEF m
<1> QED BY <1>14, <1>15, <1>16, Zenon DEF InOrder

\* Every step keeps the uploads in order.
LEMMA OrderStep == ASSUME OInv, [Next]_vars PROVE OInv'
<1>1. IInv /\ IInv' /\ Grows
  BY InvStep, StepGrows DEF OInv
<1>2. ASSUME NEW t \in Servers, Rests(t), pc'[t] # "idle" PROVE InOrder(t)'
  BY <1>1, <1>2, OrderStays DEF OInv, Rests
<1>3. ASSUME NEW s \in Servers, pc'[s] # "idle",
             Handle(s) \/ Abort(s) \/ \E r \in Runs, b \in Bundles : Receive(s, r, b)
      PROVE  InOrder(s)'
  <2>1. CASE PutTarball(s) \/ BeginTx(s) \/ PutItem(s)
    <3>1. /\ pc[s] # "idle" /\ request'[s] = request[s] /\ rest'[s] = rest[s]
          /\ inserted'[s] = inserted[s]
      BY <2>1 DEF PutTarball, BeginTx, PutItem
    <3> QED BY <1>1, <3>1, OrderStays DEF OInv
  <2>2. CASE InsertRow(s)
    <3>1. pc[s] # "idle"
      BY <2>2 DEF InsertRow
    <3> QED BY <1>1, <2>2, <3>1, OrderGoesOn DEF OInv
  <2>3. CASE \E r \in Runs, b \in Bundles : Receive(s, r, b)
    BY <1>1, <2>3, OrderStarts
  <2>4. ~Leave(s)
    BY <1>1, <1>3 DEF Leave, Goto, IInv, TypeInv, TypeOK
  <2> QED BY <1>3, <2>1, <2>2, <2>3, <2>4 DEF Handle, RunNotFound, Commit, Abort
<1>4. ASSUME NEW s \in Servers,
             Handle(s) \/ Abort(s) \/ \E r \in Runs, b \in Bundles : Receive(s, r, b)
      PROVE  OInv'
  <2>1. \A t \in Servers : t # s => Rests(t)
    BY <1>1, <1>4, OthersRest DEF IInv
  <2> QED BY <1>1, <1>2, <1>3, <1>4, <2>1 DEF OInv
<1>5. ASSUME Tick \/ UNCHANGED vars \/ \E r \in Runs : CreateRun(r) PROVE OInv'
  <2>1. \A t \in Servers : Rests(t)
    BY <1>5 DEF Tick, CreateRun, vars, handler, Rests
  <2> QED BY <1>1, <1>2, <2>1 DEF OInv
<1> QED BY <1>4, <1>5 DEF Next

\* An upload waits only for one that has less left to do: of two uploads of the same
\* bundle the one behind waits, and uploads of different bundles share no item.
LEMMA WaitsForAhead ==
  ASSUME OInv, NEW s \in Servers, NEW t \in Servers, WaitsFor(s, t)
  PROVE  Len(rest[t]) < Len(rest[s])
<1> DEFINE i == Head(rest[s])
           b == request[s].bundle
<1>1. s # t /\ pc[s] = "insert" /\ pc[t] # "idle" /\ i \in inserted[t]
  BY DEF WaitsFor, OInv, IInv, TypeInv, Open
<1>2. /\ rest[s] \in Seq(Items) /\ rest[t] \in Seq(Items) /\ rest[s] # << >>
      /\ b \in Bundles /\ request[t].bundle \in Bundles
  BY <1>1 DEF OInv, IInv, TypeInv, TypeOK, Open, Request
<1>3. request[t].bundle = b
  <2>1. i \in ItemsOf(b)
    BY <1>1, <1>2, HeadTail DEF OInv, IInv, Progress, Made
  <2>2. i \in ItemsOf(request[t].bundle)
    BY <1>1 DEF OInv, IInv, Progress, Made
  <2> QED BY <1>2, <2>1, <2>2, IngestionAssumption
<1>4. InOrder(s) /\ InOrder(t)
  BY <1>1 DEF OInv
<1>5. i \notin inserted[s] /\ runOf[i] = NoRun
  BY <1>1 DEF OInv, IInv, Exclusive
<1>6. PICK n \in 1..Done(t) : i = Manifest[b][n]
  BY <1>1, <1>3, <1>4 DEF InOrder
<1>7. Done(s) \in Nat /\ Done(t) \in Nat
  BY <1>4 DEF InOrder
<1>8. Done(s) < Done(t)
  <2>1. n \notin 1..Done(s)
    BY <1>4, <1>5, <1>6 DEF InOrder
  <2> QED BY <1>7, <2>1
<1>9. /\ Done(s) = Len(Manifest[b]) - Len(rest[s])
      /\ Done(t) = Len(Manifest[b]) - Len(rest[t])
  BY <1>3 DEF Done
<1>10. Len(Manifest[b]) \in Nat /\ Len(rest[s]) \in Nat /\ Len(rest[t]) \in Nat
  BY <1>2, IngestionAssumption
<1> HIDE DEF b
<1>11. Len(Manifest[b]) - Len(rest[s]) < Len(Manifest[b]) - Len(rest[t])
  BY <1>8, <1>9, Zenon
<1>12. \A k, x, y \in Nat : k - x < k - y => y < x
  OBVIOUS
<1> QED BY <1>10, <1>11, <1>12, Zenon

\* In any set of servers the one with the least left to do waits for none of them.
LEMMA LeastWaitsNot == OInv => NoWaitCycle
<1> SUFFICES ASSUME OInv, NEW S \in (SUBSET Servers) \ {{}}
             PROVE  \E s \in S : \A t \in S : ~WaitsFor(s, t)
  BY DEF NoWaitCycle
<1> DEFINE L == {Len(rest[s]) : s \in S}
<1>1. L \subseteq Nat /\ L # {}
  <2>1. \A s \in Servers : Len(rest[s]) \in Nat
    <3>1. \A s \in Servers : rest[s] \in Seq(Items)
      BY DEF OInv, IInv, TypeInv, TypeOK
    <3> QED BY <3>1
  <2> QED BY <2>1
<1> HIDE DEF L
<1>2. PICK x \in L : \A y \in L : ~(<<y, x>> \in OpToRel(<, Nat))
  BY <1>1, NatLessThanWellFounded, WFMin
<1>3. \A y \in L : ~(y < x)
  BY <1>1, <1>2 DEF OpToRel
<1>4. PICK s \in S : x = Len(rest[s])
  BY DEF L
<1>5. \A t \in S : Len(rest[t]) \in L
  BY DEF L
<1> QED BY <1>3, <1>4, <1>5, WaitsForAhead

\* The invariant with the order of the handlers holds in every reachable state.
THEOREM Ordered == Spec => []OInv
<1>1. Init => OInv
  BY InvInit DEF OInv, Init
<1> QED BY <1>1, OrderStep, PTL DEF Spec

\* Uploads never wait for each other in a circle, however many there are: in any set
\* of them the one with the least left to do waits for none of the others.
THEOREM NoCycle == Spec => []NoWaitCycle
BY Ordered, LeastWaitsNot, PTL

----------------------------------------------------------------------------
(* An upload comes to its end.                                              *)

\* The steps a handler has left from a step of its on with n items to go, if nothing
\* fails: two for each item, and those around the transaction.
Rank(step, n) ==
  IF step = "idle" THEN 0
  ELSE 2 * n + (IF step = "put_tarball" THEN 3
                ELSE IF step = "begin" THEN 2
                ELSE IF step = "put_item" THEN 1 ELSE 0)

Left(s) == Rank(pc[s], Len(rest[s]))

\* No step of anyone gives a handler back a step it has taken, and each of its own
\* takes one.
Descends ==
  \A s \in Servers : pc[s] # "idle" =>
     Left(s)' <= Left(s) /\ (Handle(s) => Left(s)' < Left(s))

\* A handler has at most two steps left for each item of its bundle and three more;
\* and while any is busy, one of them waits for nobody.
CanGoOn ==
  /\ \A s \in Servers : pc[s] # "idle" =>
        Left(s) \in 1..(2 * Len(Manifest[request[s].bundle]) + 3)
  /\ (\E s \in Servers : pc[s] # "idle") =>
        \E s \in Servers : pc[s] # "idle" /\ \A t \in Servers : ~WaitsFor(s, t)

\* How the rank falls.
LEMMA RankFalls ==
  ASSUME NEW n \in Nat
  PROVE  /\ \A step \in Steps : Rank(step, n) \in Nat
         /\ \A step \in Steps \ {"idle", "insert"} : Rank("idle", n) < Rank(step, n)
         /\ \A step \in Steps \ {"idle"} : n > 0 => 0 < Rank(step, n)
         /\ \A m \in Nat : Rank("idle", m) = 0
         /\ \A m \in Nat, step \in Steps : m <= n => Rank(step, m) <= 2 * n + 3
         /\ Rank("begin", n) < Rank("put_tarball", n)
         /\ Rank("put_item", n) < Rank("begin", n)
         /\ Rank("insert", n) < Rank("put_item", n)
         /\ Rank("put_item", n) < Rank("insert", n + 1)
BY DEF Rank, Steps

\* A step of a handler takes one of its steps.
LEMMA HandleDescends ==
  ASSUME TypeInv, NEW s \in Servers, Handle(s) PROVE Left(s)' < Left(s)
<1>1. pc \in [Servers -> Steps] /\ rest \in [Servers -> Seq(Items)] /\ Len(rest[s]) \in Nat
  BY DEF TypeInv, TypeOK
<1>2. CASE PutTarball(s) \/ BeginTx(s) \/ PutItem(s)
  <2>1. rest'[s] = rest[s]
    BY <1>2 DEF PutTarball, BeginTx, PutItem
  <2>2. \/ pc[s] = "put_tarball" /\ pc'[s] = "begin"
        \/ pc[s] = "begin" /\ pc'[s] = "put_item"
        \/ pc[s] = "put_item" /\ pc'[s] = "insert"
    BY <1>1, <1>2 DEF PutTarball, BeginTx, PutItem, Goto
  <2> QED BY <1>1, <2>1, <2>2, RankFalls DEF Left
<1>3. CASE InsertRow(s)
  <2>1. pc[s] = "insert" /\ pc'[s] = "put_item" /\ rest'[s] = Tail(rest[s])
    BY <1>1, <1>3 DEF InsertRow, Goto
  <2>2. rest[s] # << >>
    BY <2>1 DEF TypeInv, Open
  <2>3. /\ Len(Tail(rest[s])) \in Nat
        /\ Len(rest[s]) = Len(Tail(rest[s])) + 1
    <3> DEFINE q == rest[s]
    <3>1. q \in Seq(Items) /\ q # << >>
      BY <1>1, <2>2
    <3> HIDE DEF q
    <3>2. Len(Tail(q)) \in Nat /\ Len(q) = Len(Tail(q)) + 1
      BY <3>1
    <3> QED BY <3>2 DEF q
  <2> QED BY <2>1, <2>3, RankFalls DEF Left
<1>4. CASE RunNotFound(s) \/ Commit(s)
  <2>1. pc[s] \in {"begin", "put_item"} /\ pc'[s] = "idle"
    BY <1>1, <1>4 DEF RunNotFound, Commit, Leave, Goto
  <2>2. \A m : Rank("idle", m) = 0
    BY DEF Rank
  <2>3. Rank("idle", Len(rest[s])) < Rank(pc[s], Len(rest[s]))
    BY <1>1, <2>1, RankFalls DEF Steps
  <2> QED BY <2>1, <2>2, <2>3 DEF Left
<1> QED BY <1>2, <1>3, <1>4 DEF Handle

\* The steps left are a number.
LEMMA LeftType == ASSUME TypeInv, NEW s \in Servers PROVE Left(s) \in Nat
<1>1. pc[s] \in Steps /\ Len(rest[s]) \in Nat
  BY DEF TypeInv, TypeOK
<1> QED BY <1>1, RankFalls DEF Left

\* Whoever another waits for is busy, so the busy servers do not all wait.
LEMMA SomeoneGoesOn == ASSUME OInv PROVE CanGoOn
<1>1. TypeInv
  BY DEF OInv, IInv
<1>2. ASSUME NEW s \in Servers, pc[s] # "idle"
      PROVE  Left(s) \in 1..(2 * Len(Manifest[request[s].bundle]) + 3)
  <2>1. /\ pc[s] \in Steps /\ Len(rest[s]) \in Nat /\ rest[s] \in Seq(Items)
        /\ request[s].bundle \in Bundles
    BY <1>1, <1>2 DEF TypeInv, TypeOK, Request
  <2>2. Len(Manifest[request[s].bundle]) \in Nat
    BY <2>1, IngestionAssumption
  <2>3. Len(Manifest[request[s].bundle]) - Len(rest[s]) \in Nat
    BY <1>2 DEF OInv, InOrder, Done
  <2>4. pc[s] = "insert" => Len(rest[s]) > 0
    BY <1>1, <2>1 DEF TypeInv, Open
  <2>5. Len(rest[s]) <= Len(Manifest[request[s].bundle])
    BY <2>1, <2>2, <2>3
  <2>6. Left(s) \in Nat /\ Left(s) <= 2 * Len(Manifest[request[s].bundle]) + 3
    BY <1>1, <2>1, <2>2, <2>5, LeftType, RankFalls DEF Left
  <2>7. 0 < Left(s)
    <3>1. CASE pc[s] = "insert"
      BY <1>2, <2>1, <2>4, <3>1, RankFalls DEF Left
    <3>2. CASE pc[s] # "insert"
      BY <1>2, <2>1, <3>2, RankFalls DEF Left
    <3> QED BY <3>1, <3>2
  <2> QED BY <2>2, <2>6, <2>7
<1>3. ASSUME NEW q \in Servers, pc[q] # "idle"
      PROVE  \E s \in Servers : pc[s] # "idle" /\ \A t \in Servers : ~WaitsFor(s, t)
  <2> DEFINE Busy == {s \in Servers : pc[s] # "idle"}
  <2>1. Busy \in (SUBSET Servers) \ {{}}
    BY <1>3
  <2>2. PICK s \in Busy : \A t \in Busy : ~WaitsFor(s, t)
    BY <2>1, LeastWaitsNot DEF NoWaitCycle
  <2>3. ASSUME NEW t \in Servers, WaitsFor(s, t) PROVE t \in Busy
    BY <1>1, <2>3 DEF WaitsFor, TypeInv, Open
  <2> QED BY <2>2, <2>3
<1> QED BY <1>2, <1>3 DEF CanGoOn

\* For any number of uploads and servers: a handler takes a bounded number of steps,
\* whatever the others do, and they never all wait. That a handler is run, and an open
\* transaction with it, is left to the runtime.
THEOREM UploadsDescend == Spec => [][Descends]_vars /\ []CanGoOn
<1>1. TypeInv /\ TypeInv' /\ [Next]_vars => [Descends]_vars
  <2> SUFFICES ASSUME TypeInv, TypeInv', Next, NEW s \in Servers, pc[s] # "idle"
               PROVE  Left(s)' <= Left(s) /\ (Handle(s) => Left(s)' < Left(s))
    BY DEF Descends
  <2>1. Left(s) \in Nat /\ Left(s)' \in Nat
    <3>1. pc'[s] \in Steps /\ Len(rest'[s]) \in Nat
      BY DEF TypeInv, TypeOK
    <3> QED BY <3>1, LeftType, RankFalls DEF Left
  <2>2. Left(s)' = Left(s) \/ Left(s)' < Left(s)
    <3>1. ASSUME UNCHANGED handler PROVE Left(s)' = Left(s)
      BY <3>1 DEF handler, Left
    <3>2. ASSUME NEW t \in Servers,
                 \/ Handle(t) \/ Abort(t) \/ \E r \in Runs, b \in Bundles : Receive(t, r, b)
          PROVE  Left(s)' = Left(s) \/ Left(s)' < Left(s)
      <4>1. CASE t # s
        BY <3>2, <4>1, OthersRest DEF Rests, Left
      <4>2. CASE t = s /\ Abort(s)
        <5>1. pc'[s] = "idle"
          BY <4>2 DEF Abort, Leave, Goto, TypeInv, TypeOK
        <5>2. Left(s)' = 0
          BY <5>1 DEF Left, Rank
        <5> QED BY <2>1, <5>2
      <4> QED BY <3>2, <4>1, <4>2, HandleDescends DEF Receive
    <3> QED BY <3>1, <3>2 DEF Next, CreateRun, Tick
  <2> QED BY <2>1, <2>2, HandleDescends
<1>2. OInv => TypeInv /\ CanGoOn
  BY SomeoneGoesOn DEF OInv, IInv
<1> QED BY <1>1, <1>2, Ordered, PTL DEF Spec

----------------------------------------------------------------------------
(* The upload implements the lifecycle of evidence.                         *)

\* A commit that inserted a row inserted the whole bundle: had another upload
\* committed one of its items before, it would have committed them all.
LEMMA CommitWhole ==
  ASSUME IInv, NEW s \in Servers, Commit(s), inserted[s] # {}
  PROVE  /\ inserted[s] = ItemsOf(request[s].bundle)
         /\ \A i \in inserted[s] : runOf[i] = NoRun
<1>1. /\ \A i \in inserted[s] : runOf[i] = NoRun
      /\ request[s].bundle \in Bundles
  BY CommitRows
<1>2. Made(s) /\ rest[s] = << >>
  BY DEF Commit, IInv, Progress
<1>3. inserted[s] \subseteq ItemsOf(request[s].bundle)
  BY <1>2 DEF Made
<1>4. \A i \in ItemsOf(request[s].bundle) : runOf[i] = NoRun
  BY <1>1, <1>3 DEF IInv, BundleAllOrNothing
<1>5. \A i \in ItemsOf(request[s].bundle) : i \in inserted[s]
  BY <1>2, <1>4 DEF Made, Elements
<1> QED BY <1>1, <1>3, <1>5

\* A commit is the arrival of its bundle, or the repetition of an upload when the
\* bundle was there already. The run exists since the transaction found it.
LEMMA CommitRefines ==
  ASSUME IInv, NEW s \in Servers, Commit(s)
  PROVE  Lifecycle!Service
<1>1. /\ request[s].run \in Runs /\ request[s].bundle \in Bundles
      /\ runOf' = [i \in Items |-> IF i \in inserted[s] THEN request[s].run ELSE runOf[i]]
      /\ status' = [status EXCEPT ![request[s].run] = "normalizing"]
  BY CommitRows DEF Commit
<1>2. status[request[s].run] # "absent"
  BY DEF Commit, IInv, Progress, Made
<1>3. CASE inserted[s] = {}
  <2>1. runOf' = runOf
    BY <1>1, <1>3 DEF IInv, TypeInv, TypeOK, RunColumn
  <2>2. Lifecycle!Repeat(request[s].run)
    BY <1>1, <1>2, <2>1 DEF Lifecycle!Repeat
  <2> QED BY <1>1, <2>2 DEF Lifecycle!Service
<1>4. CASE inserted[s] # {}
  <2>1. Lifecycle!Arrive(request[s].run, inserted[s])
    BY <1>1, <1>2, <1>4, CommitWhole DEF Lifecycle!Arrive
  <2>2. inserted[s] \in {ItemsOf(b) : b \in Bundles}
    BY <1>1, <1>4, CommitWhole
  <2> QED BY <1>1, <2>1, <2>2 DEF Lifecycle!Service
<1> QED BY <1>3, <1>4

\* To the other services an upload is one step: the items of a bundle arrive in one
\* run, whole and once, and move it to normalizing, whatever races, waits, crashes
\* and retries went before.
THEOREM Refines == Spec => ImplementsLifecycle
<1>1. Init => Lifecycle!Init
  BY DEF Init, Lifecycle!Init, Lifecycle!Fresh
<1>2. IInv /\ [Next]_vars => [Lifecycle!Next]_(Lifecycle!columns)
  <2> DEFINE Maps == [Lifecycle!Next]_(Lifecycle!columns)
  <2> SUFFICES ASSUME IInv, [Next]_vars PROVE Maps
    OBVIOUS
  <2>1. ASSUME UNCHANGED <<status, runOf>> PROVE Maps
    BY <2>1 DEF Lifecycle!columns
  <2>2. ASSUME NEW s \in Servers, Commit(s) PROVE Maps
    BY <2>2, CommitRefines DEF Lifecycle!Next
  <2>3. ASSUME NEW r \in Runs, CreateRun(r) PROVE Maps
    BY <2>3 DEF CreateRun, Lifecycle!Next, Lifecycle!Create
  <2> HIDE DEF Maps
  <2>4. ASSUME NEW s \in Servers, Handle(s) PROVE Maps
    BY <2>1, <2>2, <2>4 DEF Handle, PutTarball, BeginTx, RunNotFound, PutItem, InsertRow, db
  <2>5. ASSUME NEW s \in Servers, Abort(s) \/ \E r \in Runs, b \in Bundles : Receive(s, r, b)
        PROVE  Maps
    BY <2>1, <2>5 DEF Abort, Receive, db
  <2> QED BY <2>1, <2>3, <2>4, <2>5 DEF Next, Tick, vars, db
<1> QED BY <1>1, <1>2, Inductive, PTL DEF Spec, ImplementsLifecycle, Lifecycle!Spec

\* So ingestion obeys the laws of the lifecycle: a row and the status its run moves to
\* are seen together, and neither is taken back, whichever server commits first.
THEOREM Lawful == Spec => []Lifecycle!ColumnsAgree /\ Lifecycle!NothingTakenBack
BY Refines, SchemaAssumption, Lifecycle!Agree, Lifecycle!Permanent, PTL DEF ImplementsLifecycle

\* The uploads that were told that items of b were accepted.
Accepting(b) == {q \in receipts : q.bundle = b /\ q.accepted # 0}

\* Where no receipt is written and no row appears, what was accepted stays.
LEMMA AcceptedStays ==
  ASSUME ItemsAcceptedOnce, UNCHANGED <<runOf, receipts>>
  PROVE  ItemsAcceptedOnce'
BY DEF ItemsAcceptedOnce

\* A commit that inserts nothing accepts nothing. One that inserts rows inserts the
\* whole bundle: none of it was there, so no upload had been told it was accepted.
LEMMA CommitAccepts ==
  ASSUME IInv, ItemsAcceptedOnce, NEW s \in Servers, Commit(s)
  PROVE  ItemsAcceptedOnce'
<1> DEFINE c == request[s].bundle
           new == [run |-> request[s].run, bundle |-> c, second |-> request[s].second,
                   call |-> request[s].call, items |-> Len(Manifest[c]),
                   accepted |-> Cardinality(inserted[s])]
<1>1. receipts' = receipts \cup {new}
  BY DEF Commit
<1>2. /\ \A i \in Items : runOf'[i] =
           IF i \in inserted[s] THEN request[s].run ELSE runOf[i]
      /\ request[s].run # NoRun /\ c \in Bundles
  BY CommitRows
<1>3. \A b \in Bundles : ItemsOf(b) \subseteq Items
  BY IngestionAssumption DEF ItemsOf
<1>4. Cardinality(inserted[s]) = 0 <=> inserted[s] = {}
  BY FS_EmptySet DEF IInv, TypeInv, Open
<1>5. new.bundle = c /\ new.run = request[s].run /\ new.accepted = Cardinality(inserted[s])
  OBVIOUS
<1> HIDE DEF new
<1> SUFFICES ASSUME NEW b \in Bundles
             PROVE  /\ \A p, q \in Accepting(b)' : p = q
                    /\ \A q \in Accepting(b)' :
                         /\ q.accepted = Cardinality(ItemsOf(b))
                         /\ \A i \in ItemsOf(b) : runOf'[i] = q.run
                    /\ \A i \in ItemsOf(b) : runOf'[i] # NoRun => Accepting(b)' # {}
  BY DEF ItemsAcceptedOnce, Accepting, ItemsOf
<1>6. /\ \A p, q \in Accepting(b) : p = q
      /\ \A q \in Accepting(b) : /\ q.accepted = Cardinality(ItemsOf(b))
                                 /\ \A i \in ItemsOf(b) : runOf[i] = q.run
      /\ \A i \in ItemsOf(b) : runOf[i] # NoRun => Accepting(b) # {}
  BY DEF ItemsAcceptedOnce, Accepting
<1>7. CASE inserted[s] = {}
  <2>1. Accepting(b)' = Accepting(b)
    BY <1>1, <1>4, <1>5, <1>7 DEF Accepting
  <2>2. \A i \in ItemsOf(b) : runOf'[i] = runOf[i]
    BY <1>2, <1>3, <1>7
  <2> QED BY <1>6, <2>1, <2>2
<1>8. CASE inserted[s] # {} /\ b = c
  <2>1. inserted[s] = ItemsOf(b) /\ \A i \in ItemsOf(b) : runOf[i] = NoRun
    BY <1>8, CommitWhole
  <2>2. \A i \in ItemsOf(b) : runOf'[i] = request[s].run
    BY <1>2, <1>3, <2>1
  <2>3. Accepting(b) = {}
    <3>1. PICK i \in ItemsOf(b) : runOf[i] = NoRun
      BY <1>8, <2>1
    <3>2. ASSUME NEW q \in Accepting(b) PROVE FALSE
      <4>1. q.run = NoRun
        BY <1>6, <3>1, <3>2
      <4>2. q.run \in Runs
        BY <3>2 DEF Accepting, IInv, TypeInv, TypeOK, Receipt
      <4> QED BY <4>1, <4>2, SchemaAssumption
    <3> QED BY <3>2
  <2>4. Accepting(b)' = {new}
    BY <1>1, <1>4, <1>5, <1>8, <2>3 DEF Accepting
  <2> QED BY <1>5, <2>1, <2>2, <2>4
<1>9. CASE inserted[s] # {} /\ b # c
  <2>1. Accepting(b)' = Accepting(b)
    BY <1>1, <1>5, <1>9 DEF Accepting
  <2>2. inserted[s] = ItemsOf(c) /\ ItemsOf(b) \cap ItemsOf(c) = {}
    BY <1>2, <1>9, CommitWhole, IngestionAssumption
  <2>3. \A i \in ItemsOf(b) : runOf'[i] = runOf[i]
    BY <1>2, <1>3, <2>2
  <2> QED BY <1>6, <2>1, <2>3
<1> QED BY <1>7, <1>8, <1>9

\* An item is accepted once: whatever number of retries and servers, one upload of a
\* bundle is told that it stored the items, and it did.
THEOREM AcceptedOnce == Spec => []ItemsAcceptedOnce
<1>1. Init => ItemsAcceptedOnce
  BY IngestionAssumption DEF Init, ItemsAcceptedOnce, ItemsOf
<1>2. IInv /\ ItemsAcceptedOnce /\ [Next]_vars => ItemsAcceptedOnce'
  <2> SUFFICES ASSUME IInv, ItemsAcceptedOnce, [Next]_vars PROVE ItemsAcceptedOnce'
    OBVIOUS
  <2>1. ASSUME NEW s \in Servers, Handle(s) PROVE ItemsAcceptedOnce'
    BY <2>1, AcceptedStays, CommitAccepts
       DEF Handle, PutTarball, BeginTx, RunNotFound, PutItem, InsertRow, db
  <2>2. ASSUME NEW s \in Servers, Abort(s) \/ \E r \in Runs, b \in Bundles : Receive(s, r, b)
        PROVE  ItemsAcceptedOnce'
    BY <2>2, AcceptedStays DEF Abort, Receive, db
  <2> QED BY <2>1, <2>2, AcceptedStays DEF Next, CreateRun, Tick, vars, db
<1> QED BY <1>1, <1>2, Inductive, PTL DEF Spec

----------------------------------------------------------------------------
(* The tarballs.                                                            *)

\* An upload to run r is on its way to the key of second t.
Writing(r, t) ==
  \E s \in Servers : /\ pc[s] = "put_tarball"
                     /\ request[s].run = r /\ request[s].second = t

\* The key that an audit row names, or will name, holds a bundle.
TarballStored ==
  /\ \A q \in receipts : tarball[<<q.run, q.second>>] \in Bundles
  /\ \A s \in Servers : pc[s] \in {"begin", "put_item", "insert"} =>
        tarball[<<request[s].run, request[s].second>>] \in Bundles

\* A key is final once its second is past and no upload is on its way to it.
Settles ==
  \A r \in Runs, t \in 0..MaxClock : t < clock /\ ~Writing(r, t) =>
     tarball'[<<r, t>>] = tarball[<<r, t>>] /\ ~Writing(r, t)'

\* No bundle is ever taken out of the store.
LEMMA StoredStays ==
  ASSUME TypeInv, NEW s \in Servers, PutTarball(s)
  PROVE  /\ tarball'[<<request[s].run, request[s].second>>] = request[s].bundle
         /\ \A k \in Runs \X (0..MaxClock) :
              k # <<request[s].run, request[s].second>> => tarball'[k] = tarball[k]
         /\ request[s] \in Request
<1>1. request[s] \in Request /\ tarball \in [Runs \X (0..MaxClock) -> Bundles \cup {NoBundle}]
  BY DEF PutTarball, TypeInv, TypeOK
<1>2. <<request[s].run, request[s].second>> \in Runs \X (0..MaxClock)
  BY <1>1 DEF Request
<1> QED BY <1>1, <1>2 DEF PutTarball

\* Every step keeps them stored.
LEMMA StoredStep ==
  ASSUME TypeInv, TarballStored, [Next]_vars PROVE TarballStored'
<1> DEFINE Key(q) == <<q.run, q.second>>
           Kept == /\ \A q \in receipts : tarball'[Key(q)] \in Bundles
                   /\ \A t \in Servers : pc[t] \in {"begin", "put_item", "insert"} =>
                        tarball'[Key(request[t])] \in Bundles
<1>1. /\ \A q \in receipts : Key(q) \in Runs \X (0..MaxClock)
      /\ \A t \in Servers : pc[t] # "idle" => Key(request[t]) \in Runs \X (0..MaxClock)
  BY DEF TypeInv, TypeOK, Receipt, Request
<1>2. ASSUME UNCHANGED tarball PROVE Kept
  BY <1>2 DEF TarballStored
<1>3. ASSUME NEW s \in Servers, PutTarball(s) PROVE TarballStored'
  <2>1. \A k \in Runs \X (0..MaxClock) : tarball[k] \in Bundles => tarball'[k] \in Bundles
    BY <1>3, StoredStays DEF Request
  <2>2. Kept
    BY <1>1, <2>1 DEF TarballStored
  <2>3. tarball'[Key(request[s])] \in Bundles /\ UNCHANGED <<receipts, request>>
    BY <1>3, StoredStays DEF PutTarball, db, Request
  <2>4. \A t \in Servers : t # s => pc'[t] = pc[t]
    BY <1>3 DEF PutTarball, Goto, TypeInv, TypeOK
  <2> QED BY <2>2, <2>3, <2>4 DEF TarballStored
<1>4. ASSUME UNCHANGED <<tarball, receipts>>, NEW s \in Servers,
             \/ Handle(s) \/ Abort(s) \/ \E r \in Runs, b \in Bundles : Receive(s, r, b),
             \/ pc'[s] \notin {"begin", "put_item", "insert"}
             \/ pc[s] \in {"begin", "put_item", "insert"} /\ request'[s] = request[s]
      PROVE  TarballStored'
  BY <1>2, <1>4, OthersRest DEF TarballStored, Rests
<1>5. ASSUME NEW s \in Servers, BeginTx(s) \/ PutItem(s) \/ InsertRow(s) PROVE TarballStored'
  <2>1. pc[s] \in {"begin", "put_item", "insert"} /\ UNCHANGED <<tarball, receipts, request>>
    BY <1>5 DEF BeginTx, PutItem, InsertRow, db, store
  <2> QED BY <1>4, <1>5, <2>1 DEF Handle
<1>6. ASSUME NEW s \in Servers, RunNotFound(s) \/ Abort(s) PROVE TarballStored'
  <2>1. pc'[s] = "idle" /\ UNCHANGED <<tarball, receipts>>
    BY <1>6 DEF RunNotFound, Abort, Leave, Goto, db, store, TypeInv, TypeOK
  <2> QED BY <1>4, <1>6, <2>1 DEF Handle
<1>7. ASSUME NEW s \in Servers, NEW r \in Runs, NEW b \in Bundles, Receive(s, r, b)
      PROVE  TarballStored'
  <2>1. pc'[s] = "put_tarball" /\ UNCHANGED <<tarball, receipts>>
    BY <1>7 DEF Receive, Goto, db, store, TypeInv, TypeOK
  <2> QED BY <1>4, <1>7, <2>1
<1>8. ASSUME NEW s \in Servers, Commit(s) PROVE TarballStored'
  <2>1. /\ pc[s] = "put_item" /\ UNCHANGED tarball
        /\ \A q \in receipts' : q \in receipts \/ Key(q) = Key(request[s])
    BY <1>8 DEF Commit, store
  <2>2. pc'[s] = "idle"
    BY <1>8 DEF Commit, Leave, Goto, TypeInv, TypeOK
  <2>3. \A t \in Servers : t # s => Rests(t)
    BY <1>8, OthersRest DEF Handle
  <2> QED BY <1>2, <2>1, <2>2, <2>3 DEF TarballStored, Rests
<1>9. ASSUME UNCHANGED <<tarball, receipts, handler>> PROVE TarballStored'
  BY <1>9 DEF TarballStored, handler
<1> QED BY <1>3, <1>5, <1>6, <1>7, <1>8, <1>9
        DEF Next, Handle, CreateRun, Tick, vars, db, store

\* Only an upload that is on its way to a key writes it, and none sets out for a
\* second that is past.
LEMMA SettlesStep == ASSUME TypeInv, [Next]_vars PROVE Settles
<1> SUFFICES ASSUME NEW r \in Runs, NEW t \in 0..MaxClock, t < clock, ~Writing(r, t)
             PROVE  tarball'[<<r, t>>] = tarball[<<r, t>>] /\ ~Writing(r, t)'
  BY DEF Settles
<1>1. ASSUME UNCHANGED <<tarball, handler>> PROVE tarball'[<<r, t>>] = tarball[<<r, t>>] /\ ~Writing(r, t)'
  BY <1>1 DEF handler, Writing
<1>2. ASSUME NEW s \in Servers,
             \/ Handle(s) \/ Abort(s) \/ \E q \in Runs, b \in Bundles : Receive(s, q, b)
      PROVE  tarball'[<<r, t>>] = tarball[<<r, t>>] /\ ~Writing(r, t)'
  <2>1. \A u \in Servers : u # s => Rests(u)
    BY <1>2, OthersRest DEF TypeInv
  <2>2. ASSUME pc'[s] = "put_tarball" PROVE request'[s].second = clock
    BY <1>2, <2>2 DEF Handle, Abort, Receive, PutTarball, BeginTx, RunNotFound, PutItem,
                      InsertRow, Commit, Leave, Goto, TypeInv, TypeOK, Steps
  <2>3. ~Writing(r, t)'
    <3>1. clock \in Nat
      BY IngestionAssumption DEF TypeInv, TypeOK
    <3> QED BY <2>1, <2>2, <3>1 DEF Writing, Rests
  <2>4. tarball'[<<r, t>>] = tarball[<<r, t>>]
    <3>1. CASE PutTarball(s)
      <4>1. <<r, t>> # <<request[s].run, request[s].second>>
        BY <3>1 DEF PutTarball, Writing
      <4> QED BY <3>1, <4>1, StoredStays
    <3>2. CASE ~PutTarball(s)
      <4>1. UNCHANGED tarball
        BY <1>2, <3>2 DEF Handle, Abort, Receive, BeginTx, RunNotFound, PutItem, InsertRow,
                          Commit, store
      <4> QED BY <4>1
    <3> QED BY <3>1, <3>2
  <2> QED BY <2>3, <2>4
<1> QED BY <1>1, <1>2 DEF Next, CreateRun, Tick, vars, db, store

\* What holds of the tarballs, though two uploads to a run in one second share a key:
\* the key an audit row names never holds nothing, and it is final as soon as its
\* second is past and nobody is on the way to it.
THEOREM Tarballs == Spec => []TarballStored /\ [][Settles]_vars
<1>1. Init => TarballStored
  BY DEF Init, TarballStored
<1>2. TypeInv /\ TarballStored /\ [Next]_vars => TarballStored'
  BY StoredStep
<1>3. TypeInv /\ [Next]_vars => [Settles]_vars
  BY SettlesStep
<1> QED BY <1>1, <1>2, <1>3, Typed, PTL DEF Spec
============================================================================
