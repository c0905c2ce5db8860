-------------------------- MODULE Streaming_proofs --------------------------
(***************************************************************************)
(* The bridge keeps its types, its guard and its promptness for every model *)
(* and every pair of batch sizes, and implements the contract of EventStream *)
(* with the client: while the response is open, all that was sent, is in the *)
(* channel or is about to be sent makes one log that the contract allows.   *)
(***************************************************************************)
EXTENDS Streaming, ListFacts

\* Who has a share of the admission guard follows from where both sides are.
Shared ==
    /\ "task" \in shares <=> task \in {"queued", "loop", "symbolic", "drop"}
    /\ "stream" \in shares <=> stream \in {"open", "closing"}

\* A chunk with meshes that was begun for nobody is the last one: its callback
\* is still to come, or has told the pipeline to stop.
LastChunk ==
    \/ lateMeshed = 0
    \/ lateMeshed = 1 /\ Closed /\ (cancel \/ ~ChunkDone)
-----------------------------------------------------------------------------
LEMMA EventTypes ==
  /\ \A n \in Nat : Start(n) \in Events /\ Progress(n) \in Events
  /\ \A n, a, b \in Nat : Batch(n, a, b) \in Events
  /\ Complete \in Events /\ Error \in Events
BY DEF Start, Progress, Batch, Complete, Error, Events

\* A later job has made no fewer meshes.
LEMMA MadeMonotone ==
  ASSUME model \in Models, NEW i \in 0..Jobs, NEW j \in 0..Jobs, i <= j
  PROVE  /\ Made(i) \in Nat /\ Made(j) \in Nat
         /\ Made(i) <= Made(j)
<1>1. model \in Seq(Nat) /\ Jobs \in Nat
  BY ModelsAssumption DEF Jobs
<1>2. \A k \in 1..Jobs : model[k] \in Nat
  BY <1>1 DEF Jobs
<1>3. \A k \in 0..Jobs : Made(k) \in Nat
  BY <1>1, <1>2 DEF Made
<1>4. CASE i = 0
  BY <1>3, <1>4 DEF Made
<1>5. CASE i # 0
  <2>1. i \in 1..Len(model) /\ j \in 1..Len(model)
    BY <1>1, <1>5 DEF Jobs
  <2>2. model[i] <= model[j]
    BY <2>1, ModelsAssumption
  <2>3. i # 0 /\ j # 0
    BY <2>1
  <2>4. QED
    BY <1>3, <2>2, <2>3 DEF Made
<1>6. QED
  BY <1>4, <1>5

LEMMA SizesPositive ==
  /\ FirstSize \in Nat /\ LaterSize \in Nat
  /\ FirstSize > 0 /\ LaterSize > 0
BY BatchSizesAssumption DEF FirstSize, LaterSize, Larger

\* One round of the loop makes progress and stays within the model.
LEMMA ChunkWithin ==
  ASSUME TypeOK, MeshChunk
  PROVE  processed' \in 0..Jobs /\ processed < processed'
<1>1. ChunkSize \in Nat /\ ChunkSize > 0
  BY SizesPositive DEF ChunkSize
<1>2. Jobs \in Nat /\ processed \in Nat /\ processed < Jobs
  BY ModelsAssumption DEF TypeOK, MeshChunk, Jobs
<1>3. processed' = Smaller(processed + ChunkSize, Jobs)
  BY DEF MeshChunk
<1>4. QED
  BY <1>1, <1>2, <1>3 DEF Smaller

\* A slice is not empty and ends within its chunk.
LEMMA SliceWithin ==
  ASSUME TypeOK, OnBatch
  PROVE  emitted' \in 0..Made(processed) /\ emitted < emitted'
<1>1. EmitSize \in Nat /\ EmitSize > 0
  BY SizesPositive DEF EmitSize
<1>2. Made(processed) \in Nat
  BY MadeMonotone DEF TypeOK
<1>3. emitted \in 0..Made(processed) /\ emitted # Made(processed)
  BY DEF TypeOK, OnBatch, Callback, ChunkDone
<1>4. emitted' = Smaller(emitted + EmitSize, Made(processed))
  BY DEF OnBatch, Callback
<1>5. QED
  BY <1>1, <1>2, <1>3, <1>4 DEF Smaller

LEMMA TypeStep == TypeOK /\ [Next]_vars => TypeOK'
<1> SUFFICES ASSUME TypeOK, [Next]_vars PROVE TypeOK'
  OBVIOUS
<1>1. CASE Begin \/ DropTaskShare \/ DropTx
  BY <1>1 DEF TypeOK, Begin, DropTaskShare, DropTx, TaskAt, taskVars, Jobs, Made
<1>2. CASE MeshChunk
  <2>1. processed' \in 0..Jobs /\ processed < processed'
    BY <1>2, ChunkWithin
  <2>2. processed \in 0..Jobs /\ processed <= processed' /\ model \in Models
    BY <2>1 DEF TypeOK
  <2>3. Made(processed) <= Made(processed') /\ Made(processed) \in Nat /\ Made(processed') \in Nat
    BY <2>1, <2>2, MadeMonotone
  <2>4. emitted \in 0..Made(processed')
    BY <2>3 DEF TypeOK
  <2>5. model' = model /\ emitted' = emitted /\ Made(processed)' = Made(processed') /\ Jobs' = Jobs
    BY <1>2 DEF MeshChunk, Made, Jobs
  <2>6. lateChunks' \in Nat /\ lateMeshed' \in 0..lateChunks'
    <3>1. lateChunks' = lateChunks \/ (Closed /\ lateChunks' = lateChunks + 1)
      BY <1>2 DEF MeshChunk
    <3>2. lateMeshed' = lateMeshed \/ (Closed /\ lateMeshed' = lateMeshed + 1)
      BY <1>2 DEF MeshChunk
    <3>3. Closed => lateChunks' = lateChunks + 1
      BY <1>2 DEF MeshChunk
    <3>4. QED
      BY <3>1, <3>2, <3>3 DEF TypeOK
  <2>7. QED
    BY <1>2, <2>1, <2>4, <2>5, <2>6 DEF TypeOK, MeshChunk, TaskAt
<1>3. CASE OnBatch
  <2>1. emitted' \in 0..Made(processed) /\ emitted < emitted' /\ emitted \in Nat /\ emitted' \in Nat
    BY <1>3, SliceWithin, MadeMonotone DEF TypeOK
  <2>2. Made(processed)' = Made(processed) /\ Jobs' = Jobs /\ Jobs \in Nat /\ processed \in Nat
    BY <1>3, ModelsAssumption DEF OnBatch, Callback, Made, Jobs, TypeOK
  <2>3. /\ started' \in BOOLEAN /\ batchNumber' \in Nat /\ cancel' \in BOOLEAN
        /\ outbox' \in Seq(Events)
    <3>1. CASE Closed
      BY <1>3, <3>1 DEF OnBatch, Callback, Refuse, TypeOK
    <3>2. CASE ~Closed
      <4>1. Forward
        BY <1>3, <3>2 DEF OnBatch, Callback
      <4>2. batchNumber + 1 \in Nat /\ emitted + 1 \in Nat
        BY <2>1 DEF TypeOK
      <4>3. /\ <<Batch(batchNumber + 1, emitted + 1, emitted'), Progress(processed)>> \in Seq(Events)
            /\ <<Start(Jobs), Progress(0)>> \in Seq(Events)
        <5>1. Batch(batchNumber + 1, emitted + 1, emitted') \in Events
          BY <2>1, <4>2, EventTypes
        <5>2. Progress(processed) \in Events /\ Start(Jobs) \in Events /\ Progress(0) \in Events
          BY <2>2, EventTypes
        <5>3. QED
          BY <5>1, <5>2
      <4>4. outbox' \in Seq(Events)
        BY <4>1, <4>3 DEF Forward
      <4>5. QED
        BY <4>1, <4>2, <4>4 DEF Forward, TypeOK
    <3>3. QED
      BY <3>1, <3>2
  <2>4. QED
    BY <1>3, <2>1, <2>2, <2>3 DEF TypeOK, OnBatch, Callback, TaskAt
<1>4. CASE SendEvent
  <2>1. Head(outbox) \in Events /\ Tail(outbox) \in Seq(Events)
    BY <1>4 DEF SendEvent, TypeOK
  <2>2. chan' \in Seq(Events) /\ outbox' \in Seq(Events)
    BY <1>4, <2>1 DEF SendEvent, TypeOK
  <2>3. QED
    BY <1>4, <2>2 DEF SendEvent, TypeOK, taskVars, Jobs, Made
<1>5. CASE Finish
  <2>1. outbox' \in Seq(Events) /\ task' \in {"drop", "symbolic"}
    <3>1. Start(0) \in Events
      BY EventTypes
    <3>2. outbox \in Seq(Events) /\ <<>> \in Seq(Events) /\ <<Start(0)>> \in Seq(Events)
      BY <3>1 DEF TypeOK
    <3>3. outbox' = outbox \/ outbox' = <<>> \/ outbox' = <<Start(0)>>
      BY <1>5 DEF Finish
    <3>4. task' \in {"drop", "symbolic"}
      BY <1>5 DEF Finish
    <3>5. QED
      BY <3>2, <3>3, <3>4
  <2>2. QED
    BY <1>5, <2>1 DEF Finish, TypeOK, taskVars, Jobs, Made
<1>6. CASE Symbolic
  <2>1. outbox' \in Seq(Events)
    BY <1>6, EventTypes DEF Symbolic
  <2>2. QED
    BY <1>6, <2>1 DEF Symbolic, TypeOK, taskVars, Jobs, Made
<1>7. CASE Panic
  BY <1>7 DEF TypeOK, Panic, Jobs, Made
<1>8. CASE Yield
  <2>1. Head(chan) \in Events /\ Tail(chan) \in Seq(Events)
    BY <1>8 DEF Yield, TypeOK
  <2>2. chan' \in Seq(Events) /\ seen' \in Seq(Events)
    BY <1>8, <2>1 DEF Yield, TypeOK
  <2>3. QED
    BY <1>8, <2>2 DEF Yield, TypeOK, taskVars, Jobs, Made
<1>9. CASE Join
  <2>1. seen' \in Seq(Events)
    BY <1>9, EventTypes DEF Join, TypeOK
  <2>2. QED
    BY <1>9, <2>1 DEF Join, TypeOK, taskVars, Jobs, Made
<1>10. CASE HangUp \/ DropStreamShare
  BY <1>10 DEF HangUp, DropStreamShare, TypeOK, taskVars, Jobs, Made
<1>11. CASE DropRx
  <2>1. chan' \in Seq(Events)
    BY <1>11 DEF DropRx
  <2>2. QED
    BY <1>11, <2>1 DEF DropRx, TypeOK, taskVars, Jobs, Made
<1>12. CASE UNCHANGED vars
  BY <1>12 DEF TypeOK, vars, taskVars, Jobs, Made
<1>13. QED
  BY <1>1, <1>2, <1>3, <1>4, <1>5, <1>6, <1>7, <1>8, <1>9, <1>10, <1>11, <1>12
     DEF Next, TaskStep, Drain, StreamDrop

\* The counters of jobs and meshes stay within the model, for every model and
\* every pair of configured batch sizes, 0 included.
THEOREM StreamingTyped == Spec => []TypeOK
<1>1. Init => TypeOK
  <2>1. ASSUME Init PROVE TypeOK
    <3>1. Made(0) = 0 /\ Jobs \in Nat
      BY <2>1, ModelsAssumption DEF Made, Jobs, Init
    <3>2. processed \in 0..Jobs /\ emitted \in 0..Made(processed)
      BY <2>1, <3>1 DEF Init
    <3>3. outbox \in Seq(Events) /\ chan \in Seq(Events) /\ seen \in Seq(Events)
      BY <2>1 DEF Init
    <3>4. lateChunks \in Nat /\ lateMeshed \in 0..lateChunks
      BY <2>1 DEF Init
    <3>5. QED
      BY <2>1, <3>2, <3>3, <3>4 DEF Init, TypeOK
  <2>2. QED
    BY <2>1
<1>2. QED
  BY <1>1, TypeStep, PTL DEF Spec
-----------------------------------------------------------------------------
LEMMA SharedStep == Shared /\ [Next]_vars => Shared'
<1> SUFFICES ASSUME Shared, [Next]_vars PROVE Shared'
  OBVIOUS
<1> USE DEF Shared
<1>1. CASE Begin \/ MeshChunk
  BY <1>1 DEF Begin, MeshChunk, TaskAt
<1>2. CASE OnBatch
  BY <1>2 DEF OnBatch, Callback, TaskAt
<1>3. CASE SendEvent
  BY <1>3 DEF SendEvent
<1>4. CASE Finish
  BY <1>4 DEF Finish
<1>5. CASE Symbolic \/ Panic
  BY <1>5 DEF Symbolic, Panic
<1>6. CASE DropTaskShare \/ DropTx
  BY <1>6 DEF DropTaskShare, DropTx, TaskAt
<1>7. CASE Yield \/ Join \/ HangUp
  BY <1>7 DEF Yield, Join, HangUp
<1>8. CASE DropStreamShare \/ DropRx
  BY <1>8 DEF DropStreamShare, DropRx
<1>9. CASE UNCHANGED vars
  BY <1>9 DEF vars
<1>10. QED
  BY <1>1, <1>2, <1>3, <1>4, <1>5, <1>6, <1>7, <1>8, <1>9
     DEF Next, TaskStep, Drain, StreamDrop

LEMMA SharedAlways == Spec => []Shared
<1>1. Init => Shared
  BY DEF Init, Shared
<1>2. QED
  BY <1>1, SharedStep, PTL DEF Spec

\* The guard is alive while the task works and while a stream that is still read
\* may hold batches, for every model: the memory of either stays admitted.
THEOREM StreamingGuardCovers == Spec => []GuardCovers
<1>1. Shared => GuardCovers
  BY DEF Shared, GuardCovers
<1>2. QED
  BY <1>1, SharedAlways, PTL
-----------------------------------------------------------------------------
LEMMA LastChunkStep == TypeOK /\ LastChunk /\ [Next]_vars => LastChunk'
<1> SUFFICES ASSUME TypeOK, LastChunk, [Next]_vars PROVE LastChunk'
  OBVIOUS
<1> USE DEF LastChunk, Closed
<1>1. CASE MeshChunk
  <2>1. lateMeshed = 0
    BY <1>1 DEF MeshChunk
  <2>2. CASE Closed /\ Made(processed') > emitted
    <3>1. lateMeshed' = 1 /\ Closed'
      BY <1>1, <2>1, <2>2 DEF MeshChunk
    <3>2. ~ChunkDone'
      <4>1. emitted' = emitted /\ Made(processed)' = Made(processed')
        BY <1>1 DEF MeshChunk, Made
      <4>2. emitted \in Nat /\ Made(processed') \in Nat
        BY <1>1, ChunkWithin, MadeMonotone DEF TypeOK
      <4>3. QED
        BY <2>2, <4>1, <4>2 DEF ChunkDone
    <3>3. QED
      BY <3>1, <3>2
  <2>3. CASE ~(Closed /\ Made(processed') > emitted)
    BY <1>1, <2>1, <2>3 DEF MeshChunk
  <2>4. QED
    BY <2>2, <2>3
<1>2. CASE OnBatch
  BY <1>2 DEF OnBatch, Callback, Refuse
<1>3. CASE SendEvent \/ Finish \/ Symbolic \/ Panic
  BY <1>3 DEF SendEvent, Finish, Symbolic, Panic, taskVars, ChunkDone, Made
<1>4. CASE Begin \/ DropTaskShare \/ DropTx
  BY <1>4 DEF Begin, DropTaskShare, DropTx, taskVars, ChunkDone, Made
<1>5. CASE Yield \/ Join \/ HangUp \/ DropStreamShare \/ DropRx
  BY <1>5 DEF Yield, Join, HangUp, DropStreamShare, DropRx, taskVars, ChunkDone, Made
<1>6. CASE UNCHANGED vars
  BY <1>6 DEF vars, taskVars, ChunkDone, Made
<1>7. QED
  BY <1>1, <1>2, <1>3, <1>4, <1>5, <1>6 DEF Next, TaskStep, Drain, StreamDrop

\* After a hang-up at most one more chunk of meshes is made, whatever is left of
\* the model and wherever in its chunk the task was.
THEOREM StreamingLittleWork == Spec => []LittleWorkForNobody
<1>1. Init => LastChunk
  BY DEF Init, LastChunk
<1>2. LastChunk => LittleWorkForNobody
  BY DEF LastChunk, LittleWorkForNobody
<1>3. QED
  BY <1>1, <1>2, LastChunkStep, StreamingTyped, PTL DEF Spec
-----------------------------------------------------------------------------
(* The contract *)

\* The first n events of a log.
Upto(log, n) == [k \in 1..n |-> log[k]]

LEMMA UptoFacts ==
  ASSUME NEW V, NEW log \in Seq(V)
  PROVE  /\ Upto(log, Len(log)) = log
         /\ \A n \in 0..Len(log) : Upto(log, n) \in Seq(V) /\ Len(Upto(log, n)) = n
<1>1. DOMAIN log = 1..Len(log) /\ Len(log) \in Nat /\ log = [k \in DOMAIN log |-> log[k]]
  OBVIOUS
<1>2. Upto(log, Len(log)) = log
  BY <1>1 DEF Upto
<1>3. ASSUME NEW n \in 0..Len(log) PROVE Upto(log, n) \in Seq(V) /\ Len(Upto(log, n)) = n
  <2>1. n \in Nat /\ \A k \in 1..n : log[k] \in V
    BY <1>1
  <2>2. QED
    BY <2>1 DEF Upto
<1>4. QED
  BY <1>2, <1>3

\* One more event leaves the earlier ones as they were.
LEMMA UptoAppend ==
  ASSUME NEW V, NEW log \in Seq(V), NEW e \in V
  PROVE  \A n \in 0..Len(log) : Upto(Append(log, e), n) = Upto(log, n)
<1> SUFFICES ASSUME NEW n \in 0..Len(log) PROVE Upto(Append(log, e), n) = Upto(log, n)
  OBVIOUS
<1>1. \A k \in 1..n : Append(log, e)[k] = log[k]
  OBVIOUS
<1>2. QED
  BY <1>1 DEF Upto

\* The front of a longer log.
LEMMA UptoConcat ==
  ASSUME NEW V, NEW a \in Seq(V), NEW b \in Seq(V)
  PROVE  Upto(a \o b, Len(a)) = a
<1>1. \A k \in 1..Len(a) : (a \o b)[k] = a[k]
  OBVIOUS
<1>2. Upto(a \o b, Len(a)) = Upto(a, Len(a))
  BY <1>1 DEF Upto
<1>3. QED
  BY <1>2, UptoFacts

\* The library operators that the contract is instantiated with are the library's.
LEMMA SameMax == \A S : Contract!Max(S) = Max(S)
BY Zenon DEF Contract!Max, Max

LEMMA SameCardinality == \A S : Contract!Cardinality(S) = Cardinality(S)
BY Zenon DEF Contract!Cardinality, Cardinality

LEMMA SameEnds == \A s : Contract!Front(s) = Front(s) /\ Contract!Last(s) = Last(s)
BY Zenon DEF Contract!Front, Front, Contract!Last, Last

\* What a log amounts to, event by event.
LEMMA EmptyLog ==
  /\ ~Contract!Ended(<<>>) /\ Contract!Batches(<<>>) = 0
  /\ Contract!Meshes(<<>>) = 0 /\ Contract!Processed(<<>>) = 0
<1>1. \A k : Contract!At(<<>>, k) = {}
  BY DEF Contract!At
<1>2. QED
  BY <1>1, FS_EmptySet, SameCardinality
     DEF Contract!Ended, Contract!Batches, Contract!Meshes, Contract!Processed

\* Where the events of a kind are after one more event.
LEMMA PlacesAppend ==
  ASSUME NEW log \in Seq(Events), NEW e \in Events, NEW k
  PROVE  /\ Contract!At(log, k) \in SUBSET (1..Len(log))
         /\ e.kind = k => Contract!At(Append(log, e), k) = Contract!At(log, k) \cup {Len(log) + 1}
         /\ e.kind # k => Contract!At(Append(log, e), k) = Contract!At(log, k)
<1> DEFINE a == Append(log, e)
           n == Len(log)
<1>1. /\ n \in Nat /\ Len(a) = n + 1 /\ a[n + 1] = e /\ \A i \in 1..n : a[i] = log[i]
      /\ DOMAIN a = 1..(n + 1) /\ DOMAIN log = 1..n
  OBVIOUS
<1>2. /\ \A i \in 1..(n + 1) : i \in 1..n \/ i = n + 1
      /\ \A i \in 1..n : i \in 1..(n + 1)
      /\ n + 1 \in 1..(n + 1) /\ n + 1 \notin 1..n
  BY <1>1
<1> HIDE DEF a, n
<1>3. Contract!At(log, k) \in SUBSET (1..n)
  BY <1>1 DEF Contract!At
<1>4. e.kind = k => Contract!At(a, k) = Contract!At(log, k) \cup {n + 1}
  BY <1>1, <1>2 DEF Contract!At
<1>5. e.kind # k => Contract!At(a, k) = Contract!At(log, k)
  BY <1>1, <1>2 DEF Contract!At
<1>6. QED
  BY <1>3, <1>4, <1>5 DEF a, n

\* What one more event adds to what a log says.
LEMMA AppendLog ==
  ASSUME NEW log \in Seq(Events), NEW e \in Events
  PROVE  LET a == Append(log, e)
         IN  /\ a \in Seq(Events) /\ a # <<>>
             /\ Contract!Ended(a) <=> e.kind \in {"complete", "error"}
             /\ Contract!Batches(a) = Contract!Batches(log) + IF e.kind = "batch" THEN 1 ELSE 0
             /\ Contract!Meshes(a) = IF e.kind = "batch" THEN e.last ELSE Contract!Meshes(log)
             /\ Contract!Processed(a) = IF e.kind = "progress" THEN e.processed ELSE Contract!Processed(log)
<1> DEFINE a == Append(log, e)
           n == Len(log)
<1>1. a \in Seq(Events) /\ a # <<>>
  <2>1. a \in Seq(Events) /\ Len(a) # 0
    OBVIOUS
  <2>2. QED
    BY <2>1, EmptySeq
<1>2. /\ n \in Nat /\ Len(a) = n + 1 /\ a[n + 1] = e /\ \A i \in 1..n : a[i] = log[i]
      /\ \A k : /\ Contract!At(log, k) \in SUBSET (1..n)
                /\ e.kind = k => Contract!At(a, k) = Contract!At(log, k) \cup {n + 1}
                /\ e.kind # k => Contract!At(a, k) = Contract!At(log, k)
  <2>1. n \in Nat /\ Len(a) = n + 1 /\ a[n + 1] = e /\ \A i \in 1..n : a[i] = log[i]
    OBVIOUS
  <2>2. ASSUME NEW k
        PROVE  /\ Contract!At(log, k) \in SUBSET (1..n)
               /\ e.kind = k => Contract!At(a, k) = Contract!At(log, k) \cup {n + 1}
               /\ e.kind # k => Contract!At(a, k) = Contract!At(log, k)
    BY PlacesAppend
  <2> HIDE DEF a, n
  <2>3. QED
    BY <2>1, <2>2
<1> HIDE DEF a, n
<1>3. ASSUME NEW k, e.kind = k
      PROVE  /\ Contract!At(a, k) # {} /\ Max(Contract!At(a, k)) = n + 1
             /\ Cardinality(Contract!At(a, k)) = Cardinality(Contract!At(log, k)) + 1
  <2> DEFINE S == Contract!At(log, k)
             W == Contract!At(a, k)
  <2>1. S \in SUBSET (1..n) /\ W = S \cup {n + 1}
    BY <1>2, <1>3
  <2>2. n + 1 \in Nat /\ W \in SUBSET (0..(n + 1)) /\ W # {} /\ n + 1 \in W /\ \A m \in W : m <= n + 1
    BY <1>2, <2>1
  <2> HIDE DEF S, W
  <2>3. Max(W) \in W /\ \A m \in W : m <= Max(W)
    BY <2>2, MaxIn
  <2> DEFINE x == Max(W)
  <2> HIDE DEF x
  <2>9. x \in W /\ \A m \in W : m <= x
    BY <2>3 DEF x
  <2>10. x = n + 1
    BY <1>2, <2>2, <2>9
  <2>4. Max(W) = n + 1
    BY <2>10 DEF x
  <2>5. IsFiniteSet(S)
    <3>1. IsFiniteSet(1..n)
      BY <1>2, FS_Interval
    <3>2. QED
      BY <2>1, <3>1, FS_Subset
  <2>6. n + 1 \notin S
    BY <1>2, <2>1
  <2>7. Cardinality(W) = Cardinality(S) + 1
    BY <2>1, <2>5, <2>6, FS_AddElement
  <2>8. QED
    BY <2>2, <2>4, <2>7 DEF S, W
<1>4. ASSUME NEW k, Contract!At(log, k) # {}
      PROVE  a[Max(Contract!At(log, k))] = log[Max(Contract!At(log, k))]
  <2> DEFINE S == Contract!At(log, k)
  <2>1. S \in SUBSET (1..n) /\ S \in SUBSET (0..n) /\ S # {}
    BY <1>2, <1>4
  <2> HIDE DEF S
  <2>2. Max(S) \in 1..n
    BY <1>2, <2>1, MaxIn
  <2>3. QED
    BY <1>2, <2>2 DEF S
<1>5. Contract!Ended(a) <=> e.kind \in {"complete", "error"}
  BY <1>1, <1>2 DEF Contract!Ended
<1>6. Contract!Batches(a) = Contract!Batches(log) + IF e.kind = "batch" THEN 1 ELSE 0
  <2>1. Cardinality(Contract!At(log, "batch")) \in Nat
    <3>1. IsFiniteSet(1..n)
      BY <1>2, FS_Interval
    <3>2. QED
      BY <1>2, <3>1, FS_Subset, FS_CardinalityType
  <2>2. QED
    BY <1>2, <1>3, <2>1, SameCardinality DEF Contract!Batches
<1>7. Contract!Meshes(a) = IF e.kind = "batch" THEN e.last ELSE Contract!Meshes(log)
  BY <1>2, <1>3, <1>4, SameMax DEF Contract!Meshes
<1>8. Contract!Processed(a) = IF e.kind = "progress" THEN e.processed ELSE Contract!Processed(log)
  BY <1>2, <1>3, <1>4, SameMax DEF Contract!Processed
<1>9. QED
  BY <1>1, <1>5, <1>6, <1>7, <1>8 DEF a

\* Each event of a log of a model of m meshes may come after those before it.
WellFormed(m, log) ==
    \A n \in 1..Len(log) :
        ~Contract!Ended(Upto(log, n - 1)) /\ Contract!Follows(m, Upto(log, n - 1), log[n])

\* A log grows by an event that may come next.
LEMMA WellFormedAppend ==
  ASSUME NEW m, NEW log \in Seq(Events), NEW e \in Events,
         WellFormed(m, log), ~Contract!Ended(log), Contract!Follows(m, log, e)
  PROVE  WellFormed(m, Append(log, e))
<1> DEFINE a == Append(log, e)
<1>1. Len(log) \in Nat /\ Len(a) = Len(log) + 1 /\ a[Len(log) + 1] = e
      /\ \A n \in 1..Len(log) : a[n] = log[n]
  OBVIOUS
<1> SUFFICES ASSUME NEW n \in 1..(Len(log) + 1)
             PROVE  ~Contract!Ended(Upto(a, n - 1)) /\ Contract!Follows(m, Upto(a, n - 1), a[n])
  BY <1>1 DEF WellFormed
<1>2. n - 1 \in 0..Len(log)
  BY <1>1
<1>3. Upto(a, n - 1) = Upto(log, n - 1)
  BY <1>2, UptoAppend
<1> HIDE DEF a
<1>4. CASE n \in 1..Len(log)
  BY <1>1, <1>3, <1>4 DEF WellFormed
<1>5. CASE n = Len(log) + 1
  <2>1. n - 1 = Len(log) /\ Upto(log, n - 1) = log
    BY <1>1, <1>5, UptoFacts
  <2>2. QED
    BY <1>1, <1>3, <1>5, <2>1
<1>6. QED
  BY <1>1, <1>4, <1>5

\* What a log says of its first events and of the one after them.
LEMMA WellFormedNext ==
  ASSUME NEW m, NEW a \in Seq(Events), NEW b \in Seq(Events), b # <<>>, WellFormed(m, a \o b)
  PROVE  ~Contract!Ended(a) /\ Contract!Follows(m, a, Head(b))
<1> DEFINE n == Len(a) + 1
           c == a \o b
<1>1. n \in 1..Len(c) /\ n - 1 = Len(a) /\ c[n] = Head(b)
  OBVIOUS
<1>2. Upto(c, n - 1) = a
  BY <1>1, UptoConcat
<1> HIDE DEF n, c
<1>3. ~Contract!Ended(Upto(c, n - 1)) /\ Contract!Follows(m, Upto(c, n - 1), c[n])
  BY <1>1 DEF WellFormed, c
<1>4. QED
  BY <1>1, <1>2, <1>3

\* All that was sent, is in the channel or is about to be sent.
Log == (seen \o chan) \o outbox

\* While the response is open its log is one the contract allows, and says what
\* the task's counters say.
Bridged ==
    /\ stream = "open" =>
         /\ ~cancel
         /\ WellFormed(Made(Jobs), Log)
         /\ Contract!Batches(Log) = batchNumber
         /\ Contract!Meshes(Log) = emitted
         /\ Contract!Processed(Log) \in 0..processed
         /\ task \in {"queued", "loop"} => (started <=> Log # <<>>) /\ ~Contract!Ended(Log)
         /\ task = "symbolic" => Log # <<>> /\ ~Contract!Ended(Log) /\ emitted = Made(Jobs)
         /\ panicked => ~Contract!Ended(Log)
    /\ panicked => task \in {"drop", "dropTx", "done"}
    /\ task \in {"dropTx", "done"} => outbox = <<>>

\* A log that may go on, and what it says so far.
Goes(m, log, number, handed, done) ==
    /\ log \in Seq(Events) /\ WellFormed(m, log) /\ ~Contract!Ended(log)
    /\ Contract!Batches(log) = number /\ Contract!Meshes(log) = handed
    /\ Contract!Processed(log) \in 0..done

\* Nothing was sent.
LEMMA EmptyGoes == \A m : Goes(m, <<>>, 0, 0, 0)
<1>1. \A m : WellFormed(m, <<>>)
  BY DEF WellFormed
<1>2. <<>> \in Seq(Events)
  OBVIOUS
<1>3. QED
  BY <1>1, <1>2, EmptyLog DEF Goes

\* The stream is opened with start and the first progress.
LEMMA OpenedGoes ==
  ASSUME NEW m, NEW q \in Nat
  PROVE  LET log == Append(Append(<<>>, Start(q)), Progress(0))
         IN  log # <<>> /\ Goes(m, log, 0, 0, 0)
<1> DEFINE a == Append(<<>>, Start(q))
           b == Append(a, Progress(0))
<1>1. <<>> \in Seq(Events) /\ Start(q) \in Events /\ Progress(0) \in Events
  BY EventTypes
<1>2. Goes(m, <<>>, 0, 0, 0)
  BY EmptyGoes
<1>3. Contract!Follows(m, <<>>, Start(q))
  BY DEF Contract!Follows, Start
<1>4. a \in Seq(Events) /\ a # <<>> /\ WellFormed(m, a)
  BY <1>1, <1>2, <1>3, AppendLog, WellFormedAppend DEF Goes
<1>5. ~Contract!Ended(a) /\ Contract!Batches(a) = 0 /\ Contract!Meshes(a) = 0 /\ Contract!Processed(a) = 0
  <2> DEFINE z == <<>>
             s == Start(q)
  <2>1. s.kind = "start"
    BY DEF Start
  <2>2. z \in Seq(Events) /\ s \in Events /\ a = Append(z, s)
    BY <1>1
  <2>3. Contract!Batches(z) = 0 /\ Contract!Meshes(z) = 0 /\ Contract!Processed(z) = 0
    BY EmptyLog
  <2> HIDE DEF z, s, a
  <2>4. QED
    BY <2>1, <2>2, <2>3, AppendLog
<1> HIDE DEF a
<1>6. Contract!Follows(m, a, Progress(0))
  BY <1>4, <1>5 DEF Contract!Follows, Progress
<1>7. b \in Seq(Events) /\ b # <<>> /\ WellFormed(m, b)
  BY <1>1, <1>4, <1>5, <1>6, AppendLog, WellFormedAppend
<1>8. ~Contract!Ended(b) /\ Contract!Batches(b) = 0 /\ Contract!Meshes(b) = 0 /\ Contract!Processed(b) = 0
  <2>1. Progress(0).kind = "progress" /\ Progress(0).processed = 0
    BY DEF Progress
  <2>2. QED
    BY <1>1, <1>4, <1>5, <2>1, AppendLog
<1>9. QED
  BY <1>7, <1>8 DEF Goes, a

\* A batch and its progress.
LEMMA BatchGoes ==
  ASSUME NEW m, NEW log, log # <<>>, NEW n \in Nat, NEW k \in Nat, NEW u \in Nat, k < u,
         NEW p \in Nat, Goes(m, log, n, k, p)
  PROVE  LET grown == Append(Append(log, Batch(n + 1, k + 1, u)), Progress(p))
         IN  grown # <<>> /\ Goes(m, grown, n + 1, u, p)
<1> DEFINE e == Batch(n + 1, k + 1, u)
           a == Append(log, e)
           b == Append(a, Progress(p))
<1>1. log \in Seq(Events) /\ e \in Events /\ Progress(p) \in Events
  BY EventTypes DEF Goes
<1>2. e.kind = "batch" /\ e.number = n + 1 /\ e.first = k + 1 /\ e.last = u
  BY DEF Batch
<1>3. Progress(p).kind = "progress" /\ Progress(p).processed = p
  BY DEF Progress
<1> HIDE DEF e
<1>4. Contract!Follows(m, log, e)
  BY <1>2 DEF Contract!Follows, Goes
<1>5. a \in Seq(Events) /\ a # <<>> /\ WellFormed(m, a)
  BY <1>1, <1>4, AppendLog, WellFormedAppend DEF Goes
<1>6. ~Contract!Ended(a) /\ Contract!Batches(a) = n + 1 /\ Contract!Meshes(a) = u /\ Contract!Processed(a) \in 0..p
  BY <1>1, <1>2, AppendLog DEF Goes
<1> HIDE DEF a
<1>7. Contract!Follows(m, a, Progress(p))
  BY <1>3, <1>5, <1>6 DEF Contract!Follows
<1>8. b \in Seq(Events) /\ b # <<>> /\ WellFormed(m, b)
  BY <1>1, <1>5, <1>6, <1>7, AppendLog, WellFormedAppend
<1>9. ~Contract!Ended(b) /\ Contract!Batches(b) = n + 1 /\ Contract!Meshes(b) = u /\ Contract!Processed(b) = p
  BY <1>1, <1>3, <1>5, <1>6, AppendLog
<1>10. QED
  BY <1>8, <1>9 DEF Goes, a, e

\* The log as long as nothing is sent, forwarded or delivered.
LEMMA LogStays ==
  ASSUME TypeOK, Bridged, UNCHANGED <<model, chan, seen, emitted, started, batchNumber, cancel>>,
         processed' \in Nat, processed <= processed', outbox' = outbox,
         stream' = stream
  PROVE  /\ Log' = Log /\ Made(Jobs)' = Made(Jobs)
         /\ stream' = "open" =>
              /\ ~cancel' /\ WellFormed(Made(Jobs)', Log')
              /\ Contract!Batches(Log') = batchNumber' /\ Contract!Meshes(Log') = emitted'
              /\ Contract!Processed(Log') \in 0..processed'
<1>1. Log' = Log /\ Made(Jobs)' = Made(Jobs)
  BY DEF Log, Made, Jobs
<1>2. processed \in Nat
  BY ModelsAssumption DEF TypeOK, Jobs
<1>3. QED
  BY <1>1, <1>2 DEF Bridged

\* The types of the log and of its parts.
LEMMA LogTyped ==
  ASSUME TypeOK
  PROVE  /\ Log \in Seq(Events) /\ seen \in Seq(Events) /\ chan \in Seq(Events) /\ outbox \in Seq(Events)
         /\ seen \o chan \in Seq(Events)
         /\ batchNumber \in Nat /\ emitted \in Nat /\ processed \in Nat /\ Jobs \in Nat
         /\ outbox = <<>> => Log = seen \o chan
<1>1. seen \in Seq(Events) /\ chan \in Seq(Events) /\ outbox \in Seq(Events) /\ batchNumber \in Nat
  BY DEF TypeOK
<1>2. Jobs \in Nat /\ processed \in 0..Jobs
  BY ModelsAssumption DEF TypeOK, Jobs
<1>3. Made(processed) \in Nat
  BY <1>2, MadeMonotone DEF TypeOK
<1>4. emitted \in Nat
  BY <1>3 DEF TypeOK
<1>5. seen \o chan \in Seq(Events) /\ Log \in Seq(Events)
  BY <1>1 DEF Log
<1>6. outbox = <<>> => Log = seen \o chan
  BY <1>5 DEF Log
<1>7. QED
  BY <1>1, <1>2, <1>4, <1>5, <1>6

\* Steps of the task that send nothing.
LEMMA MeshChunkBridged ==
  ASSUME TypeOK, Bridged, Begin \/ MeshChunk \/ DropTaskShare \/ DropTx
  PROVE  Bridged'
<1>1. /\ UNCHANGED <<model, chan, seen, emitted, started, batchNumber, cancel, panicked>>
      /\ processed' \in Nat /\ processed <= processed' /\ outbox' = outbox /\ stream' = stream
  <2>1. CASE MeshChunk
    <3>1. processed' \in 0..Jobs /\ processed < processed' /\ Jobs \in Nat
      BY <2>1, ChunkWithin, LogTyped
    <3>2. QED
      BY <2>1, <3>1, LogTyped DEF MeshChunk
  <2>2. CASE Begin \/ DropTaskShare \/ DropTx
    BY <2>2, LogTyped DEF Begin, DropTaskShare, DropTx, TaskAt, taskVars
  <2>3. QED
    BY <2>1, <2>2
<1>2. /\ Log' = Log /\ Made(Jobs)' = Made(Jobs)
      /\ stream' = "open" =>
           /\ ~cancel' /\ WellFormed(Made(Jobs)', Log')
           /\ Contract!Batches(Log') = batchNumber' /\ Contract!Meshes(Log') = emitted'
           /\ Contract!Processed(Log') \in 0..processed'
  BY <1>1, LogStays
<1>3. /\ task' # "symbolic" /\ task' # "queued"
      /\ task' = "loop" => task \in {"queued", "loop"}
      /\ task' = "loop" <=> task \in {"queued", "loop"}
      /\ task' \in {"dropTx", "done"} => outbox = <<>>
  BY DEF Begin, MeshChunk, DropTaskShare, DropTx, TaskAt
<1>4. panicked' => task' \in {"drop", "dropTx", "done"}
  BY <1>1 DEF Bridged, Begin, MeshChunk, DropTaskShare, DropTx, TaskAt
<1>5. QED
  BY <1>1, <1>2, <1>3, <1>4 DEF Bridged

\* A callback forwards a batch, after start if it is the first.
LEMMA OnBatchBridged ==
  ASSUME TypeOK, Bridged, OnBatch
  PROVE  Bridged'
<1>1. /\ task = "loop" /\ task' = "loop" /\ outbox = <<>>
      /\ UNCHANGED <<model, processed, panicked, chan, stream, seen>>
      /\ IF Closed THEN Refuse ELSE Forward
  BY DEF OnBatch, Callback, TaskAt
<1>2. ~panicked'
  BY <1>1 DEF Bridged
<1>3. CASE stream # "open"
  BY <1>1, <1>2, <1>3 DEF Bridged
<1>4. CASE stream = "open"
  <2> DEFINE m == Made(Jobs)
             b == batchNumber
             u == emitted'
  <2>1. /\ started' = TRUE /\ batchNumber' = b + 1 /\ cancel' = cancel
        /\ outbox' = (IF started THEN <<>> ELSE <<Start(Jobs), Progress(0)>>)
                     \o <<Batch(b + 1, emitted + 1, u), Progress(processed)>>
    BY <1>1, <1>4 DEF Closed, Forward
  <2>2. /\ Log \in Seq(Events) /\ b \in Nat /\ emitted \in Nat /\ processed \in Nat /\ Jobs \in Nat
        /\ Log = seen \o chan
    BY <1>1, LogTyped
  <2>3. u \in Nat /\ emitted < u
    <3>1. u \in 0..Made(processed) /\ emitted < u
      BY SliceWithin
    <3>2. QED
      BY <3>1
  <2>4. /\ started <=> Log # <<>>
        /\ Goes(m, Log, b, emitted, processed) /\ ~cancel
    BY <1>1, <1>4, <2>2 DEF Bridged, Goes
  <2> DEFINE e == Batch(b + 1, emitted + 1, u)
             p == Progress(processed)
             s == Start(Jobs)
             z == Progress(0)
             opened == IF started THEN Log ELSE Append(Append(<<>>, s), z)
  <2>5. e \in Events /\ p \in Events /\ s \in Events /\ z \in Events
    BY <2>2, <2>3, EventTypes
  <2>6. opened # <<>> /\ Goes(m, opened, b, emitted, processed)
    <3>1. CASE started
      BY <2>4, <3>1
    <3>2. CASE ~started
      <4>1. opened # <<>> /\ Goes(m, opened, 0, 0, 0)
        BY <2>2, <3>2, OpenedGoes
      <4>2. b = 0 /\ emitted = 0
        BY <2>4, <3>2, EmptyLog DEF Goes
      <4>3. QED
        BY <2>2, <4>1, <4>2 DEF Goes
    <3>3. QED
      BY <3>1, <3>2
  <2>7. Append(Append(opened, e), p) # <<>> /\ Goes(m, Append(Append(opened, e), p), b + 1, u, processed)
    <3> HIDE DEF opened, m
    <3>1. QED
      BY <2>2, <2>3, <2>6, BatchGoes
  <2>8. Log' = Append(Append(opened, e), p)
    <3>1. Log' = Log \o outbox'
      BY <1>1, <2>2 DEF Log
    <3> HIDE DEF e, p, s, z
    <3>2. CASE started
      <4>1. outbox' = <<e, p>>
        BY <2>1, <2>5, <3>2 DEF e, p
      <4>2. Log \o <<e, p>> = Append(Append(Log, e), p)
        BY <2>2, <2>5, AppendTwo
      <4>3. QED
        BY <3>1, <3>2, <4>1, <4>2, Zenon
    <3>3. CASE ~started
      <4>1. outbox' = <<s, z>> \o <<e, p>> /\ <<s, z>> \in Seq(Events)
        BY <2>1, <2>5, <3>3 DEF e, p, s, z
      <4>2. Log' = <<s, z>> \o <<e, p>>
        BY <2>4, <2>5, <3>1, <3>3, <4>1
      <4>3. <<s, z>> = Append(Append(<<>>, s), z)
        BY <2>5
      <4>4. <<s, z>> \o <<e, p>> = Append(Append(<<s, z>>, e), p)
        BY <2>5, <4>1, AppendTwo
      <4>5. QED
        BY <3>3, <4>2, <4>3, <4>4
    <3>4. QED
      BY <3>2, <3>3
  <2>9. Made(Jobs)' = m
    BY <1>1 DEF Made, Jobs
  <2>10. /\ Log' # <<>> /\ Goes(Made(Jobs)', Log', batchNumber', emitted', processed')
    BY <1>1, <2>1, <2>7, <2>8, <2>9
  <2>11. QED
    BY <1>1, <1>2, <2>1, <2>4, <2>10 DEF Bridged, Goes
<1>5. QED
  BY <1>3, <1>4

\* A send moves an event into the channel.
LEMMA SendEventBridged ==
  ASSUME TypeOK, Bridged, SendEvent
  PROVE  Bridged'
<1>1. /\ outbox # <<>> /\ outbox' = Tail(outbox)
      /\ UNCHANGED <<model, task, taskVars, stream, seen>>
      /\ stream = "open" => chan' = Append(chan, Head(outbox))
  BY DEF SendEvent, Closed
<1>2. task \notin {"dropTx", "done"}
  BY <1>1 DEF Bridged
<1>3. CASE stream # "open"
  BY <1>1, <1>2, <1>3 DEF Bridged, taskVars
<1>4. CASE stream = "open"
  <2>1. seen \in Seq(Events) /\ chan \in Seq(Events) /\ outbox \in Seq(Events)
        /\ seen \o chan \in Seq(Events)
    BY LogTyped
  <2>2. Head(outbox) \in Events
    BY <1>1, <2>1
  <2>3. seen \o Append(chan, Head(outbox)) = Append(seen \o chan, Head(outbox))
    <3>1. \A e \in Events : seen \o Append(chan, e) = Append(seen \o chan, e)
      BY <2>1, AppendThrough
    <3>2. QED
      BY <2>2, <3>1
  <2>4. Append(seen \o chan, Head(outbox)) \o Tail(outbox) = (seen \o chan) \o outbox
    BY <1>1, <2>1, MoveOne
  <2>5. Log' = Log
    BY <1>1, <1>4, <2>3, <2>4 DEF Log
  <2>6. Made(Jobs)' = Made(Jobs)
    BY <1>1 DEF Made, Jobs
  <2>7. QED
    BY <1>1, <1>2, <2>5, <2>6 DEF Bridged, taskVars
<1>5. QED
  BY <1>3, <1>4

\* The loop ends with start sent, and every mesh of the model handed over.
LEMMA FinishBridged ==
  ASSUME TypeOK, Bridged, Finish
  PROVE  Bridged'
<1>1. /\ task = "loop" /\ outbox = <<>> /\ ChunkDone /\ (processed = Jobs \/ cancel)
      /\ UNCHANGED <<model, processed, emitted, batchNumber, cancel, panicked, chan, stream, seen, started>>
      /\ \/ (cancel \/ Closed) /\ task' = "drop" /\ outbox' = outbox
         \/ ~cancel /\ ~Closed /\ task' = "symbolic" /\ outbox' = IF started THEN <<>> ELSE <<Start(0)>>
  BY DEF Finish, taskVars
<1>2. ~panicked'
  BY <1>1 DEF Bridged
<1>3. CASE stream # "open"
  BY <1>1, <1>2, <1>3 DEF Bridged
<1>4. CASE stream = "open"
  <2> DEFINE m == Made(Jobs)
  <2>1. /\ task' = "symbolic" /\ outbox' = IF started THEN <<>> ELSE <<Start(0)>>
        /\ processed = Jobs /\ ~cancel
    BY <1>1, <1>4 DEF Bridged, Closed
  <2>2. /\ Log \in Seq(Events) /\ Log = seen \o chan
        /\ processed \in Nat /\ emitted = Made(Jobs)
    BY <1>1, <2>1, LogTyped DEF ChunkDone
  <2>3. (started <=> Log # <<>>) /\ Goes(m, Log, batchNumber, emitted, processed)
    BY <1>1, <1>4, <2>2 DEF Bridged, Goes
  <2>4. Log' = Log \o outbox'
    BY <1>1, <2>2 DEF Log
  <2>5. Log' # <<>> /\ Goes(m, Log', batchNumber, emitted, processed)
    <3>1. CASE started
      <4>1. outbox' = <<>>
        BY <2>1, <3>1
      <4>2. Log' = Log
        BY <2>2, <2>4, <4>1
      <4>3. QED
        BY <2>3, <3>1, <4>2
    <3>2. CASE ~started
      <4> DEFINE s == Start(0)
                 z == <<>>
                 a == Append(z, s)
      <4>1. Log = z
        BY <2>3, <3>2
      <4>2. s \in Events /\ z \in Seq(Events) /\ s.kind = "start" /\ Goes(m, z, batchNumber, emitted, processed)
        BY <2>3, <4>1, EventTypes DEF Start
      <4>3. Contract!Follows(m, z, s)
        BY <4>2 DEF Contract!Follows
      <4>4. Log' = a
        <5>1. outbox' = <<s>>
          BY <2>1, <3>2
        <5> HIDE DEF s
        <5>2. QED
          BY <2>4, <4>1, <4>2, <5>1
      <4> HIDE DEF s, z
      <4>5. WellFormed(m, a)
        BY <4>2, <4>3, WellFormedAppend DEF Goes
      <4>6. a # <<>> /\ a \in Seq(Events) /\ ~Contract!Ended(a)
            /\ Contract!Batches(a) = Contract!Batches(z) /\ Contract!Meshes(a) = Contract!Meshes(z)
            /\ Contract!Processed(a) = Contract!Processed(z)
        <5>1. Contract!Batches(z) \in Int
          BY <4>2, LogTyped DEF Goes
        <5>2. QED
          BY <4>2, <5>1, AppendLog DEF Goes
      <4>7. QED
        BY <4>2, <4>4, <4>5, <4>6 DEF Goes
    <3>3. QED
      BY <3>1, <3>2
  <2>6. Made(Jobs)' = m
    BY <1>1 DEF Made, Jobs
  <2>7. QED
    BY <1>1, <1>2, <2>1, <2>2, <2>5, <2>6 DEF Bridged, Goes
<1>5. QED
  BY <1>3, <1>4

\* Complete is sent after the last mesh.
LEMMA SymbolicBridged ==
  ASSUME TypeOK, Bridged, Symbolic
  PROVE  Bridged'
<1>1. /\ task = "symbolic" /\ outbox = <<>> /\ task' = "drop" /\ outbox' = <<Complete>>
      /\ UNCHANGED <<model, processed, emitted, batchNumber, cancel, panicked, chan, stream, seen>>
  BY DEF Symbolic, taskVars
<1>2. ~panicked'
  BY <1>1 DEF Bridged
<1>3. CASE stream # "open"
  BY <1>1, <1>2, <1>3 DEF Bridged
<1>4. CASE stream = "open"
  <2> DEFINE m == Made(Jobs)
             c == Complete
             a == Append(Log, c)
  <2>1. /\ Log \in Seq(Events) /\ Log = seen \o chan
        /\ processed \in Nat /\ batchNumber \in Nat
    BY <1>1, LogTyped
  <2>2. /\ Log # <<>> /\ emitted = m /\ ~cancel
        /\ Goes(m, Log, batchNumber, emitted, processed)
    BY <1>1, <1>4, <2>1 DEF Bridged, Goes
  <2>3. c \in Events /\ c.kind = "complete"
    BY EventTypes DEF Complete
  <2>4. Log' = a
    <3>1. Log' = Log \o outbox'
      BY <1>1, <2>1 DEF Log
    <3>2. outbox' = <<c>>
      BY <1>1
    <3> HIDE DEF c
    <3>3. QED
      BY <2>1, <2>3, <3>1, <3>2
  <2> HIDE DEF c
  <2>5. WellFormed(m, a)
    <3>1. Contract!Follows(m, Log, c)
      BY <2>2, <2>3 DEF Contract!Follows, Goes
    <3>2. QED
      BY <2>1, <2>2, <2>3, <3>1, WellFormedAppend DEF Goes
  <2>6. /\ Contract!Batches(a) = batchNumber /\ Contract!Meshes(a) = emitted
        /\ Contract!Processed(a) \in 0..processed
    <3>1. /\ Contract!Batches(a) = Contract!Batches(Log) + IF c.kind = "batch" THEN 1 ELSE 0
          /\ Contract!Meshes(a) = IF c.kind = "batch" THEN c.last ELSE Contract!Meshes(Log)
          /\ Contract!Processed(a) = IF c.kind = "progress" THEN c.processed ELSE Contract!Processed(Log)
      BY <2>1, <2>3, AppendLog
    <3> HIDE DEF a
    <3>2. QED
      BY <2>1, <2>2, <2>3, <3>1 DEF Goes
  <2>7. Made(Jobs)' = m
    BY <1>1 DEF Made, Jobs
  <2>8. QED
    BY <1>1, <1>2, <2>2, <2>4, <2>5, <2>6, <2>7 DEF Bridged
<1>5. QED
  BY <1>3, <1>4

\* A panic sends nothing.
LEMMA PanicBridged ==
  ASSUME TypeOK, Bridged, Panic
  PROVE  Bridged'
<1>1. /\ task \in {"loop", "symbolic"} /\ outbox = <<>> /\ task' = "drop"
      /\ UNCHANGED <<model, outbox, processed, emitted, batchNumber, cancel, chan, stream, seen, started>>
  BY DEF Panic
<1>2. /\ Log' = Log /\ Made(Jobs)' = Made(Jobs)
      /\ stream' = "open" =>
           /\ ~cancel' /\ WellFormed(Made(Jobs)', Log')
           /\ Contract!Batches(Log') = batchNumber' /\ Contract!Meshes(Log') = emitted'
           /\ Contract!Processed(Log') \in 0..processed'
  <2>1. processed' \in Nat /\ processed <= processed'
    BY <1>1, LogTyped
  <2>2. QED
    BY <1>1, <2>1, LogStays
<1>3. QED
  BY <1>1, <1>2 DEF Bridged

\* A delivery moves an event out of the channel.
LEMMA YieldBridged ==
  ASSUME TypeOK, Bridged, Yield
  PROVE  Bridged'
<1>1. /\ chan # <<>> /\ seen' = Append(seen, Head(chan)) /\ chan' = Tail(chan)
      /\ UNCHANGED <<model, task, outbox, taskVars, stream>>
  BY DEF Yield
<1>2. seen' \o chan' = seen \o chan
  BY <1>1, LogTyped, MoveOne
<1>3. Log' = Log
  BY <1>1, <1>2 DEF Log
<1>4. Made(Jobs)' = Made(Jobs)
  BY <1>1 DEF Made, Jobs
<1>5. QED
  BY <1>1, <1>3, <1>4 DEF Bridged, taskVars

\* Every step keeps the log and the counters together.
LEMMA BridgedStep == TypeOK /\ Bridged /\ [Next]_vars => Bridged'
<1> SUFFICES ASSUME TypeOK, Bridged, [Next]_vars PROVE Bridged'
  OBVIOUS
<1>1. CASE Begin \/ MeshChunk \/ DropTaskShare \/ DropTx
  BY <1>1, MeshChunkBridged
<1>2. CASE OnBatch
  BY <1>2, OnBatchBridged
<1>3. CASE SendEvent
  BY <1>3, SendEventBridged
<1>4. CASE Finish
  BY <1>4, FinishBridged
<1>5. CASE Symbolic
  BY <1>5, SymbolicBridged
<1>6. CASE Panic
  BY <1>6, PanicBridged
<1>7. CASE Yield
  BY <1>7, YieldBridged
<1>8. CASE Join \/ HangUp \/ StreamDrop
  <2>1. stream' # "open" /\ UNCHANGED <<panicked, task, outbox>>
    BY <1>8 DEF Join, HangUp, StreamDrop, DropStreamShare, DropRx, taskVars
  <2>2. QED
    BY <2>1 DEF Bridged
<1>9. CASE UNCHANGED vars
  <2>1. Log' = Log /\ Made(Jobs)' = Made(Jobs)
    BY <1>9 DEF vars, Log, Made, Jobs
  <2>2. QED
    BY <1>9, <2>1 DEF vars, taskVars, Bridged
<1>10. QED
  BY <1>1, <1>2, <1>3, <1>4, <1>5, <1>6, <1>7, <1>8, <1>9 DEF Next, TaskStep, Drain

\* Initially nothing was sent.
LEMMA BridgedInit == Init => Bridged
<1> SUFFICES ASSUME Init PROVE Bridged
  OBVIOUS
<1>1. Log = <<>>
  BY DEF Init, Log
<1>2. Goes(Made(Jobs), <<>>, 0, 0, 0)
  BY EmptyGoes
<1>3. QED
  BY <1>1, <1>2 DEF Init, Bridged, Goes

\* So they are together in every behaviour.
LEMMA BridgedAlways == Spec => []Bridged
BY BridgedInit, BridgedStep, StreamingTyped, PTL DEF Spec

\* One event is handed over: the contract's step.
LEMMA HandedOver ==
  ASSUME TypeOK, NEW e \in Events, seen' = Append(seen, e), model' = model,
         ~Contract!Ended(seen), Contract!Follows(Made(Jobs), seen, e)
  PROVE  Contract!Send
<1>1. seen \in Seq(Events) /\ Made(Jobs)' = Made(Jobs)
  BY LogTyped DEF Made, Jobs
<1>2. seen' \in Seq(Events) /\ Len(seen') = Len(seen) + 1 /\ seen'[Len(seen) + 1] = e
      /\ Len(seen) \in Nat /\ \A i \in 1..Len(seen) : seen'[i] = seen[i]
  BY <1>1
<1>3. seen' # <<>> /\ Last(seen') = e
  BY <1>2 DEF Last
<1>4. Front(seen') = seen
  <2> DEFINE f == SubSeq(seen', 1, Len(seen') - 1)
  <2>1. /\ f \in Seq(Events) /\ Len(f) = Len(seen') - 1
        /\ \A k \in 1..(Len(seen') - 1) : f[k] = seen'[k]
    BY <1>2, <1>3, FrontFacts
  <2> HIDE DEF f
  <2>2. Len(f) = Len(seen) /\ \A k \in 1..Len(f) : f[k] = seen[k]
    BY <1>2, <2>1
  <2>3. f = seen
    BY <1>1, <2>1, <2>2, SeqEqual
  <2>4. QED
    BY <2>3 DEF f, Front
<1>5. QED
  BY <1>1, <1>3, <1>4, SameEnds DEF Contract!Send

\* Every step of the bridge is a step of the contract or hands nothing over.
LEMMA StepIsSend ==
  ASSUME TypeOK, Bridged, [Next]_vars
  PROVE  [Contract!Send]_(Contract!eventVars)
<1>1. CASE Yield
  <2>1. /\ stream = "open" /\ chan # <<>> /\ seen' = Append(seen, Head(chan)) /\ model' = model
    BY <1>1 DEF Yield
  <2>2. seen \in Seq(Events) /\ chan \in Seq(Events) /\ outbox \in Seq(Events)
    BY LogTyped
  <2>3. Log = seen \o (chan \o outbox) /\ chan \o outbox \in Seq(Events)
    BY <2>2, ConcatAssociative, SMTT(60) DEF Log
  <2>4. chan \o outbox # <<>> /\ Head(chan \o outbox) = Head(chan) /\ Head(chan) \in Events
    <3>1. Len(chan) >= 1 /\ Len(chan \o outbox) = Len(chan) + Len(outbox) /\ Len(outbox) >= 0
          /\ (chan \o outbox)[1] = chan[1]
      BY <2>1, <2>2
    <3>2. chan \o outbox # <<>>
      BY <2>2, <2>3, <3>1, EmptySeq
    <3>3. Head(chan \o outbox) = (chan \o outbox)[1] /\ Head(chan) = chan[1] /\ chan[1] \in Events
      BY <2>1, <2>2, <2>3, <3>1, <3>2
    <3>4. QED
      BY <3>1, <3>2, <3>3
  <2>5. WellFormed(Made(Jobs), seen \o (chan \o outbox))
    BY <2>1, <2>3 DEF Bridged
  <2>6. ~Contract!Ended(seen) /\ Contract!Follows(Made(Jobs), seen, Head(chan))
    BY <2>2, <2>3, <2>4, <2>5, WellFormedNext
  <2>7. QED
    BY <2>1, <2>4, <2>6, HandedOver
<1>2. CASE Join
  <2>1. /\ stream = "open" /\ chan = <<>> /\ task = "done" /\ model' = model
        /\ seen' = IF panicked THEN Append(seen, Error) ELSE seen
    BY <1>2 DEF Join
  <2>2. Log = seen
    BY <2>1, LogTyped DEF Bridged
  <2>3. CASE panicked
    <3>1. Error \in Events /\ Contract!Follows(Made(Jobs), seen, Error)
      BY EventTypes DEF Contract!Follows, Error
    <3>2. ~Contract!Ended(seen)
      BY <2>1, <2>2, <2>3 DEF Bridged
    <3>3. QED
      BY <2>1, <2>3, <3>1, <3>2, HandedOver
  <2>4. CASE ~panicked
    BY <2>1, <2>4 DEF Contract!eventVars, Made, Jobs
  <2>5. QED
    BY <2>3, <2>4
<1>3. CASE UNCHANGED <<seen, model>>
  BY <1>3 DEF Contract!eventVars, Made, Jobs
<1>4. QED
  BY <1>1, <1>2, <1>3 DEF Next, TaskStep, Drain, StreamDrop, Begin, MeshChunk, OnBatch, Callback,
     SendEvent, Finish, Symbolic, Panic, DropTaskShare, DropTx, HangUp, DropStreamShare, DropRx, vars

\* The bridge implements the contract, for every model, every pair of batch sizes
\* and every order of sends, deliveries, panics and hang-ups: the client sees
\* start first, batches numbered without a gap that hand over every mesh once and
\* in order, complete only after the last mesh, and nothing after complete or
\* error.
THEOREM StreamingKeepsContract == Spec => ContractKept
<1>1. Init => Contract!Init
  <2>1. Init => Made(Jobs) \in Nat /\ seen = <<>>
    <3>1. ASSUME Init PROVE Made(Jobs) \in Nat
      <4>1. Jobs \in 0..Jobs /\ model \in Models
        BY <3>1, ModelsAssumption DEF Init, Jobs
      <4>2. QED
        BY <4>1, MadeMonotone
    <3>2. QED
      BY <3>1 DEF Init
  <2>2. QED
    BY <2>1 DEF Contract!Init
<1>2. TypeOK /\ Bridged /\ [Next]_vars => [Contract!Send]_(Contract!eventVars)
  BY StepIsSend
<1>3. QED
  BY <1>1, <1>2, StreamingTyped, BridgedAlways, PTL DEF Spec, ContractKept, Contract!Spec
=============================================================================
