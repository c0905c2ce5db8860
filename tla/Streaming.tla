----------------------------- MODULE Streaming -----------------------------
(***************************************************************************)
(* apps/server/src/services/streaming.rs: process_streaming bridges the    *)
(* geometry pipeline (the chunk loop of processing/src/processor/mod.rs),  *)
(* which runs as a blocking task, to the response stream the client reads. *)
(* They share an unbounded channel and the admission guard.  The client may *)
(* hang up and the task may panic at any point.                            *)
(*                                                                         *)
(* A model is the sequence of its jobs; its j-th member is the number of   *)
(* meshes the first j jobs produce, so meshes are numbered in the order    *)
(* the pipeline produces them and a batch is an interval.                  *)
(***************************************************************************)
EXTENDS Naturals, Sequences

CONSTANTS
    Models,            \* the models clients upload
    InitialBatchSize,  \* as configured; 0 is raised to 1
    MaxBatchSize

ASSUME ModelsAssumption ==
    /\ Models \subseteq Seq(Nat)
    /\ \A m \in Models : \A i, j \in 1..Len(m) : i <= j => m[i] <= m[j]

ASSUME BatchSizesAssumption ==
    /\ InitialBatchSize \in Nat
    /\ MaxBatchSize \in Nat

VARIABLES
    model,        \* content, the upload being parsed
    task,         \* where the blocking task is
    processed,    \* processed_jobs
    emitted,      \* the meshes handed to the callback so far
    started,      \* the callback's locals
    batchNumber,
    outbox,       \* the events it is about to send
    cancel,       \* the flag the pipeline polls
    panicked,
    chan,         \* the events in the channel
    stream,       \* where the response stream is
    hungUp,       \* the client dropped the stream
    seen,         \* the events the client was sent (history)
    lateChunks,   \* chunks begun with the receiver gone (history)
    lateMeshed,   \* those of them that made meshes (history)
    shares        \* who holds a reference to the admission guard

taskVars == <<processed, emitted, started, batchNumber, cancel, panicked,
              lateChunks, lateMeshed>>

vars == <<model, task, outbox, taskVars, chan, stream, hungUp, seen, shares>>

Jobs == Len(model)
Made(j) == IF j = 0 THEN 0 ELSE model[j]

Smaller(a, b) == IF a < b THEN a ELSE b
Larger(a, b) == IF a > b THEN a ELSE b

FirstSize == Larger(InitialBatchSize, 1)
LaterSize == Larger(MaxBatchSize, FirstSize)

\* The chunk that is next, and the size in which the current one is emitted.
ChunkSize == IF processed = 0 THEN FirstSize ELSE LaterSize
EmitSize == IF processed <= FirstSize THEN FirstSize ELSE LaterSize

Start(n) == [kind |-> "start", estimate |-> n]
Progress(n) == [kind |-> "progress", processed |-> n]
Batch(n, a, b) == [kind |-> "batch", number |-> n, first |-> a, last |-> b]
Complete == [kind |-> "complete"]
Error == [kind |-> "error"]

Events ==
    [kind : {"start"}, estimate : Nat] \cup [kind : {"progress"}, processed : Nat]
    \cup [kind : {"batch"}, number : Nat, first : Nat, last : Nat]
    \cup [kind : {"complete", "error"}]

TypeOK ==
    /\ model \in Models
    /\ task \in {"queued", "loop", "symbolic", "drop", "dropTx", "done"}
    /\ processed \in 0..Jobs
    /\ emitted \in 0..Made(processed)
    /\ started \in BOOLEAN /\ batchNumber \in Nat
    /\ outbox \in Seq(Events)
    /\ cancel \in BOOLEAN /\ panicked \in BOOLEAN
    /\ chan \in Seq(Events)
    /\ stream \in {"open", "closing", "closingRx", "closed"}
    /\ hungUp \in BOOLEAN
    /\ seen \in Seq(Events)
    /\ lateChunks \in Nat /\ lateMeshed \in 0..lateChunks
    /\ shares \subseteq {"task", "stream"}

Init ==
    /\ model \in Models
    /\ task = "queued"
    /\ processed = 0 /\ emitted = 0
    /\ started = FALSE /\ batchNumber = 0
    /\ outbox = <<>>
    /\ cancel = FALSE /\ panicked = FALSE
    /\ chan = <<>>
    /\ stream = "open" /\ hungUp = FALSE
    /\ seen = <<>>
    /\ lateChunks = 0 /\ lateMeshed = 0
    /\ shares = {"task", "stream"}

\* tx.is_closed(), as the task sees it.
Closed == stream = "closed"

ChunkDone == emitted = Made(processed)
-----------------------------------------------------------------------------
(***************************************************************************)
(* The blocking task.  Nothing but a send happens while the outbox is not   *)
(* empty.                                                                  *)
(***************************************************************************)
TaskAt(from, to) == task = from /\ outbox = <<>> /\ task' = to

Begin ==
    /\ TaskAt("queued", "loop")
    /\ UNCHANGED <<model, outbox, taskVars, chan, stream, hungUp, seen, shares>>

\* One round of the pipeline's loop, up to the first callback.
MeshChunk ==
    /\ TaskAt("loop", "loop")
    /\ ChunkDone /\ processed < Jobs /\ ~cancel
    /\ processed' = Smaller(processed + ChunkSize, Jobs)
    /\ lateChunks' = IF Closed THEN lateChunks + 1 ELSE lateChunks
    /\ lateMeshed' = IF Closed /\ Made(processed') > emitted THEN lateMeshed + 1 ELSE lateMeshed
    /\ UNCHANGED <<model, outbox, emitted, started, batchNumber, cancel, panicked,
                   chan, stream, hungUp, seen, shares>>

\* The callback with the receiver gone, and otherwise.
Refuse == cancel' = TRUE /\ UNCHANGED <<outbox, started, batchNumber>>

Forward ==
    /\ started' = TRUE
    /\ batchNumber' = batchNumber + 1
    /\ outbox' = (IF started THEN <<>> ELSE <<Start(Jobs), Progress(0)>>)
                 \o <<Batch(batchNumber + 1, emitted + 1, emitted'), Progress(processed)>>
    /\ UNCHANGED cancel

Callback(refuse, upTo) ==
    /\ TaskAt("loop", "loop")
    /\ ~ChunkDone
    /\ emitted' = upTo
    /\ IF Closed THEN refuse ELSE Forward
    /\ UNCHANGED <<model, processed, panicked, lateChunks, lateMeshed,
                   chan, stream, hungUp, seen, shares>>

\* Mutation: the callback returns without raising the flag.
OnBatchUncancelled ==
    Callback(UNCHANGED <<cancel, outbox, started, batchNumber>>,
             Smaller(emitted + EmitSize, Made(processed)))

\* Mutation: the last slice of a chunk is taken for a full one.
OnBatchOvershoots == Callback(Refuse, emitted + EmitSize)

\* One call of on_batch, for the next slice of the chunk's meshes.
OnBatch == Callback(Refuse, Smaller(emitted + EmitSize, Made(processed)))

\* Mutation: a bounded channel nobody drains, send never returns.
SendBlocks ==
    /\ outbox # <<>> /\ outbox' = Tail(outbox)
    /\ ~Closed /\ chan' = Append(chan, Head(outbox))
    /\ UNCHANGED <<model, task, taskVars, stream, hungUp, seen, shares>>

\* tx.send: never blocks, and fails unnoticed when the receiver is gone.
SendEvent ==
    /\ outbox # <<>> /\ outbox' = Tail(outbox)
    /\ chan' = IF Closed THEN chan ELSE Append(chan, Head(outbox))
    /\ UNCHANGED <<model, task, taskVars, stream, hungUp, seen, shares>>

\* Mutation: no Start for a model without geometry.
FinishUnstarted ==
    /\ task = "loop" /\ outbox = <<>>
    /\ ChunkDone /\ (processed = Jobs \/ cancel)
    /\ IF cancel \/ Closed THEN task' = "drop" ELSE task' = "symbolic"
    /\ UNCHANGED <<model, outbox, taskVars, chan, stream, hungUp, seen, shares>>

\* The loop is left; a client that is gone gets no Complete, and the symbolic
\* extraction is skipped.
Finish ==
    /\ task = "loop" /\ outbox = <<>>
    /\ ChunkDone /\ (processed = Jobs \/ cancel)
    /\ IF cancel \/ Closed
         THEN task' = "drop" /\ UNCHANGED outbox
         ELSE /\ task' = "symbolic"
              /\ outbox' = IF started THEN <<>> ELSE <<Start(0)>>
    /\ UNCHANGED <<model, taskVars, chan, stream, hungUp, seen, shares>>

\* The symbolic extraction ends, Complete is sent.
Symbolic ==
    /\ task = "symbolic" /\ outbox = <<>>
    /\ task' = "drop" /\ outbox' = <<Complete>>
    /\ UNCHANGED <<model, taskVars, chan, stream, hungUp, seen, shares>>

\* The pipeline or the extraction panics: the closure unwinds.
Panic ==
    /\ task \in {"loop", "symbolic"} /\ outbox = <<>>
    /\ task' = "drop" /\ panicked' = TRUE
    /\ UNCHANGED <<model, outbox, processed, emitted, started, batchNumber, cancel,
                   lateChunks, lateMeshed, chan, stream, hungUp, seen, shares>>

\* Mutation: the guard is moved into the task, the stream has no share in it.
DropTaskShareAlone ==
    /\ TaskAt("drop", "dropTx")
    /\ shares' = {}
    /\ UNCHANGED <<model, outbox, taskVars, chan, stream, hungUp, seen>>

\* The closure ends: its share of the guard goes first, then the sender.
DropTaskShare ==
    /\ TaskAt("drop", "dropTx")
    /\ shares' = shares \ {"task"}
    /\ UNCHANGED <<model, outbox, taskVars, chan, stream, hungUp, seen>>

\* Mutation: a clone of the sender survives the task.
DropTxNever ==
    /\ FALSE /\ TaskAt("dropTx", "done")
    /\ UNCHANGED <<model, outbox, taskVars, chan, stream, hungUp, seen, shares>>

DropTx ==
    /\ TaskAt("dropTx", "done")
    /\ UNCHANGED <<model, outbox, taskVars, chan, stream, hungUp, seen, shares>>
-----------------------------------------------------------------------------
(***************************************************************************)
(* The response stream, polled for the client.                             *)
(***************************************************************************)
Yield ==
    /\ stream = "open" /\ chan # <<>>
    /\ seen' = Append(seen, Head(chan))
    /\ chan' = Tail(chan)
    /\ UNCHANGED <<model, task, outbox, taskVars, stream, hungUp, shares>>

\* The channel is drained and closed, the task is joined; if it panicked the
\* client is told.
Join ==
    /\ stream = "open" /\ chan = <<>> /\ task = "done"
    /\ stream' = "closing"
    /\ seen' = IF panicked THEN Append(seen, Error) ELSE seen
    /\ UNCHANGED <<model, task, outbox, taskVars, chan, hungUp, shares>>

\* The client hangs up and the stream is dropped where it is.
HangUp ==
    /\ stream = "open"
    /\ stream' = "closing" /\ hungUp' = TRUE
    /\ UNCHANGED <<model, task, outbox, taskVars, chan, seen, shares>>

\* Its share of the guard goes first, then the receiver and what it holds.
DropStreamShare ==
    /\ stream = "closing" /\ stream' = "closingRx"
    /\ shares' = shares \ {"stream"}
    /\ UNCHANGED <<model, task, outbox, taskVars, chan, hungUp, seen>>

DropRx ==
    /\ stream = "closingRx" /\ stream' = "closed"
    /\ chan' = <<>>
    /\ UNCHANGED <<model, task, outbox, taskVars, hungUp, seen, shares>>

TaskStep ==
    \/ Begin \/ MeshChunk \/ OnBatch \/ SendEvent \/ Finish \/ Symbolic
    \/ Panic \/ DropTaskShare \/ DropTx

Drain == Yield \/ Join

StreamDrop == DropStreamShare \/ DropRx

Next == TaskStep \/ Drain \/ HangUp \/ StreamDrop

Spec == Init /\ [][Next]_vars

(***************************************************************************)
(* Fairness.  The blocking task is a thread and a dropped stream is dropped *)
(* to the end.  A client that reads on is an assumption of its own.        *)
(***************************************************************************)
RunsSpec == Spec /\ WF_vars(TaskStep) /\ WF_vars(StreamDrop)
ClientReads == WF_vars(Drain)
-----------------------------------------------------------------------------
\* The client sees what EventStream promises: start first, batches numbered
\* without a gap, every mesh once, complete only when it has them all.
Contract == INSTANCE EventStream WITH total <- Made(Jobs), events <- seen

ContractKept == Contract!Spec

\* The guard lives as long as the task works and as long as a stream that is
\* still read may hold batches: no other parse is admitted on top of either.
GuardCovers ==
    (task \in {"queued", "loop", "symbolic"} \/ (stream = "open" /\ chan # <<>>))
        => shares # {}

\* After the receiver is gone the pipeline makes at most one more chunk that
\* has meshes, whatever part of the model is left.
LittleWorkForNobody == lateMeshed <= 1

\* streaming.rs on a client that hangs up: "the streaming core stops between
\* chunks instead of meshing the rest of the model for nobody".
StopsBetweenChunks == lateChunks <= 1

\* A client that is gone is noticed: once the stream is closed the task ends
\* and the admission guard is released.
HangUpFreesGuard == stream = "closed" ~> task = "done" /\ shares = {}

\* A client that reads on is served to the end: the stream ends by itself with
\* complete, or with error, and the guard is released.
ReaderIsServed ==
    ClientReads =>
        <>[](/\ stream = "closed" /\ shares = {}
             /\ ~hungUp => seen # <<>> /\ seen[Len(seen)].kind \in {"complete", "error"})
=============================================================================
