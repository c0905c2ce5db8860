---------------------------- MODULE ParseServer ----------------------------
(***************************************************************************)
(* apps/server/src/routes/parse: the parse endpoints, the tasks they leave *)
(* running, the disk cache they fill and the fetch endpoints that read it. *)
(*                                                                         *)
(* A handler is dropped at any await when its client disconnects or the     *)
(* request times out; blocking work and spawned tasks are not.  Admission   *)
(* is its abstract gate, process_streaming is what Streaming shows of it:   *)
(* batches in order, complete after the last one, and a producer that may   *)
(* panic or outlive the client.                                            *)
(***************************************************************************)
EXTENDS Naturals, Sequences, FiniteSets

CONSTANTS
    Requests,
    Keys,          \* request_cache_key: a file with its filter and quality
    Batches,       \* the batches of meshes each of them has
    Kinds,         \* the endpoints that are called
    Slots,         \* of the admission gate
    Units,
    Faults,        \* what may go wrong: "disk", "serialize", "panic"
    MaxCrashes,    \* bound on the restarts of the process
    MaxLost,       \* bound on the entries whose write fails
    Nothing        \* an entry that is not in the cache

Uploads == {"full", "parquet", "optimized", "metadata", "stream", "parquetStream"}
Fetches == {"check", "geometry", "dataModel", "symbolic"}
Streams == {"stream", "parquetStream"}

ASSUME KindsAssumption == Kinds \subseteq Uploads \cup Fetches
ASSUME BatchesAssumption == Batches \in [Keys -> Nat]
ASSUME SlotsAssumption == IsFiniteSet(Slots)
ASSUME CrashesAssumption == MaxCrashes \in Nat
ASSUME NothingAssumption == Nothing \notin [by : Requests, batches : Nat]

Entries == {"json", "blob", "meta", "dm", "sym"}
Threads == {"handler", "fill", "symbolic", "model"}

\* What a kind looks up first, writes before it responds, and leaves to a task.
Reads(k) ==
    CASE k = "full"                                     -> <<"json">>
      [] k \in {"parquet", "parquetStream", "geometry"} -> <<"blob", "meta">>
      [] k = "check"                                    -> <<"blob">>
      [] k = "dataModel"                                -> <<"dm">>
      [] k = "symbolic"                                 -> <<"sym">>
      [] OTHER                                          -> <<>>

InlineWrites(k) ==
    CASE k = "parquet"   -> <<"dm", "sym">>
      [] k = "optimized" -> <<"sym">>
      [] OTHER           -> <<>>

\* Mutation: the metadata is written before the geometry.
FillWritesMetaFirst(k) ==
    CASE k = "full"                          -> <<"sym", "json">>
      [] k \in {"parquet", "parquetStream"}  -> <<"meta", "blob">>
      [] OTHER                               -> <<>>

FillWrites(k) ==
    CASE k = "full"                          -> <<"sym", "json">>
      [] k \in {"parquet", "parquetStream"}  -> <<"blob", "meta">>
      [] OTHER                               -> <<>>

VARIABLES
    kind, key,     \* what was asked
    pc,            \* where the handler, then its response stream, is
    found,         \* what it read from the cache, until it goes its own way
    answer,        \* what its handler or stream told the client
    work,          \* the blocking task: "none", "running", "done", "panicked"
    polled,        \* batches the response stream was polled for
    rows,          \* of those, appended to the cache writer
    writer,        \* there is a cache writer
    todo,          \* the entries each thread of the request still writes
    model,         \* the data-model task
    cache,         \* the disk cache
    lost,          \* the entries a write failed for (history)
    crashes,
    inside, settled, slot, share   \* of the gate

request == <<kind, key>>
streamVars == <<polled, rows, writer>>
diskVars == <<cache, lost, crashes>>
gateVars == <<inside, settled, slot, share>>
vars == <<request, pc, found, answer, work, streamVars, todo, model, diskVars, gateVars>>

Jobs == Requests \X {"parse", "model"}

Gate == INSTANCE AdmissionGate WITH Requests <- Jobs

Values == [by : Requests, batches : Nat]

TypeOK ==
    /\ kind \in [Requests -> Kinds \cup {"none"}]
    /\ key \in [Requests -> Keys \cup {Nothing}]
    /\ pc \in [Requests -> {"idle", "acquire", "extract", "read", "readSym", "work",
                            "write", "stream", "drained", "gone"}]
    /\ found \in [Requests -> Seq(Values \cup {Nothing})]
    /\ answer \in [Requests -> {"none", "busy", "bad", "fail", "hit", "missing",
                                "replay", "bare", "fresh", "error"}]
    /\ work \in [Requests -> {"none", "running", "done", "panicked"}]
    /\ polled \in [Requests -> Nat]
    /\ \A r \in Requests : key[r] \in Keys => polled[r] <= Batches[key[r]]
    /\ rows \in [Requests -> Nat]
    /\ writer \in [Requests -> BOOLEAN]
    /\ todo \in [Requests -> [Threads -> Seq(Entries)]]
    /\ model \in [Requests -> {"none", "acquire", "extract", "write", "done"}]
    /\ cache \in [Keys -> [Entries -> Values \cup {Nothing}]]
    /\ lost \subseteq Keys \X Entries
    /\ crashes \in 0..MaxCrashes
    /\ inside \subseteq Jobs /\ settled \subseteq Jobs
    /\ slot \in [Jobs -> SUBSET Slots] /\ share \in [Jobs -> SUBSET Units]

NoWrites == [t \in Threads |-> <<>>]

Init ==
    /\ kind = [r \in Requests |-> "none"]
    /\ key = [r \in Requests |-> Nothing]
    /\ pc = [r \in Requests |-> "idle"]
    /\ found = [r \in Requests |-> <<>>]
    /\ answer = [r \in Requests |-> "none"]
    /\ work = [r \in Requests |-> "none"]
    /\ polled = [r \in Requests |-> 0]
    /\ rows = [r \in Requests |-> 0]
    /\ writer = [r \in Requests |-> FALSE]
    /\ todo = [r \in Requests |-> NoWrites]
    /\ model = [r \in Requests |-> "none"]
    /\ cache = [k \in Keys |-> [e \in Entries |-> Nothing]]
    /\ lost = {} /\ crashes = 0
    /\ Gate!Init
-----------------------------------------------------------------------------
At(r, from) == pc[r] = from
Goto(r, to) == pc' = [pc EXCEPT ![r] = to]

\* The handler or its stream is over, its locals are dropped; the client saw a.
End(r, a) ==
    /\ Goto(r, "gone")
    /\ answer' = [answer EXCEPT ![r] = a]
    /\ found' = [found EXCEPT ![r] = <<>>]
    /\ polled' = [polled EXCEPT ![r] = 0]

\* A returning or dropped handler drops the guard it owns; a fetch has none.
DropGuard(r) ==
    IF kind[r] \in Uploads THEN Gate!Leave(<<r, "parse">>) ELSE UNCHANGED gateVars

Assign(r, t, entries) == todo' = [todo EXCEPT ![r][t] = entries]

Arrive(r, k, d) ==
    /\ At(r, "idle")
    /\ kind' = [kind EXCEPT ![r] = k]
    /\ key' = [key EXCEPT ![r] = d]
    /\ Goto(r, IF k \in Uploads THEN "acquire" ELSE "read")
    /\ UNCHANGED <<found, answer, work, streamVars, todo, model, diskVars, gateVars>>

\* admission.acquire(max_file_size).await?
Admitted(r) ==
    /\ At(r, "acquire") /\ Goto(r, "extract")
    /\ Gate!Admit(<<r, "parse">>)
    /\ UNCHANGED <<request, found, answer, work, streamVars, todo, model, diskVars>>

Refused(r) ==
    /\ At(r, "acquire") /\ End(r, "busy")
    /\ Gate!Refuse(<<r, "parse">>)
    /\ UNCHANGED <<request, work, rows, writer, todo, model, diskVars>>

\* extract_file and the query are refused: too large, not an archive, ...
ExtractFails(r) ==
    /\ At(r, "extract") /\ End(r, "bad")
    /\ DropGuard(r)
    /\ UNCHANGED <<request, work, rows, writer, todo, model, diskVars>>

\* The upload is handed to a blocking task: the handler waits for it, or the
\* response stream begins.  The parquet stream gets a writer, if one can be
\* made, and a task that extracts the data model.
Launch(r) ==
    /\ work' = [work EXCEPT ![r] = "running"]
    /\ found' = [found EXCEPT ![r] = <<>>]
    /\ Goto(r, IF kind[r] \in Streams THEN "stream" ELSE "work")
    /\ IF kind[r] = "parquetStream"
         THEN /\ \E ok \in IF "serialize" \in Faults THEN BOOLEAN ELSE {TRUE} :
                    writer' = [writer EXCEPT ![r] = ok]
              /\ model' = [model EXCEPT ![r] = "acquire"]
         ELSE UNCHANGED <<writer, model>>
    /\ UNCHANGED <<request, answer, polled, rows, todo, diskVars, gateVars>>

Extract(r) ==
    /\ At(r, "extract")
    /\ IF Reads(kind[r]) = <<>>
         THEN Launch(r)
         ELSE /\ Goto(r, "read")
              /\ UNCHANGED <<request, found, answer, work, streamVars, todo, model, diskVars,
                             gateVars>>
-----------------------------------------------------------------------------
(***************************************************************************)
(* Looking in the cache, entry by entry.                                   *)
(***************************************************************************)
AllRead(r) == Len(found[r]) = Len(Reads(kind[r]))
AllFound(r) == \A i \in DOMAIN found[r] : found[r][i] # Nothing

Read(r) ==
    /\ At(r, "read") /\ ~AllRead(r)
    /\ LET e == Reads(kind[r])[Len(found[r]) + 1]
       IN  found' = [found EXCEPT ![r] = Append(@, cache[key[r]][e])]
    /\ UNCHANGED <<request, pc, answer, work, streamVars, todo, model, diskVars, gateVars>>

\* An error other than a missing entry is no miss.
ReadFails(r) ==
    /\ "disk" \in Faults
    /\ At(r, "read") /\ ~AllRead(r) /\ End(r, "fail")
    /\ DropGuard(r)
    /\ UNCHANGED <<request, work, rows, writer, todo, model, diskVars>>

Hit(r) ==
    /\ At(r, "read") /\ AllRead(r) /\ AllFound(r)
    /\ kind[r] # "parquetStream"
    /\ End(r, "hit") /\ DropGuard(r)
    /\ UNCHANGED <<request, work, rows, writer, todo, model, diskVars>>

ReplayHit(r) ==
    /\ At(r, "read") /\ AllRead(r) /\ AllFound(r)
    /\ kind[r] = "parquetStream"
    /\ Goto(r, "readSym")
    /\ UNCHANGED <<request, found, answer, work, streamVars, todo, model, diskVars, gateVars>>

\* load_cached_symbolic, for which an unreadable entry is an empty one; the
\* guard is dropped before the stored events are replayed.
Replay(r) ==
    /\ At(r, "readSym")
    /\ \E v \in {cache[key[r]]["sym"]} \cup (IF "disk" \in Faults THEN {Nothing} ELSE {}) :
         End(r, IF v = Nothing THEN "bare" ELSE "replay")
    /\ DropGuard(r)
    /\ UNCHANGED <<request, work, rows, writer, todo, model, diskVars>>

\* The blob is short: no hit after all, the upload is parsed anew.
ReplayUnreadable(r) ==
    /\ "disk" \in Faults
    /\ At(r, "readSym") /\ Launch(r)

Miss(r) ==
    /\ At(r, "read") /\ AllRead(r) /\ ~AllFound(r)
    /\ IF kind[r] \in Uploads
         THEN Launch(r)
         ELSE /\ End(r, "missing")
              /\ UNCHANGED <<request, work, rows, writer, todo, model, diskVars, gateVars>>
-----------------------------------------------------------------------------
(***************************************************************************)
(* The blocking task.  It owns the guard (with the response stream, if it   *)
(* feeds one), and its result carries it back to the handler.              *)
(***************************************************************************)
\* Mutation: a result nobody takes keeps its guard.
WorkEndsLeaky(r) ==
    /\ work[r] = "running"
    /\ work' = [work EXCEPT ![r] = "done"]
    /\ UNCHANGED <<request, pc, found, answer, streamVars, todo, model, diskVars, gateVars>>

WorkEnds(r) ==
    /\ work[r] = "running"
    /\ work' = [work EXCEPT ![r] = "done"]
    /\ IF At(r, "gone") THEN DropGuard(r) ELSE UNCHANGED gateVars
    /\ UNCHANGED <<request, pc, found, answer, streamVars, todo, model, diskVars>>

\* Mutation: the guard waits in the handler for a result that never comes.
WorkPanicsLeaky(r) ==
    /\ "panic" \in Faults
    /\ work[r] = "running" /\ ~At(r, "drained")
    /\ work' = [work EXCEPT ![r] = "panicked"]
    /\ UNCHANGED <<request, pc, found, answer, streamVars, todo, model, diskVars, gateVars>>

WorkPanics(r) ==
    /\ "panic" \in Faults
    /\ work[r] = "running" /\ ~At(r, "drained")
    /\ work' = [work EXCEPT ![r] = "panicked"]
    /\ IF At(r, "stream") THEN UNCHANGED gateVars ELSE DropGuard(r)
    /\ UNCHANGED <<request, pc, found, answer, streamVars, todo, model, diskVars>>

TakeResult(r) ==
    /\ At(r, "work") /\ work[r] = "done"
    /\ Goto(r, "write")
    /\ Assign(r, "handler", InlineWrites(kind[r]))
    /\ UNCHANGED <<request, found, answer, work, streamVars, model, diskVars, gateVars>>

TakeError(r) ==
    /\ At(r, "work") /\ work[r] = "panicked"
    /\ End(r, "fail")
    /\ UNCHANGED <<request, work, rows, writer, todo, model, diskVars, gateVars>>

\* The geometry, the data model or the header cannot be serialized: parquet
\* finds out before its first write or after the last, optimized after it.
SerializeFails(r) ==
    /\ "serialize" \in Faults
    /\ \/ At(r, "work") /\ work[r] = "done" /\ kind[r] = "parquet"
       \/ At(r, "write") /\ todo[r]["handler"] = <<>> /\ kind[r] \in {"parquet", "optimized"}
    /\ End(r, "fail") /\ DropGuard(r)
    /\ UNCHANGED <<request, work, rows, writer, todo, model, diskVars>>

\* Mutation: the response does not wait for the inline writes.
RespondEarly(r) ==
    /\ At(r, "write")
    /\ Assign(r, "fill", FillWrites(kind[r]))
    /\ End(r, "fresh") /\ DropGuard(r)
    /\ UNCHANGED <<request, work, rows, writer, model, diskVars>>

\* The response is built and a task fills the cache behind it.
Respond(r) ==
    /\ At(r, "write") /\ todo[r]["handler"] = <<>>
    /\ Assign(r, "fill", FillWrites(kind[r]))
    /\ End(r, "fresh") /\ DropGuard(r)
    /\ UNCHANGED <<request, work, rows, writer, model, diskVars>>

\* Mutation: the guard stays with the handler while the blocking task runs.
CancelFrees(r) ==
    /\ pc[r] \in {"acquire", "extract", "read", "readSym", "work", "write"}
    /\ End(r, "none")
    /\ Assign(r, "handler", <<>>)
    /\ CASE At(r, "acquire")                       -> Gate!Refuse(<<r, "parse">>)
         [] At(r, "work") /\ work[r] = "panicked"  -> UNCHANGED gateVars
         [] OTHER                                  -> DropGuard(r)
    /\ UNCHANGED <<request, work, rows, writer, model, diskVars>>

\* The handler is dropped at an await.  Running work keeps the guard; a result
\* nobody takes is dropped with it.
Cancel(r) ==
    /\ pc[r] \in {"acquire", "extract", "read", "readSym", "work", "write"}
    /\ End(r, "none")
    /\ Assign(r, "handler", <<>>)
    /\ CASE At(r, "acquire")                                        -> Gate!Refuse(<<r, "parse">>)
         [] At(r, "work") /\ work[r] \in {"running", "panicked"}    -> UNCHANGED gateVars
         [] OTHER                                                   -> DropGuard(r)
    /\ UNCHANGED <<request, work, rows, writer, model, diskVars>>
-----------------------------------------------------------------------------
(***************************************************************************)
(* The response stream, polled for the client.                             *)
(***************************************************************************)
\* Mutation: a failing append is passed over.
PollBatchPassedOver(r) ==
    /\ At(r, "stream") /\ polled[r] < Batches[key[r]]
    /\ polled' = [polled EXCEPT ![r] = @ + 1]
    /\ \/ rows' = [rows EXCEPT ![r] = IF writer[r] THEN @ + 1 ELSE @]
       \/ "serialize" \in Faults /\ writer[r] /\ UNCHANGED rows
    /\ UNCHANGED <<request, pc, found, answer, work, writer, todo, model, diskVars, gateVars>>

\* A failing append costs the writer, never the stream.
PollBatch(r) ==
    /\ At(r, "stream") /\ polled[r] < Batches[key[r]]
    /\ polled' = [polled EXCEPT ![r] = @ + 1]
    /\ \/ /\ rows' = [rows EXCEPT ![r] = IF writer[r] THEN @ + 1 ELSE @]
          /\ UNCHANGED writer
       \/ /\ "serialize" \in Faults /\ writer[r]
          /\ writer' = [writer EXCEPT ![r] = FALSE]
          /\ rows' = [rows EXCEPT ![r] = 0]
    /\ UNCHANGED <<request, pc, found, answer, work, todo, model, diskVars, gateVars>>

\* Complete: the symbols and the geometry are cached by a task each, the
\* geometry only with a writer that has meshes.  The client has its answer.
PollComplete(r) ==
    /\ At(r, "stream") /\ polled[r] = Batches[key[r]]
    /\ work[r] \in {"running", "done"}
    /\ Goto(r, "drained")
    /\ answer' = [answer EXCEPT ![r] = "fresh"]
    /\ IF kind[r] = "parquetStream"
         THEN todo' = [todo EXCEPT ![r]["symbolic"] = <<"sym">>,
                                   ![r]["fill"] = IF writer[r] /\ rows[r] > 0
                                                  THEN FillWrites(kind[r]) ELSE <<>>]
         ELSE UNCHANGED todo
    /\ UNCHANGED <<request, found, work, streamVars, model, diskVars, gateVars>>

\* The writer is dropped with the stream, unless a task was given its rows.
DropWriter(r) ==
    /\ writer' = [writer EXCEPT ![r] = FALSE]
    /\ rows' = [rows EXCEPT ![r] = IF At(r, "stream") THEN 0 ELSE @]

\* The stream ends by itself: the producer has ended too, or it panicked.
StreamEnds(r) ==
    /\ \/ At(r, "drained") /\ work[r] = "done" /\ End(r, "fresh")
       \/ At(r, "stream") /\ work[r] = "panicked" /\ End(r, "error")
    /\ DropGuard(r) /\ DropWriter(r)
    /\ UNCHANGED <<request, work, todo, model, diskVars>>

\* Mutation: what the stream has spawned is aborted with it.
HangUpAborts(r) ==
    /\ pc[r] \in {"stream", "drained"} /\ End(r, answer[r]) /\ DropWriter(r)
    /\ IF work[r] = "running" THEN UNCHANGED gateVars ELSE DropGuard(r)
    /\ todo' = [todo EXCEPT ![r] = NoWrites]
    /\ UNCHANGED <<request, work, model, diskVars>>

\* The client leaves in the middle of the stream, or with its complete event
\* before the producer has ended.
HangUp(r) ==
    /\ pc[r] \in {"stream", "drained"} /\ End(r, answer[r]) /\ DropWriter(r)
    /\ IF work[r] = "running" THEN UNCHANGED gateVars ELSE DropGuard(r)
    /\ UNCHANGED <<request, work, todo, model, diskVars>>
-----------------------------------------------------------------------------
(***************************************************************************)
(* The data-model task of a parquet stream: a job of its own at the gate.   *)
(***************************************************************************)
ModelAt(r, from, to) == model[r] = from /\ model' = [model EXCEPT ![r] = to]

ModelAdmitted(r) ==
    /\ ModelAt(r, "acquire", "extract")
    /\ Gate!Admit(<<r, "model">>)
    /\ UNCHANGED <<request, pc, found, answer, work, streamVars, todo, diskVars>>

ModelRefused(r) ==
    /\ ModelAt(r, "acquire", "done")
    /\ Gate!Refuse(<<r, "model">>)
    /\ UNCHANGED <<request, pc, found, answer, work, streamVars, todo, diskVars>>

ModelExtracted(r) ==
    /\ ModelAt(r, "extract", "write")
    /\ Assign(r, "model", <<"dm">>)
    /\ UNCHANGED <<request, pc, found, answer, work, streamVars, diskVars, gateVars>>

\* The extraction panics, or the data model cannot be serialized.
ModelFails(r) ==
    /\ Faults \cap {"panic", "serialize"} # {}
    /\ ModelAt(r, "extract", "done")
    /\ Gate!Leave(<<r, "model">>)
    /\ UNCHANGED <<request, pc, found, answer, work, streamVars, todo, diskVars>>

ModelEnds(r) ==
    /\ ModelAt(r, "write", "done") /\ todo[r]["model"] = <<>>
    /\ Gate!Leave(<<r, "model">>)
    /\ UNCHANGED <<request, pc, found, answer, work, streamVars, todo, diskVars>>
-----------------------------------------------------------------------------
(***************************************************************************)
(* Writing to the cache.  A write is atomic; one that fails is logged and   *)
(* the thread goes on.                                                     *)
(***************************************************************************)
Written(r, e) ==
    [by |-> r, batches |-> IF kind[r] = "parquetStream" /\ e = "blob"
                           THEN rows[r] ELSE Batches[key[r]]]

Write(r, t) ==
    /\ todo[r][t] # <<>>
    /\ LET e == Head(todo[r][t])
       IN  \/ /\ cache' = [cache EXCEPT ![key[r]][e] = Written(r, e)]
              /\ UNCHANGED lost
           \/ /\ "disk" \in Faults /\ Cardinality(lost) < MaxLost
              /\ lost' = lost \cup {<<key[r], e>>}
              /\ UNCHANGED cache
    /\ Assign(r, t, Tail(todo[r][t]))
    /\ UNCHANGED <<request, pc, found, answer, work, streamVars, model, crashes, gateVars>>

\* finish_combined fails: nothing is cached.
FinishFails(r) ==
    /\ "serialize" \in Faults
    /\ kind[r] = "parquetStream" /\ todo[r]["fill"] = FillWrites(kind[r])
    /\ Assign(r, "fill", <<>>)
    /\ UNCHANGED <<request, pc, found, answer, work, streamVars, model, diskVars, gateVars>>

\* The process is killed and restarted: only the disk is left.
Crash ==
    /\ crashes < MaxCrashes /\ crashes' = crashes + 1
    /\ LET came == {r \in Requests : ~At(r, "idle")}
       IN  /\ pc' = [r \in Requests |-> IF r \in came THEN "gone" ELSE "idle"]
           /\ settled' = {j \in Jobs : j[1] \in came}
    /\ work' = [r \in Requests |-> "none"]
    /\ todo' = [r \in Requests |-> NoWrites]
    /\ model' = [r \in Requests |-> IF model[r] = "none" THEN "none" ELSE "done"]
    /\ inside' = {}
    /\ slot' = [j \in Jobs |-> {}] /\ share' = [j \in Jobs |-> {}]
    /\ found' = [r \in Requests |-> <<>>]
    /\ polled' = [r \in Requests |-> 0]
    /\ rows' = [r \in Requests |-> 0]
    /\ writer' = [r \in Requests |-> FALSE]
    /\ UNCHANGED <<request, answer, cache, lost>>
-----------------------------------------------------------------------------
Handler(r) ==
    \/ Admitted(r) \/ Refused(r) \/ Extract(r) \/ ExtractFails(r)
    \/ Read(r) \/ ReadFails(r) \/ Hit(r) \/ ReplayHit(r) \/ Replay(r)
    \/ ReplayUnreadable(r) \/ Miss(r)
    \/ TakeResult(r) \/ TakeError(r) \/ SerializeFails(r) \/ Respond(r)

Work(r) == WorkEnds(r) \/ WorkPanics(r)

Client(r) == PollBatch(r) \/ PollComplete(r) \/ StreamEnds(r)

ModelTask(r) ==
    \/ ModelAdmitted(r) \/ ModelRefused(r) \/ ModelExtracted(r)
    \/ ModelFails(r) \/ ModelEnds(r)

Next ==
    \/ \E r \in Requests :
         \/ \E k \in Kinds, d \in Keys : Arrive(r, k, d)
         \/ Handler(r) \/ Cancel(r) \/ Work(r)
         \/ Client(r) \/ HangUp(r)
         \/ ModelTask(r)
         \/ \E t \in Threads : Write(r, t)
         \/ FinishFails(r)
    \/ Crash

Spec == Init /\ [][Next]_vars

(***************************************************************************)
(* Fairness.  The runtime polls the handler and the tasks it spawned, the   *)
(* gate decides (see Admission), blocking work ends and a client that stays *)
(* reads.  A task cannot starve another one: each takes a few steps at most. *)
(***************************************************************************)
Foreground(r) == Handler(r) \/ Client(r) \/ Write(r, "handler")
Background(r) == ModelTask(r) \/ \E t \in Threads \ {"handler"} : Write(r, t)

FairSpec ==
    /\ Spec
    /\ \A r \in Requests :
         WF_vars(Foreground(r)) /\ WF_vars(Work(r)) /\ WF_vars(Background(r))
-----------------------------------------------------------------------------
HoldsGuard(r) ==
    \/ kind[r] \in Uploads /\ pc[r] \in {"extract", "read", "readSym", "write"}
    \/ pc[r] \in {"stream", "drained"}
    \/ pc[r] = "work" /\ work[r] = "done"
    \/ work[r] = "running"

\* No guard is lost and none outlives its owner, whichever of handler, blocking
\* task and response stream ends last: dropped futures, panics, disconnects and
\* restarts included.
GuardsAccounted ==
    inside = {<<r, "parse">> : r \in {q \in Requests : HoldsGuard(q)}}
             \cup {<<r, "model">> : r \in {q \in Requests : model[q] \in {"extract", "write"}}}

\* What the gate is for: at no time do more parses and data-model extractions
\* run than there are slots, those of clients long gone included.
WorkWithinSlots ==
    Cardinality({r \in Requests : work[r] = "running"})
    + Cardinality({r \in Requests : model[r] = "extract"}) <= Cardinality(Slots)

\* The cached geometry is all of the model's, whoever wrote it: a stream the
\* client left early, or whose writer failed on the way, caches nothing.
CachedWhole ==
    \A k \in Keys : cache[k]["blob"] # Nothing => cache[k]["blob"].batches = Batches[k]

IsCached(k, e) == cache[k][e] # Nothing \/ <<k, e>> \in lost

\* The entries appear in the order in which readers rely on them: no metadata
\* without its geometry, no geometry of a parquet response without data model and
\* symbols, no stored response without symbols, although requests for the same
\* file race and may end after any write.
FilledInOrder ==
    \A k \in Keys :
        /\ cache[k]["meta"] # Nothing => IsCached(k, "blob")
        /\ cache[k]["json"] # Nothing => IsCached(k, "sym")
        /\ \A e \in {"blob", "meta"} :
             cache[k][e] # Nothing /\ kind[cache[k][e].by] = "parquet" =>
                IsCached(k, "dm") /\ IsCached(k, "sym")

\* A client that is answered can fetch at once what a binary response leaves
\* out: the symbols, and the data model of a parquet response.
FreshIsFetchable ==
    \A r \in Requests : answer[r] = "fresh" =>
        /\ kind[r] \in {"parquet", "optimized"} => IsCached(key[r], "sym")
        /\ kind[r] = "parquet" => IsCached(key[r], "dm")

\* In the end everybody who came is answered or has left, no work runs on and all
\* of the gate's slots are free again.
EveryoneLeaves ==
    <>[](/\ \A r \in Requests : pc[r] \in {"idle", "gone"} /\ work[r] # "running"
         /\ inside = {})

Promised(r) ==
    CASE kind[r] = "full"                                        -> {"sym", "json"}
      [] kind[r] = "parquet"                                     -> {"blob", "meta"}
      [] kind[r] = "parquetStream" /\ Batches[key[r]] = 0        -> {"sym"}
      [] kind[r] = "parquetStream" /\ Batches[key[r]] > 0        -> {"sym", "blob", "meta"}
      [] OTHER                                                   -> {}

\* A response that was computed to its end, by the handler or up to the complete
\* event of a stream, is in the cache in the end, also when the client hangs up
\* on that event, unless a write fails or the process dies.
FreshGetsCached ==
    "serialize" \notin Faults =>
        <>[](crashes > 0 \/ \A r \in Requests : answer[r] = "fresh" =>
                                \A e \in Promised(r) : IsCached(key[r], e))

\* cached_replay.rs: the cached symbols are loaded "so the Complete event
\* reaches parity even on the cache fast-path".
ReplayHasSymbols == \A r \in Requests : answer[r] # "bare"

\* parquet_stream.rs, of a data model that was not extracted: "the next request
\* rebuilds it inline".
NextRebuildsModel ==
    \A r \in Requests : answer[r] \in {"hit", "replay", "bare"} /\ kind[r] \in Uploads \ {"full"} =>
        \/ IsCached(key[r], "dm")
        \/ \E q \in Requests : key[q] = key[r] /\ model[q] \in {"acquire", "extract", "write"}
=============================================================================
