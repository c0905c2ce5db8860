------------------------- MODULE ParseServer_proofs -------------------------
(***************************************************************************)
(* The guards of the parse endpoints are accounted for, the work stays      *)
(* within the slots of the gate, and the cache is whole and filled in       *)
(* order, for every number of requests, keys and batches.                   *)
(*                                                                         *)
(* GuardsAccounted is not inductive: whether a step returns a guard depends *)
(* on which of handler, blocking task and stream is the last to end, so it  *)
(* takes Places, which says in which places of the handler the blocking     *)
(* task can be in which state.  What the cache promises is not inductive    *)
(* either: it takes Owes, what each request still has to write and what it  *)
(* has written before, and Progress, what the writer of a stream holds.     *)
(***************************************************************************)
EXTENDS ParseServer, FiniteSetTheorems, TLAPS

PCs == {"idle", "acquire", "extract", "read", "readSym", "work", "write", "stream",
        "drained", "gone"}

Answers == {"none", "busy", "bad", "fail", "hit", "missing", "replay", "bare", "fresh", "error"}

\* Where handler, blocking task and data-model task can be at the same time.
Places ==
    /\ kind \in [Requests -> Kinds \cup {"none"}]
    /\ pc \in [Requests -> PCs]
    /\ work \in [Requests -> {"none", "running", "done", "panicked"}]
    /\ model \in [Requests -> {"none", "acquire", "extract", "write", "done"}]
    /\ \A r \in Requests :
         /\ pc[r] \in {"idle", "acquire", "extract", "read", "readSym"} =>
               work[r] = "none" /\ model[r] = "none"
         /\ pc[r] \in {"work", "stream", "drained"} => work[r] # "none"
         /\ pc[r] = "write" => work[r] = "done"
         /\ pc[r] = "drained" => work[r] # "panicked"
         /\ pc[r] \notin {"idle", "read", "gone"} \/ work[r] # "none" => kind[r] \in Uploads

\* GuardsAccounted, request by request.
Guarded ==
    /\ inside \subseteq Jobs
    /\ \A r \in Requests :
         /\ <<r, "parse">> \in inside <=> HoldsGuard(r)
         /\ <<r, "model">> \in inside <=> model[r] \in {"extract", "write"}

GInv == Places /\ Guarded

\* Whoever is inside the gate has a slot that nobody else has.
SlotsOwned ==
    /\ slot \in [Jobs -> SUBSET Slots]
    /\ \A j \in inside : j \in Jobs /\ slot[j] # {}
    /\ \A i, j \in inside : i # j => slot[i] \cap slot[j] = {}

\* The lists of entries a thread can have left to write.
Done == <<>>
Dm == <<"dm">>
Sym == <<"sym">>
DmSym == <<"dm", "sym">>
Json == <<"json">>
SymJson == <<"sym", "json">>
Meta == <<"meta">>
BlobMeta == <<"blob", "meta">>

\* What a request can still owe the cache, and from where on.
Owing(r) ==
    LET left == todo[r]
    IN  /\ left["handler"] \in {Done, Sym, DmSym}
        /\ left["fill"] \in {Done, Json, SymJson, Meta, BlobMeta}
        /\ left["symbolic"] \in {Done, Sym} /\ left["model"] \in {Done, Dm}
        /\ pc[r] # "write" => left["handler"] = Done
        /\ pc[r] \notin {"drained", "gone"} => left["fill"] = Done /\ left["symbolic"] = Done
        /\ pc[r] = "idle" => left["model"] = Done

\* What the handler wrote before it answered is there.
Inlined(r) ==
    LET left == todo[r]["handler"]
    IN  /\ pc[r] = "write" /\ kind[r] = "parquet" /\ left # DmSym => IsCached(key[r], "dm")
        /\ pc[r] = "write" /\ kind[r] \in {"parquet", "optimized"} /\ left = Done =>
              IsCached(key[r], "sym")
        /\ kind[r] = "parquet" /\ (todo[r]["fill"] # Done \/ answer[r] = "fresh") =>
              IsCached(key[r], "dm") /\ IsCached(key[r], "sym")
        /\ kind[r] = "optimized" /\ answer[r] = "fresh" => IsCached(key[r], "sym")

\* What the task behind the response has written is there; what it has left of a
\* stream is whole.
Filled(r) ==
    LET left == todo[r]["fill"]
    IN  /\ left = BlobMeta /\ kind[r] = "parquetStream" => rows[r] = Batches[key[r]]
        /\ left = Meta => IsCached(key[r], "blob")
        /\ left = Json => IsCached(key[r], "sym")

Owes(r) == Owing(r) /\ Inlined(r) /\ Filled(r)

\* How far a request is, and what the writer of its stream holds.
Progress(r) ==
    /\ pc[r] # "idle" => kind[r] \in Kinds /\ key[r] \in Keys
    /\ pc[r] \in {"idle", "acquire", "extract"} => found[r] = <<>>
    /\ pc[r] = "read" => Len(found[r]) <= Len(Reads(kind[r]))
    /\ pc[r] \notin {"stream", "drained", "gone"} => polled[r] = 0 /\ rows[r] = 0
    /\ key[r] \in Keys => polled[r] <= Batches[key[r]]
    /\ pc[r] \in {"stream", "drained"} => kind[r] \in Streams
    /\ pc[r] \in {"work", "write"} => kind[r] \notin Streams
    /\ pc[r] = "stream" /\ writer[r] => rows[r] = polled[r]
    /\ answer[r] = "fresh" => pc[r] \in {"drained", "gone"}

Held ==
    /\ kind \in [Requests -> Kinds \cup {"none"}] /\ pc \in [Requests -> PCs]
    /\ key \in [Requests -> Keys \cup {Nothing}]
    /\ found \in [Requests -> Seq(Values \cup {Nothing})] /\ answer \in [Requests -> Answers]
    /\ polled \in [Requests -> Nat] /\ rows \in [Requests -> Nat]
    /\ writer \in [Requests -> BOOLEAN]
    /\ todo \in [Requests -> [Threads -> Seq(Entries)]]
    /\ cache \in [Keys -> [Entries -> Values \cup {Nothing}]]
    /\ lost \subseteq Keys \X Entries /\ crashes \in 0..MaxCrashes

DiskSound ==
    /\ CachedWhole /\ FilledInOrder
    /\ \A k \in Keys, e \in Entries : cache[k][e] # Nothing => pc[cache[k][e].by] # "idle"

CInv == Held /\ DiskSound /\ \A r \in Requests : Owes(r) /\ Progress(r)

\* What a step of one of its callers does to the gate.
GateMoves(j) == Gate!Admit(j) \/ Gate!Refuse(j) \/ Gate!Leave(j)
-----------------------------------------------------------------------------
LEMMA JobTypes ==
  \A r \in Requests : <<r, "parse">> \in Jobs /\ <<r, "model">> \in Jobs
BY DEF Jobs

\* An upload is handed to its blocking task.
LEMMA GuardLaunch ==
  ASSUME GInv, NEW r \in Requests, pc[r] \in {"extract", "read", "readSym"}, kind[r] \in Uploads,
         Launch(r)
  PROVE  GInv'
<1>1. /\ work' = [work EXCEPT ![r] = "running"]
      /\ kind' = kind /\ inside' = inside
  BY DEF Launch, request, gateVars
<1>2. pc' = [pc EXCEPT ![r] = "stream"] \/ pc' = [pc EXCEPT ![r] = "work"]
  BY DEF Launch, Goto
<1>3. model' = model \/ model' = [model EXCEPT ![r] = "acquire"]
  BY DEF Launch
<1>4. pc[r] # "work" /\ HoldsGuard(r) /\ model[r] = "none"
  BY DEF GInv, Places, HoldsGuard
<1>5. Places'
  BY <1>1, <1>2, <1>3 DEF GInv, Places, PCs
<1>6. \A q \in Requests : HoldsGuard(q)' <=> HoldsGuard(q)
  BY <1>1, <1>2, <1>4 DEF GInv, Places, HoldsGuard
<1>7. Guarded'
  BY <1>1, <1>3, <1>4, <1>6 DEF GInv, Places, Guarded, Jobs
<1>8. QED
  BY <1>5, <1>7 DEF GInv

\* Places and guards change together, whoever takes the step.
LEMMA GuardStep == GInv /\ [Next]_vars => GInv'
<1> SUFFICES ASSUME GInv, [Next]_vars PROVE GInv'
  OBVIOUS
<1> USE JobTypes DEF GInv, Places, Guarded, HoldsGuard, PCs, At, Goto, End, Assign, request,
                     streamVars, diskVars, gateVars
<1>1. ASSUME NEW r \in Requests, NEW k \in Kinds, NEW d \in Keys, Arrive(r, k, d)
      PROVE  GInv'
  BY <1>1, KindsAssumption DEF Arrive, Uploads
<1>2. ASSUME NEW r \in Requests, Admitted(r)
      PROVE  GInv'
  <2>1. inside' = inside \cup {<<r, "parse">>}
    BY <1>2 DEF Admitted, Gate!Admit
  <2>2. /\ pc[r] = "acquire" /\ pc' = [pc EXCEPT ![r] = "extract"]
        /\ kind' = kind /\ work' = work /\ model' = model
    BY <1>2 DEF Admitted
  <2>3. Places'
    BY <2>2
  <2>4. ASSUME NEW q \in Requests PROVE HoldsGuard(q)' <=> q = r \/ HoldsGuard(q)
    BY <2>2
  <2>5. Guarded'
    <3>. HIDE DEF HoldsGuard, Places
    <3>1. inside' \subseteq Jobs
      BY <2>1
    <3>2. ASSUME NEW q \in Requests
          PROVE  /\ <<q, "parse">> \in inside' <=> HoldsGuard(q)'
                 /\ <<q, "model">> \in inside' <=> model'[q] \in {"extract", "write"}
      <4>1. <<q, "parse">> \in inside' <=> q = r \/ <<q, "parse">> \in inside
        BY <2>1
      <4>2. <<q, "model">> \in inside' <=> <<q, "model">> \in inside
        BY <2>1
      <4>3. QED
        BY <2>2, <2>4, <4>1, <4>2
    <3>3. QED
      BY <3>1, <3>2
  <2>6. QED
    BY <2>3, <2>5
<1>3. ASSUME NEW r \in Requests, Refused(r)
      PROVE  GInv'
  BY <1>3 DEF Refused, Gate!Refuse
<1>4. ASSUME NEW r \in Requests, ExtractFails(r)
      PROVE  GInv'
  BY <1>4 DEF ExtractFails, DropGuard, Gate!Leave
<1>5. ASSUME NEW r \in Requests, Extract(r)
      PROVE  GInv'
  <2>1. CASE Reads(kind[r]) = <<>>
    <3>1. pc[r] = "extract" /\ Launch(r)
      BY <1>5, <2>1 DEF Extract
    <3>2. kind[r] \in Uploads
      BY <3>1
    <3>3. QED
      BY <3>1, <3>2, GuardLaunch
  <2>2. CASE Reads(kind[r]) # <<>>
    BY <1>5, <2>2 DEF Extract
  <2>3. QED
    BY <2>1, <2>2
<1>6. ASSUME NEW r \in Requests, Read(r)
      PROVE  GInv'
  BY <1>6 DEF Read
<1>7. ASSUME NEW r \in Requests, ReadFails(r)
      PROVE  GInv'
  BY <1>7 DEF ReadFails, DropGuard, Gate!Leave
<1>8. ASSUME NEW r \in Requests, Hit(r)
      PROVE  GInv'
  BY <1>8 DEF Hit, DropGuard, Gate!Leave
<1>9. ASSUME NEW r \in Requests, ReplayHit(r)
      PROVE  GInv'
  BY <1>9 DEF ReplayHit, Uploads
<1>10. ASSUME NEW r \in Requests, Replay(r)
      PROVE  GInv'
  BY <1>10 DEF Replay, DropGuard, Gate!Leave
<1>11. ASSUME NEW r \in Requests, Miss(r)
      PROVE  GInv'
  <2>1. CASE kind[r] \in Uploads
    BY <1>11, <2>1, GuardLaunch DEF Miss
  <2>2. CASE kind[r] \notin Uploads
    BY <1>11, <2>2 DEF Miss
  <2>3. QED
    BY <2>1, <2>2
<1>12. ASSUME NEW r \in Requests, WorkEnds(r)
      PROVE  GInv'
  BY <1>12 DEF WorkEnds, DropGuard, Gate!Leave
<1>13. ASSUME NEW r \in Requests, WorkPanics(r)
      PROVE  GInv'
  BY <1>13 DEF WorkPanics, DropGuard, Gate!Leave
<1>14. ASSUME NEW r \in Requests, TakeResult(r)
      PROVE  GInv'
  BY <1>14 DEF TakeResult
<1>15. ASSUME NEW r \in Requests, TakeError(r)
      PROVE  GInv'
  BY <1>15 DEF TakeError
<1>16. ASSUME NEW r \in Requests, SerializeFails(r)
      PROVE  GInv'
  BY <1>16 DEF SerializeFails, DropGuard, Gate!Leave
<1>17. ASSUME NEW r \in Requests, Respond(r)
      PROVE  GInv'
  BY <1>17 DEF Respond, DropGuard, Gate!Leave
<1>18. ASSUME NEW r \in Requests, Cancel(r)
      PROVE  GInv'
  BY <1>18 DEF Cancel, DropGuard, Gate!Leave, Gate!Refuse
<1>19. ASSUME NEW r \in Requests, PollBatch(r)
      PROVE  GInv'
  BY <1>19 DEF PollBatch
<1>20. ASSUME NEW r \in Requests, PollComplete(r)
      PROVE  GInv'
  BY <1>20 DEF PollComplete
<1>21. ASSUME NEW r \in Requests, StreamEnds(r)
      PROVE  GInv'
  BY <1>21 DEF StreamEnds, DropGuard, Gate!Leave
<1>22. ASSUME NEW r \in Requests, HangUp(r)
      PROVE  GInv'
  BY <1>22 DEF HangUp, DropGuard, Gate!Leave
<1>23. ASSUME NEW r \in Requests, ModelAdmitted(r)
      PROVE  GInv'
  <2>1. inside' = inside \cup {<<r, "model">>}
    BY <1>23 DEF ModelAdmitted, Gate!Admit
  <2>2. QED
    BY <1>23, <2>1, ZenonT(30) DEF ModelAdmitted, ModelAt
<1>24. ASSUME NEW r \in Requests, ModelRefused(r)
      PROVE  GInv'
  BY <1>24 DEF ModelRefused, ModelAt, Gate!Refuse
<1>25. ASSUME NEW r \in Requests, ModelExtracted(r)
      PROVE  GInv'
  BY <1>25 DEF ModelExtracted, ModelAt
<1>26. ASSUME NEW r \in Requests, ModelFails(r)
      PROVE  GInv'
  BY <1>26 DEF ModelFails, ModelAt, Gate!Leave
<1>27. ASSUME NEW r \in Requests, ModelEnds(r)
      PROVE  GInv'
  BY <1>27 DEF ModelEnds, ModelAt, Gate!Leave
<1>28. ASSUME NEW r \in Requests, FinishFails(r)
      PROVE  GInv'
  BY <1>28 DEF FinishFails
<1>29. ASSUME NEW r \in Requests, NEW t \in Threads, Write(r, t)
      PROVE  GInv'
  BY <1>29 DEF Write
<1>30. ASSUME Crash PROVE GInv'
  BY <1>30 DEF Crash
<1>31. CASE UNCHANGED vars
  BY <1>31 DEF vars
<1>32. ASSUME NEW r \in Requests, ReplayUnreadable(r)
      PROVE  GInv'
  <2>1. pc[r] = "readSym" /\ Launch(r)
    BY <1>32 DEF ReplayUnreadable
  <2>2. kind[r] \in Uploads
    BY <2>1
  <2>3. QED
    BY <2>1, <2>2, GuardLaunch
<1>33. QED
  BY <1>1, <1>2, <1>3, <1>4, <1>5, <1>6, <1>7, <1>8, <1>9, <1>10, <1>11,
     <1>12, <1>13, <1>14, <1>15, <1>16, <1>17, <1>18, <1>19, <1>20, <1>21,
     <1>22, <1>23, <1>24, <1>25, <1>26, <1>27, <1>28, <1>29, <1>30, <1>31, <1>32
     DEF Next, Handler, Work, Client, ModelTask

LEMMA GuardsAlways == Spec => []GInv
<1>1. Init => GInv
  BY DEF Init, GInv, Places, Guarded, HoldsGuard, PCs, Gate!Init
<1>2. QED
  BY <1>1, GuardStep, PTL DEF Spec

\* No guard is lost and none outlives its owner, for any number of requests and
\* after any history of dropped handlers, panics, disconnects and restarts.
THEOREM ParseServerGuards == Spec => []GuardsAccounted
<1>1. GInv => GuardsAccounted
  <2>1. ASSUME GInv, NEW j \in inside
        PROVE  \E r \in Requests : \/ j = <<r, "parse">> /\ HoldsGuard(r)
                                   \/ j = <<r, "model">> /\ model[r] \in {"extract", "write"}
    <3>1. PICK r \in Requests, p \in {"parse", "model"} : j = <<r, p>>
      BY <2>1 DEF GInv, Guarded, Jobs
    <3>2. QED
      BY <2>1, <3>1 DEF GInv, Guarded
  <2>2. QED
    BY <2>1 DEF GInv, Guarded, GuardsAccounted
<1>2. QED
  BY <1>1, GuardsAlways, PTL
-----------------------------------------------------------------------------
\* The abstract gate never gives a slot to two jobs.
LEMMA GateOwns ==
  ASSUME SlotsOwned, NEW j \in Jobs, GateMoves(j)
  PROVE  SlotsOwned'
<1>1. CASE Gate!Admit(j)
  <2>1. PICK s \in Slots \ UNION {slot[q] : q \in inside} : slot' = [slot EXCEPT ![j] = {s}]
    BY <1>1 DEF Gate!Admit
  <2>2. inside' = inside \cup {j}
    BY <1>1 DEF Gate!Admit
  <2>3. \A q \in inside : s \notin slot[q]
    BY <2>1
  <2>4. QED
    BY <2>1, <2>2, <2>3 DEF SlotsOwned
<1>2. CASE Gate!Refuse(j)
  BY <1>2 DEF Gate!Refuse, SlotsOwned
<1>3. CASE Gate!Leave(j)
  BY <1>3 DEF Gate!Leave, SlotsOwned
<1>4. QED
  BY <1>1, <1>2, <1>3 DEF GateMoves

\* A step of a request is one move at the gate or none.
LEMMA StepsMoveGate ==
  ASSUME [Next]_vars
  PROVE  Crash \/ UNCHANGED gateVars \/ \E j \in Jobs : GateMoves(j)
<1> DEFINE Moves == Crash \/ UNCHANGED gateVars \/ \E j \in Jobs : GateMoves(j)
<1> USE JobTypes DEF GateMoves
<1>1. ASSUME NEW r \in Requests, NEW k \in Kinds, NEW d \in Keys, Arrive(r, k, d)
      PROVE  Moves
  BY <1>1 DEF Arrive
<1>2. ASSUME NEW r \in Requests,
             Extract(r) \/ Read(r) \/ ReplayHit(r) \/ ReplayUnreadable(r) \/
             Miss(r) \/ TakeResult(r)
      PROVE  Moves
  BY <1>2 DEF Extract, Read, ReplayHit, ReplayUnreadable, Miss, TakeResult, Launch
<1>3. ASSUME NEW r \in Requests,
             TakeError(r) \/ PollBatch(r) \/ PollComplete(r) \/
             ModelExtracted(r) \/ FinishFails(r)
      PROVE  Moves
  BY <1>3 DEF TakeError, PollBatch, PollComplete, ModelExtracted, FinishFails
<1>4. ASSUME NEW r \in Requests,
             Admitted(r) \/ Refused(r)
      PROVE  Moves
  BY <1>4 DEF Admitted, Refused
<1>5. ASSUME NEW r \in Requests,
             ExtractFails(r) \/ ReadFails(r) \/ Hit(r) \/ Replay(r)
      PROVE  Moves
  BY <1>5 DEF ExtractFails, ReadFails, Hit, Replay, DropGuard
<1>6. ASSUME NEW r \in Requests,
             WorkEnds(r) \/ WorkPanics(r)
      PROVE  Moves
  BY <1>6 DEF WorkEnds, WorkPanics, DropGuard
<1>7. ASSUME NEW r \in Requests,
             SerializeFails(r) \/ Respond(r)
      PROVE  Moves
  BY <1>7 DEF SerializeFails, Respond, DropGuard
<1>8. ASSUME NEW r \in Requests,
             Cancel(r)
      PROVE  Moves
  BY <1>8 DEF Cancel, DropGuard
<1>9. ASSUME NEW r \in Requests,
             StreamEnds(r) \/ HangUp(r)
      PROVE  Moves
  BY <1>9 DEF StreamEnds, HangUp, DropGuard
<1>10. ASSUME NEW r \in Requests,
             ModelAdmitted(r) \/ ModelRefused(r) \/ ModelFails(r) \/
             ModelEnds(r)
      PROVE  Moves
  BY <1>10 DEF ModelAdmitted, ModelRefused, ModelFails, ModelEnds
<1>11. ASSUME NEW r \in Requests, NEW t \in Threads, Write(r, t) PROVE Moves
  BY <1>11 DEF Write
<1>12. CASE UNCHANGED vars
  BY <1>12 DEF vars
<1>13. QED
  BY <1>1, <1>2, <1>3, <1>4, <1>5, <1>6, <1>7, <1>8, <1>9, <1>10, <1>11, <1>12
     DEF Next, Handler, Work, Client, ModelTask

LEMMA SlotsAlways == Spec => []SlotsOwned
<1>1. Init => SlotsOwned
  BY DEF Init, Gate!Init, SlotsOwned
<1>2. SlotsOwned /\ [Next]_vars => SlotsOwned'
  <2> SUFFICES ASSUME SlotsOwned, [Next]_vars PROVE SlotsOwned'
    OBVIOUS
  <2>1. CASE Crash
    BY <2>1 DEF Crash, SlotsOwned
  <2>2. CASE UNCHANGED gateVars
    BY <2>2 DEF gateVars, SlotsOwned
  <2>3. QED
    BY <2>1, <2>2, StepsMoveGate, GateOwns
<1>3. QED
  BY <1>1, <1>2, PTL DEF Spec

\* A set of requests has as many members as the set of their jobs of one kind.
LEMMA TaggedCount ==
  ASSUME NEW R, NEW t, IsFiniteSet({<<r, t>> : r \in R})
  PROVE  Cardinality({<<r, t>> : r \in R}) = Cardinality(R)
<1> DEFINE T == {<<r, t>> : r \in R}
           g == [r \in R |-> <<r, t>>]
<1>1. g \in [R -> T]
  OBVIOUS
<1>2. \A q, r \in R : g[q] = g[r] => q = r
  OBVIOUS
<1>3. \A j \in T : \E r \in R : g[r] = j
  OBVIOUS
<1> HIDE DEF g, T
<1>4. g \in Injection(R, T) /\ g \in Surjection(R, T)
  BY <1>1, <1>2, <1>3 DEF Injection, IsInjective, Surjection
<1>5. IsFiniteSet(T)
  BY DEF T
<1>6. Cardinality(R) = Cardinality(T)
  BY <1>4, <1>5, FS_Injection
<1>7. QED
  BY <1>6 DEF T

\* A job that works is inside, so there are no more of them than slots.
LEMMA WorkersBounded ==
  ASSUME GInv, SlotsOwned
  PROVE  WorkWithinSlots
<1> DEFINE Running == {r \in Requests : work[r] = "running"}
           Extracting == {r \in Requests : model[r] = "extract"}
           P == {<<r, "parse">> : r \in Running}
           M == {<<r, "model">> : r \in Extracting}
           f == [j \in P \cup M |-> CHOOSE s \in Slots : s \in slot[j]]
<1>1. P \cup M \subseteq inside
  BY DEF GInv, Guarded, HoldsGuard
<1>2. \A j \in P \cup M : f[j] \in Slots /\ f[j] \in slot[j]
  BY <1>1 DEF SlotsOwned
<1>3. f \in [P \cup M -> Slots]
  BY <1>2
<1>4. ASSUME NEW i \in P \cup M, NEW j \in P \cup M, f[i] = f[j] PROVE i = j
  BY <1>1, <1>2, <1>4 DEF SlotsOwned
<1>5. f \in Injection(P \cup M, Slots)
  <2> HIDE DEF f, P, M
  <2>1. QED
    BY <1>3, <1>4 DEF Injection, IsInjective
<1>6. IsFiniteSet(P \cup M) /\ Cardinality(P \cup M) <= Cardinality(Slots)
  <2> HIDE DEF f, P, M
  <2>1. QED
    BY <1>5, SlotsAssumption, FS_Injection
<1>7. /\ IsFiniteSet(P) /\ IsFiniteSet(M)
      /\ Cardinality(P) \in Nat /\ Cardinality(M) \in Nat
      /\ Cardinality(P \cup M) = Cardinality(P) + Cardinality(M)
  <2>1. P \cap M = {}
    OBVIOUS
  <2> HIDE DEF P, M
  <2>2. IsFiniteSet(P) /\ IsFiniteSet(M)
    BY <1>6, FS_Subset
  <2>3. Cardinality(P \cup M) = Cardinality(P) + Cardinality(M) - Cardinality(P \cap M)
    BY <2>2, FS_Union
  <2>4. Cardinality(P) \in Nat /\ Cardinality(M) \in Nat /\ Cardinality(P \cap M) = 0
    BY <2>1, <2>2, FS_CardinalityType, FS_EmptySet
  <2>5. QED
    BY <2>2, <2>3, <2>4
<1>8. Cardinality(P) = Cardinality(Running)
  BY <1>7, TaggedCount
<1>9. Cardinality(M) = Cardinality(Extracting)
  BY <1>7, TaggedCount
<1>10. Cardinality(Running) + Cardinality(Extracting) <= Cardinality(Slots)
  BY <1>6, <1>7, <1>8, <1>9
<1>11. QED
  BY <1>10 DEF WorkWithinSlots

\* The gate's slots bound the work, of clients long gone too, for every number of
\* slots, requests and keys.
THEOREM ParseServerWork == Spec => []WorkWithinSlots
BY GuardsAlways, SlotsAlways, WorkersBounded, PTL
-----------------------------------------------------------------------------
(* The cache *)

\* A step leaves alone what belongs to the other requests.
Alone(r) ==
    \A q \in Requests \ {r} :
        /\ pc'[q] = pc[q] /\ found'[q] = found[q] /\ answer'[q] = answer[q]
        /\ polled'[q] = polled[q] /\ rows'[q] = rows[q] /\ writer'[q] = writer[q]
        /\ todo'[q] = todo[q]

\* A request that is under way changes what is its own and leaves the disk alone.
LEMMA RequestStep ==
  ASSUME CInv, NEW r \in Requests, Held', Alone(r), pc'[r] # "idle",
         UNCHANGED <<request, diskVars>>, Owes(r)', Progress(r)'
  PROVE  CInv'
<1>1. kind' = kind /\ key' = key /\ cache' = cache /\ lost' = lost
  BY DEF request, diskVars
<1>2. ASSUME NEW q \in Requests PROVE Owes(q)' /\ Progress(q)'
  <2>1. CASE q = r
    BY <2>1
  <2>2. CASE q # r
    <3>1. Owes(q) /\ Progress(q)
      BY DEF CInv
    <3>2. Owes(q)'
      BY <1>1, <2>2, <3>1 DEF Alone, Owes, Owing, Inlined, Filled, IsCached
    <3>3. Progress(q)'
      BY <1>1, <2>2, <3>1 DEF Alone, Progress
    <3>. QED
      BY <3>2, <3>3
  <2>. QED
    BY <2>1, <2>2
<1>3. \A q \in Requests : pc[q] # "idle" => pc'[q] # "idle"
  BY DEF Alone
<1>4. DiskSound'
  <2>1. CachedWhole' /\ FilledInOrder'
    BY <1>1 DEF CInv, DiskSound, CachedWhole, FilledInOrder, IsCached
  <2>2. ASSUME NEW k \in Keys, NEW e \in Entries, cache[k][e] # Nothing
        PROVE  pc'[cache[k][e].by] # "idle"
    <3>1. cache[k][e] \in Values /\ pc[cache[k][e].by] # "idle"
      BY <2>2 DEF CInv, Held, DiskSound
    <3>2. cache[k][e].by \in Requests
      BY <3>1 DEF Values
    <3>. QED
      BY <1>3, <3>1, <3>2
  <2>. QED
    BY <1>1, <2>1, <2>2 DEF DiskSound
<1>. QED
  BY <1>2, <1>4 DEF CInv

LEMMA SameValues ==
  ASSUME CInv, NEW r \in Requests
  PROVE  /\ pc[r] \in PCs /\ found[r] \in Seq(Values \cup {Nothing}) /\ answer[r] \in Answers
         /\ polled[r] \in Nat /\ rows[r] \in Nat /\ writer[r] \in BOOLEAN
         /\ todo[r] \in [Threads -> Seq(Entries)]
         /\ Owes(r) /\ Progress(r)
BY DEF CInv, Held

LEMMA EntryLists ==
  ASSUME NEW k
  PROVE  Reads(k) \in Seq(Entries) /\ InlineWrites(k) \in Seq(Entries) /\ FillWrites(k) \in Seq(Entries)
<1>1. /\ <<>> \in Seq(Entries) /\ <<"json">> \in Seq(Entries) /\ <<"blob">> \in Seq(Entries)
      /\ <<"dm">> \in Seq(Entries) /\ <<"sym">> \in Seq(Entries) /\ <<"blob", "meta">> \in Seq(Entries)
      /\ <<"dm", "sym">> \in Seq(Entries) /\ <<"sym", "json">> \in Seq(Entries)
  BY DEF Entries
<1>2. Reads(k) \in Seq(Entries)
  BY <1>1 DEF Reads
<1>3. InlineWrites(k) \in Seq(Entries)
  BY <1>1 DEF InlineWrites
<1>4. FillWrites(k) \in Seq(Entries)
  BY <1>1 DEF FillWrites
<1>. QED
  BY <1>2, <1>3, <1>4

\* A handler or a stream that ends keeps what it owes.
LEMMA EndKeeps ==
  ASSUME CInv, NEW r \in Requests, NEW a \in Answers, pc[r] # "idle", End(r, a),
         rows' \in [Requests -> Nat], writer' \in [Requests -> BOOLEAN],
         todo' \in [Requests -> [Threads -> Seq(Entries)]],
         \A q \in Requests \ {r} : rows'[q] = rows[q] /\ writer'[q] = writer[q] /\ todo'[q] = todo[q],
         UNCHANGED <<request, diskVars>>, Owes(r)'
  PROVE  CInv'
<1>1. /\ pc' = [pc EXCEPT ![r] = "gone"] /\ found' = [found EXCEPT ![r] = <<>>]
      /\ answer' = [answer EXCEPT ![r] = a] /\ polled' = [polled EXCEPT ![r] = 0]
      /\ kind' = kind /\ key' = key /\ cache' = cache /\ lost' = lost /\ crashes' = crashes
  BY DEF End, Goto, request, diskVars
<1>2. pc'[r] = "gone" /\ polled'[r] = 0
  BY <1>1 DEF CInv, Held
<1>3. Progress(r)'
  BY <1>1, <1>2, SameValues, BatchesAssumption DEF Progress
<1>4. Held'
  BY <1>1 DEF CInv, Held, PCs
<1>5. Alone(r)
  BY <1>1 DEF CInv, Held, Alone
<1>. QED
  BY <1>2, <1>3, <1>4, <1>5, RequestStep

\* It ends early, and owes nothing but a data model.
LEMMA EndEarly ==
  ASSUME CInv, NEW r \in Requests, NEW a \in Answers \ {"fresh"},
         pc[r] \notin {"idle", "drained", "gone"}, todo[r]["handler"] = Done, End(r, a),
         UNCHANGED <<request, rows, writer, todo, diskVars>>
  PROVE  CInv'
<1>1. pc'[r] = "gone" /\ answer'[r] = a
  BY DEF End, Goto, CInv, Held
<1>2. Owes(r)'
  BY <1>1, SameValues DEF Owes, Owing, Inlined, Filled, request, diskVars, IsCached
<1>3. /\ rows' \in [Requests -> Nat] /\ writer' \in [Requests -> BOOLEAN]
      /\ todo' \in [Requests -> [Threads -> Seq(Entries)]]
      /\ \A q \in Requests \ {r} : rows'[q] = rows[q] /\ writer'[q] = writer[q] /\ todo'[q] = todo[q]
  BY DEF CInv, Held
<1>. QED
  BY <1>2, <1>3, EndKeeps

\* The handler goes on to another await.
LEMMA MoveKeeps ==
  ASSUME CInv, NEW r \in Requests, NEW p \in {"extract", "read", "readSym"},
         pc[r] \in {"acquire", "extract", "read"}, p # "extract" \/ pc[r] = "acquire",
         p = "read" => pc[r] = "extract", Goto(r, p),
         UNCHANGED <<request, found, answer, streamVars, todo, diskVars>>
  PROVE  CInv'
<1>1. /\ pc' = [pc EXCEPT ![r] = p] /\ kind' = kind /\ key' = key /\ found' = found
      /\ answer' = answer /\ polled' = polled /\ rows' = rows /\ writer' = writer /\ todo' = todo
      /\ cache' = cache /\ lost' = lost /\ crashes' = crashes
  BY DEF Goto, request, diskVars, streamVars
<1>2. pc'[r] = p
  BY <1>1 DEF CInv, Held
<1>3. Held' /\ Alone(r)
  BY <1>1 DEF CInv, Held, Alone, PCs
<1>4. Owes(r)'
  BY <1>1, <1>2, SameValues DEF Owes, Owing, Inlined, Filled, IsCached
<1>5. Progress(r)'
  <2>1. p = "read" => Len(found'[r]) = 0 /\ Len(Reads(kind[r])) \in Nat
    BY <1>1, SameValues, EntryLists DEF Progress
  <2>. QED
    BY <1>1, <1>2, <2>1, SameValues DEF Progress
<1>. QED
  BY <1>1, <1>2, <1>3, <1>4, <1>5, RequestStep

LEMMA LaunchKeeps ==
  ASSUME CInv, NEW r \in Requests, pc[r] \in {"extract", "read", "readSym"}, Launch(r)
  PROVE  CInv'
<1>1. PICK p \in {"stream", "work"} :
        pc' = [pc EXCEPT ![r] = p] /\ (p = "stream" <=> kind[r] \in Streams)
  BY DEF Launch, Goto
<1>2. PICK x \in BOOLEAN : writer' = [writer EXCEPT ![r] = x]
  <2>1. writer = [writer EXCEPT ![r] = writer[r]] /\ writer[r] \in BOOLEAN
    BY DEF CInv, Held
  <2>. QED
    BY <2>1 DEF Launch
<1>3. /\ found' = [found EXCEPT ![r] = <<>>] /\ kind' = kind /\ key' = key
      /\ answer' = answer /\ polled' = polled /\ rows' = rows /\ todo' = todo
      /\ cache' = cache /\ lost' = lost /\ crashes' = crashes /\ UNCHANGED <<request, diskVars>>
  BY DEF Launch, request, diskVars
<1>4. pc'[r] = p
  BY <1>1 DEF CInv, Held
<1>5. Held' /\ Alone(r)
  BY <1>1, <1>2, <1>3 DEF CInv, Held, Alone, PCs
<1>6. Owes(r)'
  BY <1>3, <1>4, SameValues DEF Owes, Owing, Inlined, Filled, IsCached
<1>7. Progress(r)'
  BY <1>1, <1>3, <1>4, SameValues DEF Progress
<1>. QED
  BY <1>3, <1>4, <1>5, <1>6, <1>7, RequestStep

LEMMA ReadKeeps ==
  ASSUME CInv, NEW r \in Requests, Read(r)
  PROVE  CInv'
<1>. DEFINE e == Reads(kind[r])[Len(found[r]) + 1]
            f == Append(found[r], cache[key[r]][e])
<1>1. /\ pc[r] = "read" /\ Len(found[r]) # Len(Reads(kind[r]))
      /\ found' = [found EXCEPT ![r] = f]
      /\ pc' = pc /\ kind' = kind /\ key' = key /\ answer' = answer /\ polled' = polled
      /\ rows' = rows /\ writer' = writer /\ todo' = todo /\ cache' = cache /\ lost' = lost
      /\ crashes' = crashes /\ UNCHANGED <<request, diskVars>>
  BY DEF Read, At, AllRead, CInv, Held, request, diskVars, streamVars
<1>2. Reads(kind[r]) \in Seq(Entries)
  BY EntryLists
<1>3. Len(found[r]) + 1 \in 1..Len(Reads(kind[r])) /\ key[r] \in Keys
  BY <1>1, <1>2, SameValues DEF Progress
<1>4. e \in Entries
  BY <1>2, <1>3
<1>5. f \in Seq(Values \cup {Nothing}) /\ Len(f) = Len(found[r]) + 1
  <2>1. cache[key[r]][e] \in Values \cup {Nothing}
    BY <1>3, <1>4 DEF CInv, Held
  <2>. HIDE DEF e
  <2>. QED
    BY <2>1, SameValues
<1>. HIDE DEF f
<1>6. found'[r] = f
  BY <1>1 DEF CInv, Held
<1>7. Owes(r)'
  BY <1>1, SameValues DEF Owes, Owing, Inlined, Filled, IsCached
<1>8. Progress(r)'
  BY <1>1, <1>2, <1>3, <1>5, <1>6, SameValues DEF Progress
<1>9. Held' /\ Alone(r)
  BY <1>1, <1>5 DEF CInv, Held, Alone
<1>. QED
  BY <1>1, <1>7, <1>8, <1>9, RequestStep

\* A thread of the request is given entries to write, or gives them up.
LEMMA AssignFacts ==
  ASSUME CInv, NEW r \in Requests, NEW t \in Threads, NEW s \in Seq(Entries), Assign(r, t, s)
  PROVE  /\ todo' \in [Requests -> [Threads -> Seq(Entries)]]
         /\ \A q \in Requests \ {r} : todo'[q] = todo[q]
         /\ todo'[r][t] = s /\ \A u \in Threads \ {t} : todo'[r][u] = todo[r][u]
BY DEF Assign, CInv, Held

LEMMA ListsDiffer ==
  /\ Done \notin {Dm, Sym, DmSym, Json, SymJson, Meta, BlobMeta}
  /\ Sym # DmSym /\ Json # SymJson /\ Meta # BlobMeta
  /\ {Json, SymJson} \cap {Meta, BlobMeta} = {}
<1>1. Len(Done) = 0 /\ Len(Dm) = 1 /\ Len(Sym) = 1 /\ Len(DmSym) = 2 /\ Len(Json) = 1
      /\ Len(SymJson) = 2 /\ Len(Meta) = 1 /\ Len(BlobMeta) = 2
  BY DEF Done, Dm, Sym, DmSym, Json, SymJson, Meta, BlobMeta
<1>2. Json # Meta /\ SymJson # BlobMeta
  BY DEF Json, SymJson, Meta, BlobMeta
<1>. QED
  BY <1>1, <1>2

LEMMA Lists ==
  /\ \A k : InlineWrites(k) = Done \/ (k = "parquet" /\ InlineWrites(k) = DmSym)
            \/ (k = "optimized" /\ InlineWrites(k) = Sym)
  /\ \A k : \/ FillWrites(k) = Done /\ k \notin {"full", "parquet", "parquetStream"}
            \/ FillWrites(k) = SymJson /\ k = "full"
            \/ FillWrites(k) = BlobMeta /\ k \in {"parquet", "parquetStream"}
  /\ InlineWrites("parquet") = DmSym /\ InlineWrites("optimized") = Sym
BY DEF InlineWrites, FillWrites, Done, Sym, DmSym, SymJson, BlobMeta

LEMMA Unowed ==
  ASSUME CInv, NEW r \in Requests
  PROVE  /\ Owing(r) /\ Inlined(r) /\ Filled(r)
         /\ pc[r] \notin {"drained", "gone"} =>
               todo[r]["fill"] = Done /\ todo[r]["symbolic"] = Done
<1>1. Owing(r) /\ Inlined(r) /\ Filled(r)
  BY DEF CInv, Owes
<1>. QED
  BY <1>1 DEF Owing

LEMMA TakeResultKeeps ==
  ASSUME CInv, NEW r \in Requests, TakeResult(r)
  PROVE  CInv'
<1>1. /\ pc[r] = "work" /\ pc' = [pc EXCEPT ![r] = "write"] /\ Assign(r, "handler", InlineWrites(kind[r]))
      /\ kind' = kind /\ key' = key /\ found' = found
      /\ answer' = answer /\ polled' = polled /\ rows' = rows /\ writer' = writer
      /\ cache' = cache /\ lost' = lost /\ crashes' = crashes /\ UNCHANGED <<request, diskVars>>
  BY DEF TakeResult, At, Goto, request, diskVars, streamVars
<1>2. pc'[r] = "write"
  BY <1>1 DEF CInv, Held
<1>3. /\ todo' \in [Requests -> [Threads -> Seq(Entries)]]
      /\ \A q \in Requests \ {r} : todo'[q] = todo[q]
      /\ todo'[r]["handler"] = InlineWrites(kind[r])
      /\ \A u \in Threads \ {"handler"} : todo'[r][u] = todo[r][u]
  BY <1>1, AssignFacts, EntryLists DEF Threads
<1>4. /\ todo'[r]["fill"] = todo[r]["fill"] /\ todo'[r]["symbolic"] = todo[r]["symbolic"]
      /\ todo'[r]["model"] = todo[r]["model"]
  BY <1>3 DEF Threads
<1>5. Held' /\ Alone(r)
  BY <1>1, <1>3 DEF CInv, Held, Alone, PCs
<1>6. Owes(r)'
  BY <1>1, <1>2, <1>3, <1>4, Lists, ListsDiffer, SameValues DEF Owes, Owing, Inlined, Filled, IsCached, Progress
<1>7. Progress(r)'
  BY <1>1, <1>2, SameValues DEF Progress
<1>. QED
  BY <1>1, <1>2, <1>5, <1>6, <1>7, RequestStep

LEMMA RespondKeeps ==
  ASSUME CInv, NEW r \in Requests, Respond(r)
  PROVE  CInv'
<1>1. /\ pc[r] = "write" /\ todo[r]["handler"] = Done /\ End(r, "fresh")
      /\ Assign(r, "fill", FillWrites(kind[r]))
      /\ kind' = kind /\ key' = key /\ rows' = rows /\ writer' = writer
      /\ cache' = cache /\ lost' = lost /\ UNCHANGED <<request, diskVars>>
  BY DEF Respond, At, request, diskVars, Done
<1>2. pc'[r] = "gone" /\ answer'[r] = "fresh"
  BY <1>1 DEF CInv, Held, End, Goto
<1>3. /\ todo' \in [Requests -> [Threads -> Seq(Entries)]]
      /\ \A q \in Requests \ {r} : todo'[q] = todo[q]
      /\ todo'[r]["fill"] = FillWrites(kind[r])
      /\ \A u \in Threads \ {"fill"} : todo'[r][u] = todo[r][u]
  BY <1>1, AssignFacts, EntryLists DEF Threads
<1>4. /\ todo'[r]["handler"] = Done /\ todo'[r]["symbolic"] = todo[r]["symbolic"]
      /\ todo'[r]["model"] = todo[r]["model"]
  BY <1>1, <1>3 DEF Threads
<1>5. kind[r] \notin Streams
  BY <1>1, SameValues DEF Progress
<1>6. Owes(r)'
  <2>1. /\ Owing(r) /\ Inlined(r)
        /\ todo'[r]["fill"] \in {Done, SymJson, BlobMeta}
        /\ todo'[r]["fill"] # Meta /\ todo'[r]["fill"] # Json /\ kind[r] # "parquetStream"
    <3>1. \/ FillWrites(kind[r]) = Done
          \/ FillWrites(kind[r]) = SymJson
          \/ FillWrites(kind[r]) = BlobMeta
      BY Lists
    <3>2. Owing(r) /\ Inlined(r)
      BY Unowed
    <3>3. kind[r] # "parquetStream"
      BY <1>5 DEF Streams
    <3>. QED
      BY <1>3, <3>1, <3>2, <3>3, ListsDiffer
  <2>2. Owing(r)'
    BY <1>1, <1>2, <1>4, <2>1 DEF Owing
  <2>3. Inlined(r)'
    <3>1. /\ kind[r] = "parquet" => IsCached(key[r], "dm") /\ IsCached(key[r], "sym")
          /\ kind[r] = "optimized" => IsCached(key[r], "sym")
      BY <1>1, <2>1, ListsDiffer DEF Inlined
    <3>. QED
      BY <1>1, <1>2, <3>1 DEF Inlined, IsCached
  <2>4. Filled(r)'
    BY <1>1, <2>1 DEF Filled
  <2>. QED
    BY <2>2, <2>3, <2>4 DEF Owes
<1>7. /\ rows' \in [Requests -> Nat] /\ writer' \in [Requests -> BOOLEAN]
      /\ \A q \in Requests \ {r} : rows'[q] = rows[q] /\ writer'[q] = writer[q] /\ todo'[q] = todo[q]
  BY <1>1, <1>3 DEF CInv, Held
<1>. QED
  BY <1>1, <1>3, <1>6, <1>7, EndKeeps DEF Answers

LEMMA CancelKeeps ==
  ASSUME CInv, NEW r \in Requests, Cancel(r)
  PROVE  CInv'
<1>1. /\ pc[r] \in {"acquire", "extract", "read", "readSym", "work", "write"} /\ End(r, "none")
      /\ Assign(r, "handler", Done)
      /\ kind' = kind /\ key' = key /\ rows' = rows /\ writer' = writer
      /\ cache' = cache /\ lost' = lost /\ UNCHANGED <<request, diskVars>>
  BY DEF Cancel, At, request, diskVars, Done
<1>2. pc'[r] = "gone" /\ answer'[r] = "none"
  BY <1>1 DEF CInv, Held, End, Goto
<1>3. /\ todo' \in [Requests -> [Threads -> Seq(Entries)]]
      /\ \A q \in Requests \ {r} : todo'[q] = todo[q]
      /\ todo'[r]["handler"] = Done
      /\ \A u \in Threads \ {"handler"} : todo'[r][u] = todo[r][u]
  <2>1. Done \in Seq(Entries) /\ "handler" \in Threads
    BY DEF Threads, Done
  <2>. QED
    BY <1>1, <2>1, AssignFacts
<1>4. /\ todo'[r]["fill"] = Done /\ todo'[r]["symbolic"] = Done
      /\ todo'[r]["model"] = todo[r]["model"]
  <2>1. todo[r]["fill"] = Done /\ todo[r]["symbolic"] = Done
    BY <1>1, Unowed
  <2>. QED
    BY <1>3, <2>1 DEF Threads
<1>5. Owes(r)'
  <2>1. Owing(r)'
    BY <1>2, <1>3, <1>4, Unowed DEF Owing
  <2>2. Inlined(r)'
    BY <1>2, <1>4 DEF Inlined
  <2>3. Filled(r)'
    BY <1>4, ListsDiffer DEF Filled
  <2>. QED
    BY <2>1, <2>2, <2>3 DEF Owes
<1>6. /\ rows' \in [Requests -> Nat] /\ writer' \in [Requests -> BOOLEAN]
      /\ \A q \in Requests \ {r} : rows'[q] = rows[q] /\ writer'[q] = writer[q] /\ todo'[q] = todo[q]
  BY <1>1, <1>3 DEF CInv, Held
<1>. QED
  BY <1>1, <1>3, <1>5, <1>6, EndKeeps DEF Answers

LEMMA PollBatchKeeps ==
  ASSUME CInv, NEW r \in Requests, PollBatch(r)
  PROVE  CInv'
<1>1. /\ pc[r] = "stream" /\ polled[r] < Batches[key[r]] /\ polled' = [polled EXCEPT ![r] = @ + 1]
      /\ pc' = pc /\ kind' = kind /\ key' = key /\ found' = found /\ answer' = answer
      /\ todo' = todo /\ cache' = cache /\ lost' = lost /\ crashes' = crashes
      /\ UNCHANGED <<request, diskVars>>
  BY DEF PollBatch, At, request, diskVars
<1>2. polled'[r] = polled[r] + 1
  BY <1>1 DEF CInv, Held
<1>3. /\ rows' \in [Requests -> Nat] /\ writer' \in [Requests -> BOOLEAN]
      /\ \A q \in Requests \ {r} : rows'[q] = rows[q] /\ writer'[q] = writer[q]
      /\ writer'[r] => (writer[r] /\ rows'[r] = rows[r] + 1)
  <2>1. CASE writer' = writer /\ rows' = [rows EXCEPT ![r] = IF writer[r] THEN @ + 1 ELSE @]
    BY <2>1 DEF CInv, Held
  <2>2. CASE writer' = [writer EXCEPT ![r] = FALSE] /\ rows' = [rows EXCEPT ![r] = 0]
    BY <2>2 DEF CInv, Held
  <2>. QED
    BY <2>1, <2>2 DEF PollBatch
<1>4. Held' /\ Alone(r)
  <2>1. polled' \in [Requests -> Nat] /\ \A q \in Requests \ {r} : polled'[q] = polled[q]
    BY <1>1 DEF CInv, Held
  <2>. QED
    BY <1>1, <1>3, <2>1 DEF CInv, Held, Alone
<1>5. Owes(r)'
  <2>1. Owing(r)'
    BY <1>1, Unowed DEF Owing
  <2>2. Inlined(r)'
    BY <1>1, Unowed DEF Inlined, IsCached
  <2>3. Filled(r)'
    BY <1>1, Unowed, ListsDiffer DEF Filled
  <2>. QED
    BY <2>1, <2>2, <2>3 DEF Owes
<1>6. Progress(r)'
  BY <1>1, <1>2, <1>3, SameValues, BatchesAssumption DEF Progress
<1>. QED
  BY <1>1, <1>4, <1>5, <1>6, RequestStep

\* Only a writer that got every batch is handed to the task that fills the cache.
LEMMA PollCompleteKeeps ==
  ASSUME CInv, NEW r \in Requests, PollComplete(r)
  PROVE  CInv'
<1>1. /\ pc[r] = "stream" /\ polled[r] = Batches[key[r]] /\ pc' = [pc EXCEPT ![r] = "drained"]
      /\ kind' = kind /\ key' = key /\ found' = found /\ polled' = polled
      /\ answer' = [answer EXCEPT ![r] = "fresh"]
      /\ rows' = rows /\ writer' = writer /\ cache' = cache /\ lost' = lost /\ crashes' = crashes
      /\ UNCHANGED <<request, diskVars>>
  BY DEF PollComplete, At, Goto, request, diskVars, streamVars
<1>2. pc'[r] = "drained"
  BY <1>1 DEF CInv, Held
<1>3. /\ todo' \in [Requests -> [Threads -> Seq(Entries)]]
      /\ \A q \in Requests \ {r} : todo'[q] = todo[q]
      /\ todo'[r]["handler"] = todo[r]["handler"] /\ todo'[r]["model"] = todo[r]["model"]
      /\ todo'[r]["symbolic"] \in {Done, Sym}
      /\ \/ todo'[r]["fill"] = Done
         \/ kind[r] = "parquetStream" /\ writer[r] /\ todo'[r]["fill"] = BlobMeta
  <2>1. CASE kind[r] = "parquetStream"
    <3>. DEFINE fill == IF writer[r] /\ rows[r] > 0 THEN FillWrites(kind[r]) ELSE Done
    <3>1. todo' = [todo EXCEPT ![r]["symbolic"] = Sym, ![r]["fill"] = fill]
      BY <2>1 DEF PollComplete, Done, Sym
    <3>2. fill \in Seq(Entries) /\ Sym \in Seq(Entries)
      BY EntryLists DEF Entries, Done, Sym
    <3>3. fill = Done \/ (writer[r] /\ fill = BlobMeta)
      BY <2>1, Lists
    <3>. HIDE DEF fill
    <3>4. todo' \in [Requests -> [Threads -> Seq(Entries)]]
      BY <3>1, <3>2 DEF CInv, Held
    <3>5. /\ \A q \in Requests \ {r} : todo'[q] = todo[q]
          /\ todo'[r]["handler"] = todo[r]["handler"] /\ todo'[r]["model"] = todo[r]["model"]
          /\ todo'[r]["symbolic"] = Sym /\ todo'[r]["fill"] = fill
      BY <3>1 DEF CInv, Held, Threads
    <3>. QED
      BY <2>1, <3>3, <3>4, <3>5
  <2>2. CASE kind[r] # "parquetStream"
    <3>1. todo' = todo
      BY <2>2 DEF PollComplete
    <3>2. todo[r]["fill"] = Done /\ todo[r]["symbolic"] \in {Done, Sym}
      BY <1>1, SameValues DEF Owes, Owing, Inlined, Filled
    <3>. QED
      BY <3>1, <3>2 DEF CInv, Held
  <2>. QED
    BY <2>1, <2>2
<1>4. Held' /\ Alone(r)
  BY <1>1, <1>3 DEF CInv, Held, Alone, PCs, Answers
<1>5. Owes(r)'
  <2>1. writer[r] => rows[r] = Batches[key[r]]
    BY <1>1, SameValues DEF Progress
  <2>2. kind[r] \in Streams
    BY <1>1, SameValues DEF Progress
  <2>. QED
    <3>1. Owing(r)'
      BY <1>1, <1>2, <1>3, Unowed DEF Owing
    <3>2. Inlined(r)'
      BY <1>1, <1>2, <2>2 DEF Inlined, Streams
    <3>3. Filled(r)'
      BY <1>1, <1>3, <2>1, ListsDiffer DEF Filled
    <3>. QED
      BY <3>1, <3>2, <3>3 DEF Owes
<1>6. Progress(r)'
  BY <1>1, <1>2, SameValues DEF Progress
<1>. QED
  BY <1>1, <1>2, <1>4, <1>5, <1>6, RequestStep

\* The stream is over, with or without its client.
LEMMA StreamOver ==
  ASSUME CInv, NEW r \in Requests, NEW a \in Answers, pc[r] \in {"stream", "drained"},
         End(r, a), DropWriter(r), UNCHANGED <<request, todo, diskVars>>
  PROVE  CInv'
<1>1. /\ kind' = kind /\ key' = key /\ todo' = todo /\ cache' = cache /\ lost' = lost
      /\ UNCHANGED <<request, diskVars>>
  BY DEF request, diskVars
<1>2. pc'[r] = "gone" /\ answer'[r] = a
  BY DEF End, Goto, CInv, Held
<1>3. /\ rows' \in [Requests -> Nat] /\ writer' \in [Requests -> BOOLEAN]
      /\ todo' \in [Requests -> [Threads -> Seq(Entries)]]
      /\ \A q \in Requests \ {r} : rows'[q] = rows[q] /\ writer'[q] = writer[q] /\ todo'[q] = todo[q]
      /\ pc[r] = "drained" => rows'[r] = rows[r]
  BY <1>1 DEF DropWriter, At, CInv, Held
<1>4. kind[r] \in Streams /\ (pc[r] = "stream" => todo[r]["fill"] = Done)
  BY SameValues DEF Progress, Owes, Owing
<1>5. Owes(r)'
  <2>1. Owing(r)'
    BY <1>1, <1>2, Unowed DEF Owing
  <2>2. Inlined(r)'
    BY <1>2, <1>4, <1>1 DEF Inlined, Streams
  <2>3. Filled(r)'
    BY <1>1, <1>3, <1>4, Unowed, ListsDiffer DEF Filled, IsCached
  <2>. QED
    BY <2>1, <2>2, <2>3 DEF Owes
<1>. QED
  BY <1>1, <1>3, <1>5, EndKeeps

\* Blocking work and the gate's moves touch nothing of what the cache depends on.
LEMMA QuietKeeps ==
  ASSUME CInv, UNCHANGED <<request, pc, found, answer, streamVars, todo, diskVars>>
  PROVE  CInv'
<1>1. /\ kind' = kind /\ key' = key /\ pc' = pc /\ found' = found /\ answer' = answer
      /\ polled' = polled /\ rows' = rows /\ writer' = writer /\ todo' = todo
      /\ cache' = cache /\ lost' = lost /\ crashes' = crashes
  BY DEF request, streamVars, diskVars
<1>2. Held'
  BY <1>1 DEF CInv, Held
<1>3. DiskSound'
  BY <1>1 DEF CInv, DiskSound, CachedWhole, FilledInOrder, IsCached
<1>4. ASSUME NEW q \in Requests PROVE Owes(q)' /\ Progress(q)'
  <2>1. Owes(q) /\ Progress(q)
    BY DEF CInv
  <2>2. Owes(q)'
    BY <1>1, <2>1 DEF Owes, Owing, Inlined, Filled, IsCached
  <2>3. Progress(q)'
    BY <1>1, <2>1 DEF Progress
  <2>. QED
    BY <2>2, <2>3
<1>. QED
  BY <1>2, <1>3, <1>4 DEF CInv

LEMMA ModelExtractedKeeps ==
  ASSUME GInv, CInv, NEW r \in Requests, ModelExtracted(r)
  PROVE  CInv'
<1>1. /\ model[r] = "extract" /\ Assign(r, "model", Dm)
      /\ kind' = kind /\ key' = key /\ pc' = pc /\ found' = found /\ answer' = answer
      /\ polled' = polled /\ rows' = rows /\ writer' = writer
      /\ cache' = cache /\ lost' = lost /\ crashes' = crashes /\ UNCHANGED <<request, diskVars>>
  BY DEF ModelExtracted, ModelAt, request, streamVars, diskVars, Dm
<1>2. pc[r] # "idle"
  BY <1>1 DEF GInv, Places
<1>3. Dm \in Seq(Entries) /\ "model" \in Threads
  BY DEF Dm, Entries, Threads
<1>4. /\ todo' \in [Requests -> [Threads -> Seq(Entries)]]
      /\ \A q \in Requests \ {r} : todo'[q] = todo[q]
      /\ todo'[r]["model"] = Dm
      /\ \A u \in Threads \ {"model"} : todo'[r][u] = todo[r][u]
  BY <1>1, <1>3, AssignFacts
<1>5. /\ todo'[r]["handler"] = todo[r]["handler"] /\ todo'[r]["fill"] = todo[r]["fill"]
      /\ todo'[r]["symbolic"] = todo[r]["symbolic"]
  BY <1>4 DEF Threads
<1>6. Owes(r)'
  <2>1. Owing(r)'
    BY <1>1, <1>2, <1>4, <1>5, Unowed DEF Owing
  <2>2. Inlined(r)' /\ Filled(r)'
    BY <1>1, <1>5, Unowed DEF Inlined, Filled, IsCached
  <2>. QED
    BY <2>1, <2>2 DEF Owes
<1>7. Progress(r)'
  BY <1>1, SameValues DEF Progress
<1>8. Held' /\ Alone(r)
  BY <1>1, <1>4 DEF CInv, Held, Alone
<1>. QED
  BY <1>1, <1>2, <1>6, <1>7, <1>8, RequestStep

LEMMA FinishFailsKeeps ==
  ASSUME CInv, NEW r \in Requests, FinishFails(r)
  PROVE  CInv'
<1>1. /\ kind[r] = "parquetStream" /\ todo[r]["fill"] = FillWrites(kind[r]) /\ Assign(r, "fill", Done)
      /\ kind' = kind /\ key' = key /\ pc' = pc /\ found' = found /\ answer' = answer
      /\ polled' = polled /\ rows' = rows /\ writer' = writer
      /\ cache' = cache /\ lost' = lost /\ crashes' = crashes /\ UNCHANGED <<request, diskVars>>
  BY DEF FinishFails, request, streamVars, diskVars, Done
<1>2. pc[r] # "idle"
  <2>1. todo[r]["fill"] # Done
    BY <1>1, ListsDiffer DEF FillWrites, BlobMeta
  <2>. QED
    BY <2>1, Unowed
<1>3. Done \in Seq(Entries) /\ "fill" \in Threads
  BY DEF Done, Threads
<1>4. /\ todo' \in [Requests -> [Threads -> Seq(Entries)]]
      /\ \A q \in Requests \ {r} : todo'[q] = todo[q]
      /\ todo'[r]["fill"] = Done
      /\ \A u \in Threads \ {"fill"} : todo'[r][u] = todo[r][u]
  BY <1>1, <1>3, AssignFacts
<1>5. /\ todo'[r]["handler"] = todo[r]["handler"] /\ todo'[r]["model"] = todo[r]["model"]
      /\ todo'[r]["symbolic"] = todo[r]["symbolic"]
  BY <1>4 DEF Threads
<1>6. Owes(r)'
  <2>1. Owing(r)'
    BY <1>1, <1>4, <1>5, Unowed DEF Owing
  <2>2. Inlined(r)'
    BY <1>1, <1>4, <1>5, Unowed DEF Inlined, IsCached
  <2>3. Filled(r)'
    BY <1>4, ListsDiffer DEF Filled
  <2>. QED
    BY <2>1, <2>2, <2>3 DEF Owes
<1>7. Progress(r)'
  BY <1>1, SameValues DEF Progress
<1>8. Held' /\ Alone(r)
  BY <1>1, <1>4 DEF CInv, Held, Alone
<1>. QED
  BY <1>1, <1>2, <1>6, <1>7, <1>8, RequestStep

\* Whoever arrives has cached nothing yet.
LEMMA ArriveKeeps ==
  ASSUME CInv, NEW r \in Requests, NEW k \in Kinds, NEW d \in Keys, Arrive(r, k, d)
  PROVE  CInv'
<1>1. PICK p \in {"acquire", "read"} : pc' = [pc EXCEPT ![r] = p]
  BY DEF Arrive, Goto
<1>2. /\ pc[r] = "idle" /\ kind' = [kind EXCEPT ![r] = k] /\ key' = [key EXCEPT ![r] = d]
      /\ found' = found /\ answer' = answer
      /\ polled' = polled /\ rows' = rows /\ writer' = writer /\ todo' = todo
      /\ cache' = cache /\ lost' = lost /\ crashes' = crashes
  BY DEF Arrive, At, streamVars, diskVars
<1>3. /\ pc'[r] = p /\ kind'[r] = k /\ key'[r] = d
      /\ \A q \in Requests \ {r} : pc'[q] = pc[q] /\ kind'[q] = kind[q] /\ key'[q] = key[q]
  BY <1>1, <1>2 DEF CInv, Held
<1>4. Held'
  BY <1>1, <1>2 DEF CInv, Held, PCs
<1>5. ASSUME NEW c \in Keys, NEW e \in Entries, cache[c][e] # Nothing
      PROVE  /\ cache[c][e].by \in Requests \ {r}
             /\ kind'[cache[c][e].by] = kind[cache[c][e].by] /\ pc'[cache[c][e].by] # "idle"
  <2>1. cache[c][e] \in Values /\ pc[cache[c][e].by] # "idle"
    BY <1>5 DEF CInv, Held, DiskSound
  <2>2. cache[c][e].by \in Requests \ {r}
    BY <1>2, <2>1 DEF Values
  <2>. QED
    BY <1>3, <2>1, <2>2
<1>6. DiskSound'
  <2>1. CachedWhole'
    BY <1>2 DEF CInv, DiskSound, CachedWhole
  <2>2. FilledInOrder'
    <3>1. FilledInOrder /\ "blob" \in Entries /\ "meta" \in Entries
      BY DEF CInv, DiskSound, Entries
    <3>2. \A c \in Keys, e \in Entries : IsCached(c, e)' <=> IsCached(c, e)
      BY <1>2 DEF IsCached
    <3>3. ASSUME NEW c \in Keys
          PROVE  /\ cache'[c]["meta"] # Nothing => IsCached(c, "blob")'
                 /\ cache'[c]["json"] # Nothing => IsCached(c, "sym")'
      BY <1>2, <3>1, <3>2 DEF FilledInOrder, Entries
    <3>4. ASSUME NEW c \in Keys, NEW e \in {"blob", "meta"}, cache'[c][e] # Nothing,
                 kind'[cache'[c][e].by] = "parquet"
          PROVE  IsCached(c, "dm")' /\ IsCached(c, "sym")'
      <4>1. e \in Entries /\ cache[c][e] # Nothing
        BY <1>2, <3>1, <3>4
      <4>2. kind[cache[c][e].by] = "parquet"
        BY <1>2, <1>5, <3>4, <4>1
      <4>. QED
        BY <3>1, <3>2, <3>4, <4>1, <4>2 DEF FilledInOrder, Entries
    <3>. QED
      BY <3>3, <3>4 DEF FilledInOrder
  <2>. QED
    BY <1>2, <1>5, <2>1, <2>2 DEF DiskSound
<1>7. ASSUME NEW q \in Requests PROVE Owes(q)'
  <2>1. CASE q = r
    <3>1. /\ Owing(r)' /\ todo'[r]["fill"] = Done /\ answer'[r] # "fresh"
      BY <1>2, <1>3, <1>1, Unowed, SameValues DEF Owing, Progress
    <3>2. Inlined(r)' /\ Filled(r)'
      BY <1>1, <1>3, <3>1, ListsDiffer DEF Inlined, Filled
    <3>. QED
      BY <2>1, <3>1, <3>2 DEF Owes
  <2>2. CASE q # r
    BY <1>2, <1>3, <2>2, Unowed DEF Owes, Owing, Inlined, Filled, IsCached
  <2>. QED
    BY <2>1, <2>2
<1>8. ASSUME NEW q \in Requests PROVE Progress(q)'
  <2>1. CASE q = r
    <3>1. /\ found[r] = <<>> /\ polled[r] = 0 /\ rows[r] = 0 /\ answer[r] # "fresh"
      BY <1>2, SameValues DEF Progress
    <3>2. 0 <= Batches[d] /\ Len(Reads(k)) \in Nat /\ Len(<<>>) = 0
      BY BatchesAssumption, EntryLists
    <3>. QED
      BY <1>1, <1>2, <1>3, <2>1, <3>1, <3>2 DEF Progress
  <2>2. CASE q # r
    <3>1. Progress(q)
      BY SameValues
    <3>. QED
      BY <1>2, <1>3, <2>2, <3>1 DEF Progress
  <2>. QED
    BY <2>1, <2>2
<1>. QED
  BY <1>4, <1>6, <1>7, <1>8 DEF CInv

\* Which entry a thread writes next, and what it has left then.
LEMMA NextWrite ==
  ASSUME CInv, NEW r \in Requests, NEW t \in Threads, todo[r][t] # <<>>
  PROVE  LET e == Head(todo[r][t])  left == Tail(todo[r][t])
         IN  \/ t = "handler" /\ todo[r][t] = DmSym /\ e = "dm" /\ left = Sym
             \/ t = "handler" /\ todo[r][t] = Sym /\ e = "sym" /\ left = Done
             \/ t = "fill" /\ todo[r][t] = BlobMeta /\ e = "blob" /\ left = Meta
             \/ t = "fill" /\ todo[r][t] = Meta /\ e = "meta" /\ left = Done
             \/ t = "fill" /\ todo[r][t] = SymJson /\ e = "sym" /\ left = Json
             \/ t = "fill" /\ todo[r][t] = Json /\ e = "json" /\ left = Done
             \/ t = "symbolic" /\ todo[r][t] = Sym /\ e = "sym" /\ left = Done
             \/ t = "model" /\ todo[r][t] = Dm /\ e = "dm" /\ left = Done
<1>1. /\ Head(Dm) = "dm" /\ Tail(Dm) = Done /\ Head(Sym) = "sym" /\ Tail(Sym) = Done
      /\ Head(DmSym) = "dm" /\ Tail(DmSym) = Sym /\ Head(Json) = "json" /\ Tail(Json) = Done
      /\ Head(SymJson) = "sym" /\ Tail(SymJson) = Json /\ Head(Meta) = "meta" /\ Tail(Meta) = Done
      /\ Head(BlobMeta) = "blob" /\ Tail(BlobMeta) = Meta
  BY DEF Done, Dm, Sym, DmSym, Json, SymJson, Meta, BlobMeta
<1>2. todo[r][t] # Done
  BY DEF Done
<1>3. Owing(r)
  BY Unowed
<1>4. CASE t = "handler"
  BY <1>1, <1>2, <1>3, <1>4 DEF Owing
<1>5. CASE t = "fill"
  BY <1>1, <1>2, <1>3, <1>5 DEF Owing
<1>6. CASE t = "symbolic"
  BY <1>1, <1>2, <1>3, <1>6 DEF Owing
<1>7. CASE t = "model"
  BY <1>1, <1>2, <1>3, <1>7 DEF Owing
<1>. QED
  BY <1>4, <1>5, <1>6, <1>7 DEF Threads

\* One entry is written, or its write fails; nothing that was cached is lost.
LEMMA WriteKeeps ==
  ASSUME CInv, NEW r \in Requests, NEW t \in Threads, Write(r, t)
  PROVE  CInv'
<1>0. PICK e, left : e = Head(todo[r][t]) /\ left = Tail(todo[r][t])
  OBVIOUS
<1>1. /\ todo[r][t] # <<>> /\ Assign(r, t, left)
      /\ kind' = kind /\ key' = key /\ pc' = pc /\ found' = found /\ answer' = answer
      /\ polled' = polled /\ rows' = rows /\ writer' = writer /\ crashes' = crashes
  BY <1>0 DEF Write, request, streamVars
<1>2. \/ cache' = [cache EXCEPT ![key[r]][e] = Written(r, e)] /\ lost' = lost
      \/ lost' = lost \cup {<<key[r], e>>} /\ cache' = cache
  BY <1>0 DEF Write
<1>3. \/ t = "handler" /\ todo[r][t] = DmSym /\ e = "dm" /\ left = Sym
      \/ t = "handler" /\ todo[r][t] = Sym /\ e = "sym" /\ left = Done
      \/ t = "fill" /\ todo[r][t] = BlobMeta /\ e = "blob" /\ left = Meta
      \/ t = "fill" /\ todo[r][t] = Meta /\ e = "meta" /\ left = Done
      \/ t = "fill" /\ todo[r][t] = SymJson /\ e = "sym" /\ left = Json
      \/ t = "fill" /\ todo[r][t] = Json /\ e = "json" /\ left = Done
      \/ t = "symbolic" /\ todo[r][t] = Sym /\ e = "sym" /\ left = Done
      \/ t = "model" /\ todo[r][t] = Dm /\ e = "dm" /\ left = Done
  BY <1>0, <1>1, NextWrite
<1>4. e \in Entries /\ left \in Seq(Entries)
  <2>1. /\ Done \in Seq(Entries) /\ Sym \in Seq(Entries) /\ Meta \in Seq(Entries)
        /\ Json \in Seq(Entries)
    BY DEF Entries, Done, Sym, Meta, Json
  <2>. QED
    BY <1>3, <2>1 DEF Entries
<1>5. /\ todo' \in [Requests -> [Threads -> Seq(Entries)]]
      /\ \A q \in Requests \ {r} : todo'[q] = todo[q]
      /\ todo'[r][t] = left /\ \A u \in Threads \ {t} : todo'[r][u] = todo[r][u]
  BY <1>1, <1>4, AssignFacts
<1>6. pc[r] # "idle" /\ kind[r] \in Kinds /\ key[r] \in Keys
  <2>1. pc[r] # "idle"
    BY <1>3, ListsDiffer, Unowed DEF Owing
  <2>. QED
    BY <2>1, SameValues DEF Progress
<1>7. Written(r, e) \in Values /\ Written(r, e).by = r /\ Written(r, e) # Nothing
  BY <1>6, SameValues, BatchesAssumption, NothingAssumption DEF Written, Values
<1>8. \A c \in Keys, f \in Entries :
        /\ cache'[c][f] = cache[c][f] \/ (c = key[r] /\ f = e /\ cache'[c][f] = Written(r, e))
        /\ IsCached(c, f) => IsCached(c, f)'
  <2>1. cache \in [Keys -> [Entries -> Values \cup {Nothing}]]
    BY DEF CInv, Held
  <2>2. \A c \in Keys, f \in Entries :
          /\ cache'[c][f] = cache[c][f] \/ (c = key[r] /\ f = e /\ cache'[c][f] = Written(r, e))
          /\ lost \subseteq lost'
    <3>1. CASE cache' = [cache EXCEPT ![key[r]][e] = Written(r, e)] /\ lost' = lost
      BY <1>4, <1>6, <2>1, <3>1
    <3>2. CASE lost' = lost \cup {<<key[r], e>>} /\ cache' = cache
      BY <3>2
    <3>. QED
      BY <1>2, <3>1, <3>2
  <2>. QED
    BY <1>7, <2>2 DEF IsCached
<1>9. IsCached(key[r], e)'
  <2>1. cache \in [Keys -> [Entries -> Values \cup {Nothing}]]
    BY DEF CInv, Held
  <2>2. cache'[key[r]][e] = Written(r, e) \/ <<key[r], e>> \in lost'
    BY <1>2, <1>4, <1>6, <2>1
  <2>. QED
    <3>1. key' = key /\ Written(r, e) # Nothing
      BY <1>1, <1>7
    <3>. QED
      BY <2>2, <3>1 DEF IsCached
<1>10. Held'
  <2>1. cache' \in [Keys -> [Entries -> Values \cup {Nothing}]] /\ lost' \subseteq Keys \X Entries
    <3>1. cache \in [Keys -> [Entries -> Values \cup {Nothing}]] /\ lost \subseteq Keys \X Entries
      BY DEF CInv, Held
    <3>2. CASE cache' = [cache EXCEPT ![key[r]][e] = Written(r, e)] /\ lost' = lost
      BY <1>4, <1>6, <1>7, <3>1, <3>2
    <3>3. CASE lost' = lost \cup {<<key[r], e>>} /\ cache' = cache
      BY <1>4, <1>6, <3>1, <3>3
    <3>. QED
      BY <1>2, <3>2, <3>3
  <2>. QED
    BY <1>1, <1>5, <2>1 DEF CInv, Held
<1>11. /\ todo[r]["fill"] # Done /\ kind[r] = "parquet" =>
             IsCached(key[r], "dm")' /\ IsCached(key[r], "sym")'
       /\ e = "blob" => Written(r, e).batches = Batches[key[r]]
       /\ e = "meta" => IsCached(key[r], "blob")'
       /\ e = "json" => IsCached(key[r], "sym")'
       /\ e \in {"blob", "meta"} => todo[r]["fill"] # Done
  <2>1. Inlined(r) /\ Filled(r) /\ {"blob", "sym", "dm"} \subseteq Entries
    BY Unowed DEF Entries
  <2>2. todo[r]["fill"] # Done /\ kind[r] = "parquet" =>
             IsCached(key[r], "dm")' /\ IsCached(key[r], "sym")'
    BY <1>1, <1>6, <1>8, <2>1 DEF Inlined
  <2>3. e = "blob" => todo[r]["fill"] = BlobMeta
    BY <1>3
  <2>4. e = "meta" => todo[r]["fill"] = Meta
    BY <1>3
  <2>5. e = "json" => todo[r]["fill"] = Json
    BY <1>3
  <2>6. e = "blob" => Written(r, e).batches = Batches[key[r]]
    BY <2>1, <2>3 DEF Filled, Written
  <2>7. (e = "meta" => IsCached(key[r], "blob")') /\ (e = "json" => IsCached(key[r], "sym")')
    BY <1>1, <1>6, <1>8, <2>1, <2>4, <2>5 DEF Filled
  <2>. QED
    BY <2>2, <2>3, <2>4, <2>6, <2>7, ListsDiffer
<1>12. DiskSound'
  <2>. USE DEF Entries
  <2>1. CachedWhole /\ FilledInOrder
    BY DEF CInv, DiskSound
  <2>2. CachedWhole'
    BY <1>8, <1>11, <2>1 DEF CachedWhole
  <2>3. ASSUME NEW k \in Keys, cache'[k]["meta"] # Nothing PROVE IsCached(k, "blob")'
    BY <1>1, <1>8, <1>11, <2>1, <2>3 DEF FilledInOrder
  <2>4. ASSUME NEW k \in Keys, cache'[k]["json"] # Nothing PROVE IsCached(k, "sym")'
    BY <1>1, <1>8, <1>11, <2>1, <2>4 DEF FilledInOrder
  <2>5. ASSUME NEW k \in Keys, NEW f \in {"blob", "meta"}, cache'[k][f] # Nothing,
               kind'[cache'[k][f].by] = "parquet"
        PROVE  IsCached(k, "dm")' /\ IsCached(k, "sym")'
    <3>1. CASE cache'[k][f] = cache[k][f]
      BY <1>1, <1>8, <2>1, <2>5, <3>1 DEF FilledInOrder
    <3>2. CASE k = key[r] /\ f = e /\ cache'[k][f] = Written(r, e)
      BY <1>1, <1>7, <1>11, <2>5, <3>2
    <3>. QED
      BY <1>8, <3>1, <3>2
  <2>6. FilledInOrder'
    BY <2>3, <2>4, <2>5 DEF FilledInOrder
  <2>7. \A k \in Keys, f \in Entries : cache'[k][f] # Nothing => pc'[cache'[k][f].by] # "idle"
    BY <1>1, <1>6, <1>7, <1>8 DEF CInv, DiskSound
  <2>. QED
    BY <2>2, <2>6, <2>7 DEF DiskSound
<1>13. Owing(r)'
  <2>1. Owing(r)
    BY Unowed
  <2>2. t \in {"handler", "fill", "symbolic", "model"}
    BY <1>3
  <2>3. CASE t = "handler"
    BY <1>1, <1>3, <1>5, <2>1, <2>3, ListsDiffer DEF Owing, Threads
  <2>4. CASE t = "fill"
    BY <1>1, <1>3, <1>5, <2>1, <2>4, ListsDiffer DEF Owing, Threads
  <2>5. CASE t = "symbolic"
    BY <1>1, <1>3, <1>5, <2>1, <2>5, ListsDiffer DEF Owing, Threads
  <2>6. CASE t = "model"
    BY <1>1, <1>3, <1>5, <2>1, <2>6, ListsDiffer DEF Owing, Threads
  <2>. QED
    BY <2>2, <2>3, <2>4, <2>5, <2>6
<1>14. Inlined(r)'
  <2>1. Inlined(r) /\ {"sym", "dm"} \subseteq Entries
    BY Unowed DEF Entries
  <2>2. CASE t = "handler"
    <3>1. todo'[r]["fill"] = todo[r]["fill"] /\ todo'[r]["handler"] = left
      BY <1>5, <2>2 DEF Threads
    <3>. QED
      BY <1>1, <1>3, <1>6, <1>8, <1>9, <2>1, <2>2, <3>1, ListsDiffer DEF Inlined
  <2>3. CASE t # "handler"
    <3>1. todo'[r]["handler"] = todo[r]["handler"]
      BY <1>5, <2>3 DEF Threads
    <3>2. todo'[r]["fill"] # Done => todo[r]["fill"] # Done
      BY <1>3, <1>5, <2>3, ListsDiffer DEF Threads
    <3>. QED
      BY <1>1, <1>6, <1>8, <2>1, <3>1, <3>2 DEF Inlined
  <2>. QED
    BY <2>2, <2>3
<1>15. Filled(r)'
  <2>1. Filled(r) /\ {"blob", "sym"} \subseteq Entries
    BY Unowed DEF Entries
  <2>2. CASE t = "fill"
    <3>1. \/ todo'[r]["fill"] = Meta /\ e = "blob"
          \/ todo'[r]["fill"] = Json /\ e = "sym"
          \/ todo'[r]["fill"] = Done
      BY <1>3, <1>5, <2>2
    <3>. QED
      <4>1. CASE e = "blob"
        BY <1>1, <1>3, <1>9, <2>2, <3>1, <4>1, ListsDiffer DEF Filled
      <4>2. CASE e = "sym"
        BY <1>1, <1>3, <1>9, <2>2, <3>1, <4>2, ListsDiffer DEF Filled
      <4>3. CASE todo'[r]["fill"] = Done
        BY <4>3, ListsDiffer DEF Filled
      <4>. QED
        BY <3>1, <4>1, <4>2, <4>3
  <2>3. CASE t # "fill"
    <3>1. todo'[r]["fill"] = todo[r]["fill"]
      BY <1>5, <2>3 DEF Threads
    <3>. QED
      BY <1>1, <1>6, <1>8, <2>1, <3>1 DEF Filled
  <2>. QED
    BY <2>2, <2>3
<1>16. ASSUME NEW q \in Requests PROVE Owes(q)' /\ Progress(q)'
  <2>1. Owes(q) /\ Progress(q)
    BY SameValues
  <2>2. Progress(q)'
    BY <1>1, <2>1 DEF Progress
  <2>3. CASE q = r
    BY <1>13, <1>14, <1>15, <2>2, <2>3 DEF Owes
  <2>4. CASE q # r
    <3>1. todo'[q] = todo[q] /\ {"sym", "dm", "blob"} \subseteq Entries
      BY <1>5, <2>4 DEF Entries
    <3>2. CASE key[q] \in Keys
      BY <1>1, <1>8, <2>1, <2>2, <3>1, <3>2 DEF Owes, Owing, Inlined, Filled
    <3>3. CASE key[q] \notin Keys
      <4>1. pc[q] = "idle"
        BY <2>1, <3>3 DEF Progress
      <4>2. Owing(q) /\ answer[q] # "fresh"
        BY <2>1, <4>1 DEF Progress, Owes
      <4>3. todo[q]["handler"] = Done /\ todo[q]["fill"] = Done
        BY <4>1, <4>2 DEF Owing
      <4>4. Owing(q)'
        BY <1>1, <3>1, <4>2 DEF Owing
      <4>5. Inlined(q)' /\ Filled(q)'
        BY <1>1, <3>1, <4>1, <4>2, <4>3, ListsDiffer DEF Inlined, Filled
      <4>. QED
        BY <2>2, <4>4, <4>5 DEF Owes
    <3>. QED
      BY <3>2, <3>3
  <2>. QED
    BY <2>3, <2>4
<1>. QED
  BY <1>10, <1>12, <1>16 DEF CInv

\* A restart leaves the disk as it is and owes it nothing any more.
LEMMA CrashKeeps ==
  ASSUME CInv, Crash
  PROVE  CInv'
<1>1. /\ pc' = [r \in Requests |-> IF pc[r] # "idle" THEN "gone" ELSE "idle"]
      /\ todo' = [r \in Requests |-> NoWrites] /\ found' = [r \in Requests |-> <<>>]
      /\ polled' = [r \in Requests |-> 0] /\ rows' = [r \in Requests |-> 0]
      /\ writer' = [r \in Requests |-> FALSE]
      /\ kind' = kind /\ key' = key /\ answer' = answer /\ cache' = cache /\ lost' = lost
      /\ crashes \in 0..MaxCrashes /\ crashes < MaxCrashes /\ crashes' = crashes + 1
  BY DEF Crash, At, request, CInv, Held
<1>2. \A r \in Requests :
        /\ pc'[r] = (IF pc[r] # "idle" THEN "gone" ELSE "idle") /\ found'[r] = <<>>
        /\ polled'[r] = 0 /\ rows'[r] = 0 /\ writer'[r] = FALSE
        /\ \A t \in Threads : todo'[r][t] = Done
  BY <1>1 DEF NoWrites, Done
<1>3. Held'
  <2>1. NoWrites \in [Threads -> Seq(Entries)]
    BY DEF NoWrites
  <2>2. crashes' \in 0..MaxCrashes
    BY <1>1, CrashesAssumption
  <2>. QED
    BY <1>1, <2>1, <2>2 DEF CInv, Held, PCs
<1>4. DiskSound'
  <2>1. CachedWhole' /\ FilledInOrder'
    BY <1>1 DEF CInv, DiskSound, CachedWhole, FilledInOrder, IsCached
  <2>2. ASSUME NEW k \in Keys, NEW e \in Entries, cache[k][e] # Nothing
        PROVE  pc'[cache[k][e].by] # "idle"
    <3>1. cache[k][e] \in Values /\ pc[cache[k][e].by] # "idle"
      BY <2>2 DEF CInv, Held, DiskSound
    <3>2. cache[k][e].by \in Requests
      BY <3>1 DEF Values
    <3>. QED
      BY <1>2, <3>1, <3>2
  <2>. QED
    BY <1>1, <2>1, <2>2 DEF DiskSound
<1>5. ASSUME NEW q \in Requests PROVE Owes(q)' /\ Progress(q)'
  <2>1. Inlined(q) /\ Progress(q)
    BY Unowed, SameValues
  <2>2. /\ todo'[q]["handler"] = Done /\ todo'[q]["fill"] = Done
        /\ todo'[q]["symbolic"] = Done /\ todo'[q]["model"] = Done
        /\ pc'[q] = (IF pc[q] # "idle" THEN "gone" ELSE "idle")
    BY <1>2 DEF Threads
  <2>3. Owing(q)'
    BY <2>2 DEF Owing
  <2>4. Inlined(q)'
    BY <1>1, <2>1, <2>2 DEF Inlined, IsCached
  <2>5. Filled(q)'
    BY <2>2, ListsDiffer DEF Filled
  <2>6. Progress(q)'
    BY <1>1, <1>2, <2>1, <2>2, BatchesAssumption DEF Progress
  <2>. QED
    BY <2>3, <2>4, <2>5, <2>6 DEF Owes
<1>. QED
  BY <1>3, <1>4, <1>5 DEF CInv

LEMMA CacheInit == Init => CInv
<1>. SUFFICES ASSUME Init PROVE CInv
  OBVIOUS
<1>1. Held
  <2>1. NoWrites \in [Threads -> Seq(Entries)]
    BY DEF NoWrites
  <2>. QED
    BY <2>1, CrashesAssumption DEF Init, Held, PCs, Answers
<1>2. DiskSound
  BY DEF Init, DiskSound, CachedWhole, FilledInOrder, Entries
<1>3. ASSUME NEW r \in Requests PROVE Owes(r) /\ Progress(r)
  <2>1. /\ todo[r]["handler"] = Done /\ todo[r]["fill"] = Done
        /\ todo[r]["symbolic"] = Done /\ todo[r]["model"] = Done
        /\ pc[r] = "idle" /\ answer[r] = "none"
    BY DEF Init, NoWrites, Threads, Done
  <2>2. Owes(r)
    BY <2>1, ListsDiffer DEF Owes, Owing, Inlined, Filled
  <2>3. Progress(r)
    BY <2>1, BatchesAssumption DEF Init, Progress
  <2>. QED
    BY <2>2, <2>3
<1>. QED
  BY <1>1, <1>2, <1>3 DEF CInv

\* The steps of the handler.
LEMMA HandlerKeepsCache ==
  ASSUME CInv, NEW r \in Requests, Handler(r)
  PROVE  CInv'
<1>1. pc[r] # "write" => todo[r]["handler"] = Done
  BY Unowed DEF Owing
<1>2. CASE Admitted(r)
  BY <1>2, MoveKeeps DEF Admitted, At
<1>3. CASE Refused(r)
  BY <1>1, <1>3, EndEarly DEF Refused, At, Answers
<1>4. CASE Extract(r)
  <2>1. CASE Launch(r)
    BY <1>4, <2>1, LaunchKeeps DEF Extract, At
  <2>2. CASE ~Launch(r)
    BY <1>4, <2>2, MoveKeeps DEF Extract, At
  <2>. QED
    BY <2>1, <2>2
<1>5. CASE ExtractFails(r)
  BY <1>1, <1>5, EndEarly DEF ExtractFails, At, Answers
<1>6. CASE Read(r)
  BY <1>6, ReadKeeps
<1>7. CASE ReadFails(r)
  BY <1>1, <1>7, EndEarly DEF ReadFails, At, Answers
<1>8. CASE Hit(r)
  BY <1>1, <1>8, EndEarly DEF Hit, At, Answers
<1>9. CASE ReplayHit(r)
  BY <1>9, MoveKeeps DEF ReplayHit, At
<1>10. CASE Replay(r)
  <2>1. PICK a \in {"bare", "replay"} : End(r, a)
    BY <1>10 DEF Replay
  <2>. QED
    BY <1>1, <1>10, <2>1, EndEarly DEF Replay, At, Answers
<1>11. CASE Miss(r)
  <2>1. CASE Launch(r)
    BY <1>11, <2>1, LaunchKeeps DEF Miss, At
  <2>2. CASE ~Launch(r)
    BY <1>1, <1>11, <2>2, EndEarly DEF Miss, At, Answers
  <2>. QED
    BY <2>1, <2>2
<1>12. CASE TakeResult(r)
  BY <1>12, TakeResultKeeps
<1>13. CASE TakeError(r)
  BY <1>1, <1>13, EndEarly DEF TakeError, At, Answers
<1>14. CASE SerializeFails(r)
  <2>1. pc[r] \in {"work", "write"} /\ todo[r]["handler"] = Done
    BY <1>1, <1>14 DEF SerializeFails, At, Done
  <2>. QED
    BY <1>14, <2>1, EndEarly DEF SerializeFails, Answers
<1>15. CASE Respond(r)
  BY <1>15, RespondKeeps
<1>16. CASE ReplayUnreadable(r)
  BY <1>16, LaunchKeeps DEF ReplayUnreadable, At
<1>. QED
  BY <1>2, <1>3, <1>4, <1>5, <1>6, <1>7, <1>8, <1>9, <1>10, <1>11, <1>12, <1>13, <1>14,
     <1>15, <1>16
  DEF Handler

LEMMA CacheStep ==
  ASSUME GInv, CInv, [Next]_vars
  PROVE  CInv'
<1>1. ASSUME NEW r \in Requests, NEW k \in Kinds, NEW d \in Keys, Arrive(r, k, d) PROVE CInv'
  BY <1>1, ArriveKeeps
<1>2. ASSUME NEW r \in Requests, Handler(r) PROVE CInv'
  BY <1>2, HandlerKeepsCache
<1>3. ASSUME NEW r \in Requests, Cancel(r) PROVE CInv'
  BY <1>3, CancelKeeps
<1>4. ASSUME NEW r \in Requests, Work(r) PROVE CInv'
  BY <1>4, QuietKeeps DEF Work, WorkEnds, WorkPanics
<1>5. ASSUME NEW r \in Requests, Client(r) PROVE CInv'
  <2>1. CASE StreamEnds(r)
    <3>1. PICK a \in {"fresh", "error"} : End(r, a)
      BY <2>1 DEF StreamEnds
    <3>. QED
      BY <2>1, <3>1, StreamOver DEF StreamEnds, At, Answers
  <2>. QED
    BY <1>5, <2>1, PollBatchKeeps, PollCompleteKeeps DEF Client
<1>6. ASSUME NEW r \in Requests, HangUp(r) PROVE CInv'
  <2>1. answer[r] \in Answers
    BY DEF CInv, Held
  <2>. QED
    BY <1>6, <2>1, StreamOver DEF HangUp
<1>7. ASSUME NEW r \in Requests, ModelTask(r) PROVE CInv'
  <2>1. CASE ModelExtracted(r)
    BY <2>1, ModelExtractedKeeps
  <2>2. CASE ModelAdmitted(r) \/ ModelRefused(r) \/ ModelFails(r) \/ ModelEnds(r)
    BY <2>2, QuietKeeps DEF ModelAdmitted, ModelRefused, ModelFails, ModelEnds
  <2>. QED
    BY <1>7, <2>1, <2>2 DEF ModelTask
<1>8. ASSUME NEW r \in Requests, NEW t \in Threads, Write(r, t) PROVE CInv'
  BY <1>8, WriteKeeps
<1>9. ASSUME NEW r \in Requests, FinishFails(r) PROVE CInv'
  BY <1>9, FinishFailsKeeps
<1>10. CASE UNCHANGED vars
  BY <1>10, QuietKeeps DEF vars
<1>. QED
  BY <1>1, <1>2, <1>3, <1>4, <1>5, <1>6, <1>7, <1>8, <1>9, <1>10, CrashKeeps DEF Next

LEMMA CacheAlways == Spec => []CInv
<1>1. Init => CInv
  BY CacheInit
<1>2. GInv /\ CInv /\ [Next]_vars => CInv'
  BY CacheStep
<1>. QED
  BY <1>1, <1>2, GuardsAlways, PTL DEF Spec

\* A geometry in the cache is the whole geometry, for every number of requests,
\* keys and batches.
THEOREM ParseServerCachedWhole == Spec => []CachedWhole
<1>1. CInv => CachedWhole
  BY DEF CInv, DiskSound
<1>. QED
  BY <1>1, CacheAlways, PTL

\* Entries are filled in the order in which readers rely on them.
THEOREM ParseServerFilledInOrder == Spec => []FilledInOrder
<1>1. CInv => FilledInOrder
  BY DEF CInv, DiskSound
<1>. QED
  BY <1>1, CacheAlways, PTL

\* Whoever is answered can fetch what the response leaves out.
THEOREM ParseServerFreshIsFetchable == Spec => []FreshIsFetchable
<1>1. CInv => FreshIsFetchable
  BY DEF CInv, Owes, Inlined, FreshIsFetchable
<1>. QED
  BY <1>1, CacheAlways, PTL

\* The gate gives units of its budget only, and answers jobs only.
SharesOwned == settled \subseteq Jobs /\ share \in [Jobs -> SUBSET Units]

LEMMA SharesAlways == Spec => []SharesOwned
<1>1. Init => SharesOwned
  BY DEF Init, Gate!Init, SharesOwned
<1>2. SharesOwned /\ [Next]_vars => SharesOwned'
  <2> SUFFICES ASSUME SharesOwned, [Next]_vars PROVE SharesOwned'
    OBVIOUS
  <2>1. CASE Crash
    BY <2>1 DEF Crash, SharesOwned
  <2>2. CASE UNCHANGED gateVars
    BY <2>2 DEF gateVars, SharesOwned
  <2>3. ASSUME NEW j \in Jobs, Gate!Admit(j) PROVE SharesOwned'
    <3>1. PICK u \in SUBSET (Units \ UNION {share[q] : q \in inside}) :
            share' = [share EXCEPT ![j] = u]
      BY <2>3 DEF Gate!Admit
    <3>2. settled' = settled
      BY <2>3 DEF Gate!Admit
    <3>. QED
      BY <3>1, <3>2 DEF SharesOwned
  <2>4. ASSUME NEW j \in Jobs, Gate!Refuse(j) \/ Gate!Leave(j) PROVE SharesOwned'
    BY <2>4 DEF Gate!Refuse, Gate!Leave, SharesOwned
  <2>. QED
    BY <2>1, <2>2, <2>3, <2>4, StepsMoveGate DEF GateMoves
<1>. QED
  BY <1>1, <1>2, PTL DEF Spec

\* Every variable keeps its type, the gate's too, and no stream is polled past
\* its last batch.
THEOREM ParseServerTyped == Spec => []TypeOK
<1>1. GInv /\ CInv /\ SlotsOwned /\ SharesOwned => TypeOK
  BY DEF GInv, Places, Guarded, CInv, Held, Progress, SlotsOwned, SharesOwned, TypeOK, PCs, Answers
<1>. QED
  BY <1>1, GuardsAlways, CacheAlways, SlotsAlways, SharesAlways, PTL
=============================================================================
