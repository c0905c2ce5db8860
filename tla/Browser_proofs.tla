--------------------------- MODULE Browser_proofs ---------------------------
(***************************************************************************)
(* The browser path.  In every order of calls, for any number of files and   *)
(* loads, a batch of a session reads nothing that belongs to another file,   *)
(* draws the repeated source under the settings in force, and counts into    *)
(* the diagnostics of its own load.                                        *)
(*                                                                         *)
(* And for a batch with instances, of any number of any jobs: every element *)
(* is drawn once, and every group of the shard reaches the threshold.        *)
(***************************************************************************)
EXTENDS IfcSession, Instancing, ListFacts

\* Before a file is loaded nothing is cached; while the host works on one, what
\* is cached was derived from it.  A file without entities leaves the caches of
\* its predecessor behind, which no batch can reach before they are cleared.
CachesFollow ==
    /\ loaded = NoFile =>
         /\ \A s \in Derived : cache[s] = NoFile
         /\ mapped = {} /\ items = {}
    /\ Working =>
         /\ \A s \in Derived : cache[s] \in {NoFile, loaded}
         /\ mapped \subseteq {MeshOf(loaded)}
         /\ \A m \in items : m.file = loaded
    /\ ready => cache["source"] = loaded

\* At most one source is cached, and the diagnostics hold at most one load: the
\* one under way, once a batch can be produced.
OneOfEach ==
    /\ \A m, n \in mapped : m = n
    /\ \A x, y \in diag : x = y
    /\ Working => diag \subseteq {load}

\* What the last batch drew.
DrawnRight == SlotsOfTheLoad /\ MappedAsAsked

Types ==
    /\ loaded \in LoadFiles \cup {NoFile} /\ load \in 0..MaxLoads /\ ready \in BOOLEAN
    /\ cache \in [Slots -> LoadFiles \cup {NoFile}]
    /\ mapped \subseteq Meshes
    /\ items \subseteq Meshes
    /\ settings \in [quality : Qualities, skip : BOOLEAN, merge : BOOLEAN]
    /\ diag \subseteq 1..MaxLoads
    /\ drawn \in [file : LoadFiles \cup {NoFile}, from : SUBSET (LoadFiles \cup {NoFile}),
                  mapped : SUBSET Meshes, item : SUBSET Meshes, asked : SUBSET Meshes]
    \* A file is loaded in some load.
    /\ loaded # NoFile => load \in 1..MaxLoads

SessionInv == Types /\ CachesFollow /\ OneOfEach /\ DrawnRight
-----------------------------------------------------------------------------
LEMMA SmallSet ==
  ASSUME NEW S, \A x, y \in S : x = y
  PROVE  IsFiniteSet(S) /\ Cardinality(S) \in Nat /\ Cardinality(S) <= 1
<1>1. CASE S = {}
  BY <1>1, FS_EmptySet
<1>2. CASE S # {}
  <2>1. PICK x : x \in S
    BY <1>2
  <2>2. S = {x}
    BY <2>1
  <2>3. QED
    BY <2>2, FS_Singleton
<1>3. QED
  BY <1>1, <1>2

LEMMA EmptyBatch ==
  /\ NoBatch \in [file : LoadFiles \cup {NoFile}, from : SUBSET (LoadFiles \cup {NoFile}),
                  mapped : SUBSET Meshes, item : SUBSET Meshes, asked : SUBSET Meshes]
  /\ NoBatch.from = {} /\ NoBatch.mapped = {} /\ NoBatch.asked = {}
BY DEF NoBatch

\* A call that draws nothing keeps what is said of the last batch.
LEMMA QuietKeeps ==
  ASSUME Quiet
  PROVE  /\ DrawnRight'
         /\ drawn' \in [file : LoadFiles \cup {NoFile}, from : SUBSET (LoadFiles \cup {NoFile}),
                        mapped : SUBSET Meshes, item : SUBSET Meshes, asked : SUBSET Meshes]
BY EmptyBatch DEF Quiet, DrawnRight, SlotsOfTheLoad, MappedAsAsked

LEMMA MeshTyped ==
  ASSUME Types, NEW f \in LoadFiles
  PROVE  MeshOf(f) \in Meshes /\ MeshOf(f).file = f
BY DEF Types, MeshOf, Meshes

LEMMA InitHolds == SessionInit => SessionInv
<1> SUFFICES ASSUME SessionInit PROVE SessionInv
  OBVIOUS
<1>1. Types
  <2>1. cache \in [Slots -> LoadFiles \cup {NoFile}]
    BY DEF SessionInit
  <2>2. load \in 0..MaxLoads /\ diag \subseteq 1..MaxLoads
    BY MaxLoadsAssumption DEF SessionInit
  <2>3. settings \in [quality : Qualities, skip : BOOLEAN, merge : BOOLEAN]
    BY MediumAssumption DEF SessionInit
  <2>4. QED
    BY <2>1, <2>2, <2>3, EmptyBatch DEF SessionInit, Types
<1>2. CachesFollow
  BY DEF SessionInit, CachesFollow, Working, Slots
<1>3. OneOfEach
  BY DEF SessionInit, OneOfEach, Working
<1>4. DrawnRight
  BY EmptyBatch DEF SessionInit, DrawnRight, SlotsOfTheLoad, MappedAsAsked
<1>5. QED
  BY <1>1, <1>2, <1>3, <1>4 DEF SessionInv
-----------------------------------------------------------------------------
(* Loads *)

LEMMA BuildPrePassKeepsInv ==
  ASSUME SessionInv, NEW f \in LoadFiles, BuildPrePass(f)
  PROVE  SessionInv'
<1>1. Types'
  <2>1. load' \in 1..MaxLoads /\ load' \in 0..MaxLoads
    BY MaxLoadsAssumption DEF SessionInv, Types, BuildPrePass, Begins
  <2>2. cache' \in [Slots -> LoadFiles \cup {NoFile}]
    BY DEF SessionInv, Types, BuildPrePass
  <2>3. /\ loaded' \in LoadFiles /\ ready' \in BOOLEAN /\ settings' = settings
        /\ mapped' = mapped /\ items' = items /\ diag' \subseteq 1..MaxLoads /\ Quiet
    BY DEF SessionInv, Types, BuildPrePass, Begins
  <2>4. QED
    BY <2>1, <2>2, <2>3, QuietKeeps DEF SessionInv, Types
<1>2. CachesFollow'
  BY FilesAssumption
  DEF SessionInv, Types, CachesFollow, BuildPrePass, Begins, Working, Slots, Derived, MeshOf
<1>3. OneOfEach'
  BY DEF SessionInv, OneOfEach, BuildPrePass, Begins
<1>4. QED
  BY <1>1, <1>2, <1>3, QuietKeeps DEF SessionInv, BuildPrePass

LEMMA PrePassFailsKeepsInv ==
  ASSUME SessionInv, PrePassFails
  PROVE  SessionInv'
<1>1. Types'
  BY QuietKeeps DEF SessionInv, Types, PrePassFails
<1>2. CachesFollow'
  BY DEF SessionInv, CachesFollow, PrePassFails, Working, MeshOf
<1>3. OneOfEach'
  BY DEF SessionInv, OneOfEach, PrePassFails, Working
<1>4. QED
  BY <1>1, <1>2, <1>3, QuietKeeps DEF SessionInv, PrePassFails

LEMMA SetEntityIndexKeepsInv ==
  ASSUME SessionInv, NEW f \in LoadFiles, SetEntityIndex(f)
  PROVE  SessionInv'
<1>1. Types'
  <2>1. load' \in 1..MaxLoads /\ load' \in 0..MaxLoads
    BY MaxLoadsAssumption DEF SessionInv, Types, SetEntityIndex, Begins
  <2>2. cache' \in [Slots -> LoadFiles \cup {NoFile}]
    BY DEF SessionInv, Types, SetEntityIndex, Without
  <2>3. /\ loaded' \in LoadFiles /\ ready' \in BOOLEAN /\ settings' = settings
        /\ mapped' = {} /\ items' = {} /\ diag' = {} /\ Quiet
    BY DEF SetEntityIndex, Begins
  <2>4. QED
    BY <2>1, <2>2, <2>3, QuietKeeps DEF SessionInv, Types
<1>2. CachesFollow'
  BY FilesAssumption
  DEF SessionInv, Types, CachesFollow, SetEntityIndex, Begins, Without, Working, Slots, Derived
<1>3. OneOfEach'
  BY DEF SessionInv, OneOfEach, SetEntityIndex, Begins
<1>4. QED
  BY <1>1, <1>2, <1>3, QuietKeeps DEF SessionInv, SetEntityIndex

LEMMA SetEmptyIndexKeepsInv ==
  ASSUME SessionInv, NEW f \in LoadFiles, SetEmptyIndex(f)
  PROVE  SessionInv'
<1>1. Types'
  <2>1. load' \in 1..MaxLoads /\ load' \in 0..MaxLoads
    BY MaxLoadsAssumption DEF SessionInv, Types, SetEmptyIndex, Begins
  <2>2. cache' \in [Slots -> LoadFiles \cup {NoFile}]
    BY DEF SessionInv, Types, SetEmptyIndex
  <2>3. /\ loaded' \in LoadFiles /\ ready' \in BOOLEAN /\ settings' = settings
        /\ mapped' = mapped /\ items' = items /\ diag' \subseteq 1..MaxLoads /\ Quiet
    BY DEF SessionInv, Types, SetEmptyIndex, Begins
  <2>4. QED
    BY <2>1, <2>2, <2>3, QuietKeeps DEF SessionInv, Types
<1>2. CachesFollow'
  BY FilesAssumption DEF CachesFollow, SetEmptyIndex, Begins, Working
<1>3. OneOfEach'
  BY DEF SessionInv, OneOfEach, SetEmptyIndex, Begins, Working
<1>4. QED
  BY <1>1, <1>2, <1>3, QuietKeeps DEF SessionInv, SetEmptyIndex

LEMMA InstallColumnKeepsInv ==
  ASSUME SessionInv, NEW s \in Columns, InstallColumn(s)
  PROVE  SessionInv'
<1>1. Types'
  BY QuietKeeps DEF SessionInv, Types, InstallColumn, Columns, Slots, Derived
<1>2. CachesFollow'
  BY DEF SessionInv, Types, CachesFollow, InstallColumn, Working, Columns, Slots, Derived, MeshOf
<1>3. OneOfEach'
  BY DEF SessionInv, OneOfEach, InstallColumn, Working
<1>4. QED
  BY <1>1, <1>2, <1>3, QuietKeeps DEF SessionInv, InstallColumn

LEMMA SetSourceBytesKeepsInv ==
  ASSUME SessionInv, SetSourceBytes
  PROVE  SessionInv'
<1>1. Types'
  BY QuietKeeps DEF SessionInv, Types, SetSourceBytes, Slots
<1>2. CachesFollow'
  BY DEF SessionInv, Types, CachesFollow, SetSourceBytes, Working, Slots, Derived, MeshOf
<1>3. OneOfEach'
  BY DEF SessionInv, OneOfEach, SetSourceBytes, Working
<1>4. QED
  BY <1>1, <1>2, <1>3, QuietKeeps DEF SessionInv, SetSourceBytes

LEMMA ClearPrePassCacheKeepsInv ==
  ASSUME SessionInv, ClearPrePassCache
  PROVE  SessionInv'
<1>1. Types'
  BY QuietKeeps DEF SessionInv, Types, ClearPrePassCache, Without
<1>2. CachesFollow'
  BY DEF SessionInv, Types, CachesFollow, ClearPrePassCache, Without, Working, Slots
<1>3. OneOfEach'
  BY DEF SessionInv, OneOfEach, ClearPrePassCache, Working
<1>4. QED
  BY <1>1, <1>2, <1>3, QuietKeeps DEF SessionInv, ClearPrePassCache
-----------------------------------------------------------------------------
(* Settings *)

LEMMA SetMergeLayersKeepsInv ==
  ASSUME SessionInv, NEW on \in BOOLEAN, SetMergeLayers(on)
  PROVE  SessionInv'
<1>1. settings'.quality = settings.quality /\ settings'.skip = settings.skip
  BY DEF SessionInv, Types, SetMergeLayers
<1>2. Types'
  BY QuietKeeps DEF SessionInv, Types, SetMergeLayers, Without
<1>3. CachesFollow'
  <2>1. MeshOf(loaded)' = MeshOf(loaded)
    BY <1>1 DEF MeshOf, SetMergeLayers
  <2>2. Working' <=> Working
    BY DEF Working, SetMergeLayers
  <2>3. QED
    BY <2>1, <2>2 DEF SessionInv, Types, CachesFollow, SetMergeLayers, Without, Slots, Derived
<1>4. OneOfEach'
  BY DEF SessionInv, OneOfEach, SetMergeLayers, Working
<1>5. QED
  BY <1>2, <1>3, <1>4, QuietKeeps DEF SessionInv, SetMergeLayers

\* Either setting that shapes a mesh drops the one cached without it.
LEMMA FidelityKeepsInv ==
  ASSUME SessionInv,
         \/ \E q \in Qualities : SetTessellationQuality(q)
         \/ \E on \in BOOLEAN : SetSkipSmallCuts(on)
  PROVE  SessionInv'
<1>1. /\ mapped' = {} /\ Quiet
      /\ UNCHANGED <<loaded, load, ready, cache, items, diag>>
  BY DEF SetTessellationQuality, SetSkipSmallCuts
<1>2. settings' \in [quality : Qualities, skip : BOOLEAN, merge : BOOLEAN]
  BY DEF SessionInv, Types, SetTessellationQuality, SetSkipSmallCuts
<1>3. Types'
  BY <1>1, <1>2, QuietKeeps DEF SessionInv, Types
<1>4. CachesFollow'
  BY <1>1 DEF SessionInv, CachesFollow, Working
<1>5. OneOfEach'
  BY <1>1 DEF SessionInv, OneOfEach, Working
<1>6. QED
  BY <1>1, <1>3, <1>4, <1>5, QuietKeeps DEF SessionInv
-----------------------------------------------------------------------------
(* Batches *)

\* A cache that a batch on the loaded file fills or consults holds that file.
LEMMA ServesTheLoad ==
  ASSUME SessionInv, Working, NEW s \in Derived
  PROVE  Served(s, loaded) = loaded
BY DEF SessionInv, CachesFollow, Served

LEMMA FilledFollows ==
  ASSUME SessionInv, Working, NEW slots \in SUBSET Derived,
         cache' = Filled(slots, loaded)
  PROVE  /\ cache' \in [Slots -> LoadFiles \cup {NoFile}]
         /\ \A s \in Derived : cache'[s] \in {NoFile, loaded}
         /\ cache'["source"] = cache["source"]
<1>1. \A s \in Derived : s \in slots => Served(s, loaded) = loaded
  BY ServesTheLoad
<1>2. "source" \in Slots /\ "source" \notin Derived /\ Derived \subseteq Slots
  BY DEF Slots, Derived
<1>3. \A s \in Slots : cache'[s] = IF s \in slots THEN Served(s, loaded) ELSE cache[s]
  BY DEF Filled
<1>4. cache' = [s \in Slots |-> IF s \in slots THEN Served(s, loaded) ELSE cache[s]]
  BY DEF Filled
<1>5. \A s \in Derived : cache'[s] \in {NoFile, loaded}
  BY <1>1, <1>2, <1>3 DEF SessionInv, CachesFollow
<1>6. cache'["source"] = cache["source"]
  BY <1>2, <1>3
<1>7. loaded \in LoadFiles \cup {NoFile} /\ \A s \in Slots : cache[s] \in LoadFiles \cup {NoFile}
  BY DEF SessionInv, Types
<1>8. \A s \in Slots : (IF s \in slots THEN Served(s, loaded) ELSE cache[s]) \in LoadFiles \cup {NoFile}
  BY <1>1, <1>7
<1>9. QED
  BY <1>4, <1>5, <1>6, <1>8

LEMMA ConsultedDerived ==
  ASSUME NEW angle \in BOOLEAN, NEW typed \in BOOLEAN
  PROVE  \A k \in DOMAIN Consulted(angle, typed) : Consulted(angle, typed)[k] \in Derived
<1> DEFINE A == IF angle THEN <<>> ELSE <<"angle">>
           B == IF settings.merge THEN <<"styles", "parts">> ELSE <<"layers", "styles">>
           C == <<"colours", "textures">>
           D == IF typed THEN <<"repmaps", "types">> ELSE <<>>
<1>0. {"angle", "styles", "parts", "layers", "colours", "textures", "repmaps", "types"}
        \subseteq Derived
  BY DEF Derived
<1>1. A \in Seq(Derived) /\ B \in Seq(Derived) /\ C \in Seq(Derived) /\ D \in Seq(Derived)
  <2>1. <<>> \in Seq(Derived)
    OBVIOUS
  <2>2. \A x \in Derived : <<x>> \in Seq(Derived)
    OBVIOUS
  <2>3. \A x, y \in Derived : <<x, y>> \in Seq(Derived)
    OBVIOUS
  <2>4. A \in Seq(Derived)
    BY <1>0, <2>1, <2>2
  <2>5. B \in Seq(Derived)
    BY <1>0, <2>3
  <2>6. C \in Seq(Derived)
    BY <1>0, <2>3
  <2>7. D \in Seq(Derived)
    BY <1>0, <2>1, <2>3
  <2>8. QED
    BY <2>4, <2>5, <2>6, <2>7
<1>2. Consulted(angle, typed) = A \o B \o C \o D
  BY DEF Consulted
<1>3. Consulted(angle, typed) \in Seq(Derived)
  <2> HIDE DEF A, B, C, D
  <2>1. QED
    BY <1>1, <1>2
<1>4. QED
  BY <1>3

\* The source that is drawn is the one of this file under these settings.
LEMMA MappedIsAsked ==
  ASSUME SessionInv, Working
  PROVE  MappedMesh(loaded) = {MeshOf(loaded)}
BY DEF SessionInv, CachesFollow, MappedMesh

LEMMA ProduceKeepsInv ==
  ASSUME SessionInv, Working, NEW armed \in BOOLEAN, NEW angle \in BOOLEAN,
         NEW typed \in BOOLEAN, Produce(loaded, armed, angle, typed)
  PROVE  SessionInv'
<1> DEFINE list == Consulted(angle, typed)
           slots == {"index"} \cup {list[k] : k \in DOMAIN list}
           ofPlan == IF armed /\ cache["plan"] # NoFile THEN {"plan"} ELSE {}
<1>1. slots \subseteq Derived /\ ofPlan \subseteq Derived
  BY ConsultedDerived DEF Derived
<1>2. /\ cache' = Filled(slots, loaded)
      /\ mapped' = MappedMesh(loaded)
      /\ items' = items \cup ItemMesh(loaded)
      /\ diag' = diag \cup {load}
      /\ drawn' = [file |-> loaded,
                   from |-> {loaded} \cup {Served(s, loaded) : s \in slots \cup ofPlan},
                   mapped |-> MappedMesh(loaded), item |-> ItemMesh(loaded),
                   asked |-> {MeshOf(loaded)}]
      /\ UNCHANGED <<loaded, load, ready, settings>>
  BY DEF Produce
<1> HIDE DEF list, slots, ofPlan
<1>3. loaded \in LoadFiles /\ load \in 1..MaxLoads
  BY DEF SessionInv, Types, Working
<1>4. MeshOf(loaded) \in Meshes /\ MeshOf(loaded).file = loaded
  BY <1>3, MeshTyped DEF SessionInv
<1>5. mapped' = {MeshOf(loaded)}
  BY <1>2, MappedIsAsked
<1>6. ItemMesh(loaded) \subseteq Meshes /\ \A m \in ItemMesh(loaded) : m.file = loaded
  BY <1>4 DEF SessionInv, Types, CachesFollow, ItemMesh, SameKey
<1>7. \A s \in slots \cup ofPlan : Served(s, loaded) = loaded
  BY <1>1, ServesTheLoad
<1>8. drawn'.from = {loaded} /\ drawn'.file = loaded
  BY <1>2, <1>7
<1>9. Types'
  <2>1. cache' \in [Slots -> LoadFiles \cup {NoFile}]
    BY <1>1, <1>2, FilledFollows
  <2>2. drawn' \in [file : LoadFiles \cup {NoFile}, from : SUBSET (LoadFiles \cup {NoFile}),
                    mapped : SUBSET Meshes, item : SUBSET Meshes, asked : SUBSET Meshes]
    <3>1. {loaded} \cup {Served(s, loaded) : s \in slots \cup ofPlan} = {loaded}
      BY <1>7
    <3>2. QED
      BY <3>1, <1>2, <1>3, <1>4, <1>5, <1>6
  <2>3. mapped' \subseteq Meshes /\ items' \subseteq Meshes /\ diag' \subseteq 1..MaxLoads
    BY <1>2, <1>3, <1>4, <1>5, <1>6 DEF SessionInv, Types
  <2>4. QED
    BY <1>2, <2>1, <2>2, <2>3 DEF SessionInv, Types
<1>10. CachesFollow'
  <2>1. \A s \in Derived : cache'[s] \in {NoFile, loaded}
    BY <1>1, <1>2, FilledFollows
  <2>2. cache'["source"] = cache["source"]
    BY <1>1, <1>2, FilledFollows
  <2>3. MeshOf(loaded)' = MeshOf(loaded)
    BY <1>2 DEF MeshOf
  <2>4. \A m \in items' : m.file = loaded
    BY <1>2, <1>6 DEF SessionInv, CachesFollow
  <2>5. QED
    BY <1>2, <1>5, <2>1, <2>2, <2>3, <2>4 DEF SessionInv, CachesFollow, Working
<1>11. OneOfEach'
  BY <1>2, <1>5 DEF SessionInv, OneOfEach, Working
<1>12. DrawnRight'
  BY <1>2, <1>5, <1>8 DEF DrawnRight, SlotsOfTheLoad, MappedAsAsked
<1>13. QED
  BY <1>9, <1>10, <1>11, <1>12 DEF SessionInv
LEMMA BatchPanicsKeepsInv ==
  ASSUME SessionInv, BatchPanics
  PROVE  SessionInv'
<1>1. /\ \E slots \in SUBSET Derived : cache' = Filled(slots, loaded)
      /\ mapped' \in {mapped, MappedMesh(loaded)}
      /\ items' \in {items, items \cup ItemMesh(loaded)}
  <2>1. PICK angle \in BOOLEAN :
          \E n \in DOMAIN Consulted(angle, TRUE) :
            /\ cache' = Filled({"index"} \cup {Consulted(angle, TRUE)[k] : k \in 1..n}, loaded)
            /\ mapped' \in {mapped, MappedMesh(loaded)}
            /\ items' \in {items, items \cup ItemMesh(loaded)}
    BY DEF BatchPanics
  <2>2. PICK n \in DOMAIN Consulted(angle, TRUE) :
          /\ cache' = Filled({"index"} \cup {Consulted(angle, TRUE)[k] : k \in 1..n}, loaded)
          /\ mapped' \in {mapped, MappedMesh(loaded)}
          /\ items' \in {items, items \cup ItemMesh(loaded)}
    BY <2>1
  <2>3. \A k \in 1..n : k \in DOMAIN Consulted(angle, TRUE)
    BY <2>2 DEF Consulted
  <2>4. {"index"} \cup {Consulted(angle, TRUE)[k] : k \in 1..n} \subseteq Derived
    BY <2>3, ConsultedDerived DEF Derived
  <2>5. QED
    BY <2>2, <2>4
<1>2. PICK slots \in SUBSET Derived : cache' = Filled(slots, loaded)
  BY <1>1
<1>3. Working /\ Quiet /\ UNCHANGED <<loaded, load, ready, settings, diag>>
  BY DEF BatchPanics
\* What it meshed before the panic is of this file under these settings.
<1>4. mapped' \subseteq {MeshOf(loaded)}
  BY <1>1, <1>3, MappedIsAsked DEF SessionInv, CachesFollow
<1>5. MeshOf(loaded) \in Meshes /\ MeshOf(loaded).file = loaded
  BY <1>3, MeshTyped DEF SessionInv, Types, Working
<1>6. items' \subseteq Meshes /\ \A m \in items' : m.file = loaded
  <2>1. ItemMesh(loaded) \subseteq Meshes /\ \A m \in ItemMesh(loaded) : m.file = loaded
    BY <1>3, <1>5 DEF SessionInv, Types, CachesFollow, ItemMesh, SameKey
  <2>2. QED
    BY <1>1, <1>3, <2>1 DEF SessionInv, Types, CachesFollow
<1>7. Types'
  BY <1>2, <1>3, <1>4, <1>5, <1>6, FilledFollows, QuietKeeps DEF SessionInv, Types
<1>8. CachesFollow'
  <2>1. \A s \in Derived : cache'[s] \in {NoFile, loaded}
    BY <1>2, <1>3, FilledFollows
  <2>2. cache'["source"] = cache["source"]
    BY <1>2, <1>3, FilledFollows
  <2>3. QED
    BY <1>3, <1>4, <1>6, <2>1, <2>2 DEF SessionInv, CachesFollow, Working, MeshOf
<1>9. OneOfEach'
  BY <1>3, <1>4 DEF SessionInv, OneOfEach, Working
<1>10. QED
  BY <1>3, <1>7, <1>8, <1>9, QuietKeeps DEF SessionInv
-----------------------------------------------------------------------------
LEMMA StepHolds == SessionInv /\ [SessionNext]_sessionVars => SessionInv'
<1> SUFFICES ASSUME SessionInv, [SessionNext]_sessionVars PROVE SessionInv'
  OBVIOUS
<1>1. CASE \E f \in LoadFiles : BuildPrePass(f) \/ SetEntityIndex(f) \/ SetEmptyIndex(f)
  BY <1>1, BuildPrePassKeepsInv, SetEntityIndexKeepsInv, SetEmptyIndexKeepsInv
<1>2. CASE PrePassFails
  BY <1>2, PrePassFailsKeepsInv
<1>3. CASE \E s \in Columns : InstallColumn(s)
  BY <1>3, InstallColumnKeepsInv
<1>4. CASE SetSourceBytes
  BY <1>4, SetSourceBytesKeepsInv
<1>5. CASE ClearPrePassCache
  BY <1>5, ClearPrePassCacheKeepsInv
<1>6. CASE \E on \in BOOLEAN : SetMergeLayers(on) \/ SetSkipSmallCuts(on)
  BY <1>6, SetMergeLayersKeepsInv, FidelityKeepsInv
<1>7. CASE \E q \in Qualities : SetTessellationQuality(q)
  BY <1>7, FidelityKeepsInv
<1>8. CASE Batch
  BY <1>8, ProduceKeepsInv DEF Batch
<1>9. CASE BatchFromSource
  <2>1. Working /\ cache["source"] = loaded
    BY <1>9 DEF BatchFromSource, SessionInv, CachesFollow
  <2>2. QED
    BY <1>9, <2>1, ProduceKeepsInv DEF BatchFromSource
<1>10. CASE BatchPanics
  BY <1>10, BatchPanicsKeepsInv
<1>11. CASE UNCHANGED sessionVars
  BY <1>11
  DEF sessionVars, SessionInv, Types, CachesFollow, OneOfEach, DrawnRight, SlotsOfTheLoad,
      MappedAsAsked, Working, MeshOf
<1>12. QED
  BY <1>1, <1>2, <1>3, <1>4, <1>5, <1>6, <1>7, <1>8, <1>9, <1>10, <1>11 DEF SessionNext

LEMMA SessionHolds == SessionSpec => []SessionInv
<1>1. QED
  BY InitHolds, StepHolds, PTL DEF SessionSpec

\* Every cache of a session keeps its type, and at most one source mesh is kept
\* (wasm-bindings/src/api/mod.rs, cached_mapped_item).
THEOREM SessionTypes == SessionSpec => []SessionTyped
<1>1. SessionInv => SessionTyped
  BY SmallSet DEF SessionInv, Types, OneOfEach, SessionTyped
<1>2. QED
  BY <1>1, SessionHolds, PTL

\* Whatever calls came before, a batch reads only what was derived from the file
\* it is asked for (get_or_build_* of IfcAPI).
THEOREM SessionFollowsTheLoad == SessionSpec => []SlotsOfTheLoad
<1>1. SessionInv => SlotsOfTheLoad
  BY DEF SessionInv, DrawnRight
<1>2. QED
  BY <1>1, SessionHolds, PTL

\* Whatever settings were changed before, the repeated source of a batch is
\* meshed under those in force (set_tessellation_quality, set_skip_small_cuts).
THEOREM SessionMapsAsAsked == SessionSpec => []MappedAsAsked
<1>1. SessionInv => MappedAsAsked
  BY DEF SessionInv, DrawnRight
<1>2. QED
  BY <1>1, SessionHolds, PTL

\* The diagnostics are those of one load at any time (pipeline_diagnostics).
THEOREM SessionCountsOneLoad == SessionSpec => []LoadsNotMixed
<1>1. SessionInv => LoadsNotMixed
  BY SmallSet DEF SessionInv, OneOfEach, LoadsNotMixed
<1>2. QED
  BY <1>1, SessionHolds, PTL

-----------------------------------------------------------------------------
(* A batch with instances *)

\* r is what of a list is at the places K, in some order: f is the place each
\* element of r comes from.
Picked(f, r, list, K) ==
    /\ f \in [1..Len(r) -> K]
    /\ \A k, l \in 1..Len(r) : f[k] = f[l] => k = l
    /\ \A p \in K : \E k \in 1..Len(r) : f[k] = p
    /\ \A k \in 1..Len(r) : r[k] = list[f[k]]

Selected(V, r, list, K) == r \in Seq(V) /\ \E f : Picked(f, r, list, K)

\* One more element in front of a list.
LEMMA SelectsMore ==
  ASSUME NEW V, NEW n \in Nat, NEW list \in Seq(V), Len(list) = n + 1,
         NEW K \in SUBSET (1..(n + 1)), NEW r, NEW head,
         Selected(V, r, [k \in 1..n |-> list[k + 1]], {k \in 1..n : k + 1 \in K}),
         head = IF 1 \in K THEN <<list[1]>> ELSE <<>>
  PROVE  Selected(V, head \o r, list, K)
<1> DEFINE L == [k \in 1..n |-> list[k + 1]]
           J == {k \in 1..n : k + 1 \in K}
           m == Len(r)
<1>1. PICK f : Picked(f, r, L, J)
  BY DEF Selected
<1>2. r \in Seq(V) /\ m \in Nat
  BY DEF Selected
<1>3. list[1] \in V
  OBVIOUS
<1>4. /\ f \in [1..m -> J]
      /\ \A k, l \in 1..m : f[k] = f[l] => k = l
      /\ \A p \in J : \E k \in 1..m : f[k] = p
      /\ \A k \in 1..m : r[k] = list[f[k] + 1]
  BY <1>1 DEF Picked
<1>5. \A p \in K : p # 1 => p - 1 \in J /\ (p - 1) + 1 = p
  OBVIOUS
<1>6. \A j \in J : j + 1 \in K /\ j + 1 # 1 /\ j \in Int
  OBVIOUS
<1> HIDE DEF J, L, m
<1>7. CASE 1 \in K
  <2> DEFINE R == <<list[1]>> \o r
             g == [k \in 1..(m + 1) |-> IF k = 1 THEN 1 ELSE f[k - 1] + 1]
  <2>1. R \in Seq(V) /\ Len(R) = m + 1 /\ R[1] = list[1] /\ \A k \in 2..(m + 1) : R[k] = r[k - 1]
    BY <1>2, <1>3 DEF m
  <2>2. head \o r = R
    BY <1>7
  <2> HIDE DEF R
  <2>3. \A k \in 1..(m + 1) : k # 1 => k - 1 \in 1..m /\ k \in 2..(m + 1) /\ f[k - 1] \in J
    BY <1>2, <1>4
  <2>4. g \in [1..(m + 1) -> K]
    BY <1>6, <1>7, <2>3
  <2>5. ASSUME NEW k \in 1..(m + 1), NEW l \in 1..(m + 1), g[k] = g[l] PROVE k = l
    <3>1. k # 1 /\ l # 1 => f[k - 1] = f[l - 1]
      BY <1>6, <2>3, <2>5
    <3>2. k # 1 /\ l # 1 => k - 1 = l - 1
      BY <1>4, <2>3, <3>1
    <3>3. k = 1 <=> l = 1
      BY <1>6, <2>3, <2>5
    <3>4. QED
      BY <1>2, <3>2, <3>3
  <2>6. ASSUME NEW p \in K PROVE \E k \in 1..(m + 1) : g[k] = p
    <3>1. CASE p = 1
      BY <1>2, <3>1
    <3>2. CASE p # 1
      <4>1. PICK k \in 1..m : f[k] = p - 1
        BY <1>4, <1>5, <3>2
      <4>2. k + 1 \in 1..(m + 1) /\ k + 1 # 1 /\ (k + 1) - 1 = k
        BY <1>2
      <4>3. g[k + 1] = p
        BY <1>5, <3>2, <4>1, <4>2
      <4>4. QED
        BY <4>2, <4>3
    <3>3. QED
      BY <3>1, <3>2
  <2>7. \A k \in 1..(m + 1) : R[k] = list[g[k]]
    BY <1>4, <2>1, <2>3
  <2> HIDE DEF g
  <2>8. Picked(g, R, list, K)
    BY <2>1, <2>4, <2>5, <2>6, <2>7 DEF Picked
  <2>9. QED
    BY <2>1, <2>2, <2>8 DEF Selected
<1>8. CASE 1 \notin K
  <2> DEFINE g == [k \in 1..m |-> f[k] + 1]
  <2>1. head \o r = r
    BY <1>2, <1>8
  <2>2. g \in [1..m -> K]
    BY <1>4, <1>6
  <2>3. \A k, l \in 1..m : g[k] = g[l] => k = l
    BY <1>4, <1>6
  <2>4. \A p \in K : \E k \in 1..m : g[k] = p
    BY <1>4, <1>5, <1>8
  <2>5. \A k \in 1..m : r[k] = list[g[k]]
    BY <1>4
  <2> HIDE DEF g
  <2>6. Picked(g, r, list, K)
    BY <2>2, <2>3, <2>4, <2>5 DEF Picked, m
  <2>7. QED
    BY <1>2, <2>1, <2>6 DEF Selected
<1>9. QED
  BY <1>7, <1>8

\* Only keeps the places asked for, each once.
LEMMA OnlySelects ==
  ASSUME NEW V, NEW list \in Seq(V), NEW K \in SUBSET DOMAIN list
  PROVE  Selected(V, Only(list, K), list, K)
<1> DEFINE Q(n) == \A l \in Seq(V) : Len(l) = n =>
                     \A P \in SUBSET (1..n) : Selected(V, Only(l, P), l, P)
           T == {n \in Nat : Q(n)}
<1>1. Q(0)
  <2> SUFFICES ASSUME NEW l \in Seq(V), Len(l) = 0, NEW P \in SUBSET (1..0)
               PROVE  Selected(V, Only(l, P), l, P)
    OBVIOUS
  <2> DEFINE s == [k \in DOMAIN l |-> IF k \in P THEN <<l[k]>> ELSE <<>>]
  <2>1. DOMAIN l = 1..0 /\ P = {}
    OBVIOUS
  <2>2. s \in Seq(Seq(V)) /\ Len(s) = 0
    BY <2>1
  <2>3. s = <<>>
    BY <2>2, EmptySeq
  <2>4. Only(l, P) = <<>>
    BY <2>3, FlattenEmpty, Zenon DEF Only
  <2> DEFINE f == [k \in 1..0 |-> k]
  <2>5. Picked(f, <<>>, l, P)
    <3>1. Len(<<>>) = 0 /\ 1..0 = {}
      OBVIOUS
    <3>2. QED
      BY <2>1, <3>1 DEF Picked
  <2>6. QED
    BY <2>4, <2>5 DEF Selected
<1>2. ASSUME NEW n \in Nat, Q(n) PROVE Q(n + 1)
  <2> SUFFICES ASSUME NEW l \in Seq(V), Len(l) = n + 1, NEW P \in SUBSET (1..(n + 1))
               PROVE  Selected(V, Only(l, P), l, P)
    OBVIOUS
  <2> DEFINE s == [k \in DOMAIN l |-> IF k \in P THEN <<l[k]>> ELSE <<>>]
             t == [k \in 1..n |-> l[k + 1]]
             J == {k \in 1..n : k + 1 \in P}
             u == [k \in DOMAIN t |-> IF k \in J THEN <<t[k]>> ELSE <<>>]
  <2>1. DOMAIN l = 1..(n + 1) /\ \A k \in 1..(n + 1) : l[k] \in V
    OBVIOUS
  <2>2. t \in Seq(V) /\ Len(t) = n /\ DOMAIN t = 1..n /\ J \in SUBSET (1..n)
    BY <2>1
  <2>3. s \in Seq(Seq(V)) /\ Len(s) = n + 1
    <3>1. \A k \in 1..(n + 1) : (IF k \in P THEN <<l[k]>> ELSE <<>>) \in Seq(V)
      BY <2>1
    <3>2. QED
      BY <2>1, <3>1
  <2>4. s # <<>> /\ Head(s) = s[1] /\ Tail(s) = [i \in 1..((n + 1) - 1) |-> s[i + 1]]
    <3> HIDE DEF s
    <3>1. Len(s) >= 1 /\ Len(s) - 1 = (n + 1) - 1
      BY <2>3
    <3>2. s # <<>> /\ Head(s) = s[1] /\ Tail(s) = [i \in 1..(Len(s) - 1) |-> s[i + 1]]
      BY <2>3, <3>1, TailIs
    <3>3. QED
      BY <3>1, <3>2, Zenon
  <2>5. \A i \in 1..n : s[i + 1] = u[i]
    <3> SUFFICES ASSUME NEW i \in 1..n PROVE s[i + 1] = u[i]
      OBVIOUS
    <3>1. i + 1 \in 1..(n + 1) /\ (i \in J <=> i + 1 \in P)
      OBVIOUS
    <3>2. t[i] = l[i + 1] /\ s[i + 1] = (IF i + 1 \in P THEN <<l[i + 1]>> ELSE <<>>)
      BY <2>1, <3>1
    <3>3. u[i] = IF i \in J THEN <<t[i]>> ELSE <<>>
      BY <2>2
    <3> HIDE DEF s, u, t, J
    <3>4. QED
      BY <3>1, <3>2, <3>3
  <2>6. Tail(s) = u
    <3>1. DOMAIN u = 1..n /\ (n + 1) - 1 = n /\ u = [i \in 1..n |-> u[i]]
      BY <2>2
    <3> HIDE DEF s, u
    <3>2. QED
      BY <2>4, <2>5, <3>1
  <2>7. FlattenSeq(s) = Head(s) \o FlattenSeq(Tail(s))
    <3> HIDE DEF s
    <3>1. QED
      BY <2>3, <2>4, FlattenCons
  <2>8. s[1] = IF 1 \in P THEN <<l[1]>> ELSE <<>>
    BY <2>1
  <2>9. Selected(V, Only(t, J), t, J)
    <3> HIDE DEF t, J
    <3>1. QED
      BY <1>2, <2>2
  <2>10. Only(t, J) = FlattenSeq(u) /\ Only(l, P) = FlattenSeq(s)
    BY Zenon DEF Only
  <2>11. Selected(V, s[1] \o Only(t, J), l, P)
    <3> HIDE DEF s
    <3>1. QED
      BY <2>8, <2>9, SelectsMore
  <2> HIDE DEF s, u, t, J
  <2>12. QED
    BY <2>4, <2>6, <2>7, <2>10, <2>11
<1>3. Nat \subseteq T
  <2> HIDE DEF Q
  <2>1. 0 \in T /\ \A n \in Nat : n \in T => n + 1 \in T
    BY <1>1, <1>2
  <2> HIDE DEF T
  <2>2. QED
    BY <2>1, NatInductive
<1>4. Q(Len(list))
  <2> HIDE DEF Q
  <2>1. QED
    BY <1>3
<1>5. QED
  BY <1>4

\* The jobs in a list, a list that has none twice, and the jobs that are drawn
\* or can still be.
JobSet(list) == {list[k].job : k \in DOMAIN list}
Distinct(list) == \A k, l \in DOMAIN list : list[k].job = list[l].job => k = l
FlatSet == {flat[k] : k \in DOMAIN flat}
Placed == JobSet(meshes) \cup JobSet(occurrences) \cup FlatSet

\* What a mesh or a placeholder is.
Entries == [job : Nat, rep : Reps \cup {NoRep}]
Steps == {"produce", "resolve", "partition", "collate", "drawn"}
Open == {"produce", "resolve"}

\* Types.
BatchTyped ==
    /\ batch \in Seq(Jobs)
    /\ meshes \in Seq(Entries) /\ occurrences \in Seq(Entries)
    /\ \A k \in DOMAIN occurrences : occurrences[k].rep \in Reps
    /\ flat \in Seq(Nat)
    /\ step \in Steps

\* No job is in two places.
Once ==
    /\ Distinct(meshes) /\ Distinct(occurrences)
    /\ \A k, l \in DOMAIN flat : flat[k] = flat[l] => k = l
    /\ JobSet(meshes) \cap JobSet(occurrences) = {}
    /\ FlatSet \cap (JobSet(meshes) \cup JobSet(occurrences)) = {}
    /\ Placed \subseteq Ids

\* A job is somewhere unless it failed or may be lost.
Complete ==
    \A i \in Ids :
        /\ batch[i].broken => i \notin Placed
        /\ ~batch[i].broken => i \in Placed \/ (step \notin Open /\ MayBeLost(i))

\* The elements that use a source.
Uses(s) == {i \in Ids : batch[i].kind = "mapped" /\ batch[i].source = s}

\* What a placeholder o of a batch b under a plan p says about its element.
Repeats(b, i) ==
    /\ i \in 1..Len(b) /\ b[i].kind = "mapped"
    /\ \E k \in 1..(i - 1) : b[k].kind = "mapped" /\ b[k].source = b[i].source
OccurrenceSourced(o, b, p) ==
    /\ Repeats(b, o.job) /\ b[o.job].source \in p
    /\ o.rep = <<"id", b[o.job].source>>

\* The marks, the registry and the placeholders against the elements seen.
Sourced ==
    /\ marked = {s \in plan : Uses(s) # {}}
    /\ \A s \in plan : \A k \in Placeholders(s) : ~batch[k].tripped => s \in registry
    /\ step \in Open => \A k \in DOMAIN occurrences : OccurrenceSourced(occurrences[k], batch, plan)

\* What repeats enough: a placeholder that is kept has a candidate to stand for
\* it, and its rep reaches the threshold with one more; after the partition every
\* mesh that is left and every instance is of a rep that reaches it.
Grows ==
    /\ step \in {"produce", "resolve", "partition"} => flat = <<>>
    /\ step = "partition" =>
         \A k \in DOMAIN occurrences :
             LET r == occurrences[k].rep
             IN  /\ \E m \in OfRep(meshes, r) : Candidate(meshes[m])
                 /\ Cardinality(OfRep(occurrences, r)) + 1 >= MinOccurrences
    /\ step \in {"collate", "drawn"} =>
         /\ \A k \in DOMAIN meshes :
                /\ meshes[k].rep \in Reps
                /\ Cardinality(OfRep(Refs, meshes[k].rep)) >= MinOccurrences
         /\ \A k \in DOMAIN occurrences : OfRep(meshes, occurrences[k].rep) # {}
    /\ step = "drawn" =>
         shard = [single |-> JobsOf(Only(meshes, Alone)), groups |-> {Group(r) : r \in Grouped}]

\* The inductive invariant of a batch.
InstancingInv == BatchTyped /\ Once /\ Complete /\ Sourced /\ Grows

\* The places of a list are finitely many.
LEMMA PlacesFinite ==
  ASSUME NEW V, NEW list \in Seq(V)
  PROVE  /\ DOMAIN list = 1..Len(list) /\ IsFiniteSet(DOMAIN list)
         /\ \A K \in SUBSET DOMAIN list : IsFiniteSet(K) /\ Cardinality(K) \in Nat
         /\ \A r : OfRep(list, r) \in SUBSET DOMAIN list
<1>1. DOMAIN list = 1..Len(list) /\ Len(list) \in Int
  OBVIOUS
<1>2. IsFiniteSet(DOMAIN list)
  BY <1>1, FS_Interval
<1>3. QED
  BY <1>1, <1>2, FS_Subset, FS_CardinalityType DEF OfRep

\* What a part of a list keeps of it.
LEMMA OnlyFacts ==
  ASSUME NEW list \in Seq(Entries), NEW K \in SUBSET DOMAIN list
  PROVE  /\ Only(list, K) \in Seq(Entries)
         /\ Distinct(list) => Distinct(Only(list, K))
         /\ \A k \in DOMAIN Only(list, K) : \E p \in K : Only(list, K)[k] = list[p]
         /\ \A p \in K : \E k \in DOMAIN Only(list, K) : Only(list, K)[k] = list[p]
         /\ \A r : Cardinality(OfRep(Only(list, K), r)) = Cardinality(OfRep(list, r) \cap K)
         /\ K = {} => Only(list, K) = <<>>
<1> DEFINE o == Only(list, K)
<1>1. o \in Seq(Entries) /\ \E f : Picked(f, o, list, K)
  BY OnlySelects DEF Selected
<1>2. PICK f : Picked(f, o, list, K)
  BY <1>1
<1> HIDE DEF o
<1>3. DOMAIN o = 1..Len(o)
  BY <1>1
<1>4. /\ f \in [DOMAIN o -> K]
      /\ \A k, l \in DOMAIN o : f[k] = f[l] => k = l
      /\ \A p \in K : \E k \in DOMAIN o : f[k] = p
      /\ \A k \in DOMAIN o : f[k] \in K /\ f[k] \in DOMAIN list /\ o[k] = list[f[k]]
  BY <1>2, <1>3 DEF Picked
<1>5. Distinct(list) => Distinct(o)
  BY <1>4 DEF Distinct
<1>6. ASSUME NEW r PROVE Cardinality(OfRep(o, r)) = Cardinality(OfRep(list, r) \cap K)
  <2> DEFINE S == OfRep(o, r)
             W == OfRep(list, r) \cap K
             g == [k \in S |-> f[k]]
  <2>1. IsFiniteSet(S) /\ S \subseteq DOMAIN o
    BY <1>1, PlacesFinite
  <2>2. \A k \in S : k \in DOMAIN o /\ f[k] \in W
    BY <1>4 DEF OfRep
  <2>3. \A p \in W : \E k \in S : f[k] = p
    BY <1>4 DEF OfRep
  <2> HIDE DEF S, W
  <2>4. g \in [S -> W] /\ (\A x, y \in S : g[x] = g[y] => x = y) /\ \A y \in W : \E x \in S : g[x] = y
    BY <1>4, <2>2, <2>3
  <2> HIDE DEF g
  <2>5. Cardinality(W) = Cardinality(S)
    BY <2>1, <2>4, SameSize
  <2>6. QED
    BY <2>5 DEF S, W
<1>7. K = {} => o = <<>>
  <2> SUFFICES ASSUME K = {} PROVE o = <<>>
    OBVIOUS
  <2>1. DOMAIN o = {} /\ Len(o) \in Nat
    BY <1>1, <1>4
  <2>2. Len(o) = 0
    BY <1>3, <2>1
  <2>3. QED
    BY <1>1, <2>2, EmptySeq
<1>8. QED
  BY <1>1, <1>4, <1>5, <1>6, <1>7 DEF o

\* What two lists have together.
LEMMA JoinFacts ==
  ASSUME NEW a \in Seq(Entries), NEW b \in Seq(Entries)
  PROVE  /\ a \o b \in Seq(Entries)
         /\ JobSet(a \o b) = JobSet(a) \cup JobSet(b)
         /\ Distinct(a) /\ Distinct(b) /\ JobSet(a) \cap JobSet(b) = {} => Distinct(a \o b)
         /\ \A r : /\ OfRep(a, r) \subseteq OfRep(a \o b, r)
                   /\ Cardinality(OfRep(a \o b, r)) = Cardinality(OfRep(a, r)) + Cardinality(OfRep(b, r))
         /\ \A k \in DOMAIN a : k \in DOMAIN (a \o b) /\ (a \o b)[k] = a[k]
         /\ \A k \in DOMAIN (a \o b) :
              \/ k \in DOMAIN a /\ (a \o b)[k] = a[k]
              \/ \E l \in DOMAIN b : (a \o b)[k] = b[l]
<1> DEFINE c == a \o b
           n == Len(a)
           m == Len(b)
<1>1. /\ n \in Nat /\ m \in Nat /\ DOMAIN a = 1..n /\ DOMAIN b = 1..m
      /\ c \in Seq(Entries) /\ DOMAIN c = 1..(n + m)
      /\ \A k \in 1..n : c[k] = a[k]
      /\ \A k \in 1..m : c[n + k] = b[k]
  OBVIOUS
<1> HIDE DEF c, n, m
<1>2. \A k \in 1..(n + m) : k \in 1..n \/ (k - n \in 1..m /\ n + (k - n) = k)
  BY <1>1
<1>3. /\ \A k \in 1..n : k \in 1..(n + m)
      /\ \A k \in 1..m : n + k \in 1..(n + m) /\ n + k \notin 1..n
      /\ \A k, l \in 1..m : n + k = n + l => k = l
  BY <1>1
<1>4. JobSet(c) = JobSet(a) \cup JobSet(b)
  <2>1. ASSUME NEW k \in DOMAIN c PROVE c[k].job \in JobSet(a) \cup JobSet(b)
    <3>1. k \in 1..n \/ (k - n \in 1..m /\ c[k] = b[k - n])
      BY <1>1, <1>2
    <3>2. QED
      BY <1>1, <3>1 DEF JobSet
  <2>2. \A k \in DOMAIN a : a[k].job \in JobSet(c)
    BY <1>1, <1>3 DEF JobSet
  <2>3. \A k \in DOMAIN b : b[k].job \in JobSet(c)
    BY <1>1, <1>3 DEF JobSet
  <2>4. QED
    BY <2>1, <2>2, <2>3 DEF JobSet
<1>5. ASSUME Distinct(a), Distinct(b), JobSet(a) \cap JobSet(b) = {} PROVE Distinct(c)
  <2> SUFFICES ASSUME NEW k \in DOMAIN c, NEW l \in DOMAIN c, c[k].job = c[l].job PROVE k = l
    BY DEF Distinct
  <2>1. k \in 1..n \/ (k - n \in 1..m /\ c[k] = b[k - n] /\ n + (k - n) = k)
    BY <1>1, <1>2
  <2>2. l \in 1..n \/ (l - n \in 1..m /\ c[l] = b[l - n] /\ n + (l - n) = l)
    BY <1>1, <1>2
  <2>3. CASE k \in 1..n /\ l \in 1..n
    BY <1>1, <1>5, <2>3 DEF Distinct
  <2>4. CASE k \notin 1..n /\ l \notin 1..n
    <3>1. k - n = l - n
      BY <1>1, <1>5, <2>1, <2>2, <2>4 DEF Distinct
    <3>2. QED
      BY <2>1, <2>2, <2>4, <3>1
  <2>5. \A x \in 1..n, y \in 1..m : a[x].job # b[y].job
    BY <1>1, <1>5 DEF JobSet
  <2>6. CASE k \in 1..n /\ l \notin 1..n
    BY <1>1, <2>2, <2>5, <2>6
  <2>7. CASE k \notin 1..n /\ l \in 1..n
    BY <1>1, <2>1, <2>5, <2>7
  <2>8. QED
    BY <2>3, <2>4, <2>6, <2>7
<1>6. ASSUME NEW r
      PROVE  /\ OfRep(a, r) \subseteq OfRep(c, r)
             /\ Cardinality(OfRep(c, r)) = Cardinality(OfRep(a, r)) + Cardinality(OfRep(b, r))
  <2> DEFINE A == OfRep(a, r)
             B == OfRep(b, r)
             C == OfRep(c, r)
             D == {k \in C : k \notin 1..n}
             g == [k \in B |-> n + k]
  <2>1. A \subseteq C /\ A = {k \in C : k \in 1..n}
    BY <1>1, <1>3 DEF OfRep
  <2>2. \A k \in B : k \in 1..m /\ n + k \in D
    BY <1>1, <1>3 DEF OfRep
  <2>3. \A k \in D : k - n \in B /\ n + (k - n) = k
    BY <1>1, <1>2 DEF OfRep
  <2>4. IsFiniteSet(A) /\ IsFiniteSet(B) /\ IsFiniteSet(C)
        /\ Cardinality(A) \in Nat /\ Cardinality(B) \in Nat
    BY <1>1, PlacesFinite
  <2>5. C = A \cup D /\ A \cap D = {} /\ D \subseteq C
    BY <2>1
  <2> HIDE DEF A, B, C, D
  <2>6. g \in [B -> D] /\ (\A x, y \in B : g[x] = g[y] => x = y) /\ \A y \in D : \E x \in B : g[x] = y
    BY <1>3, <2>2, <2>3
  <2> HIDE DEF g
  <2>7. IsFiniteSet(D) /\ Cardinality(D) = Cardinality(B)
    BY <2>4, <2>6, SameSize
  <2>8. Cardinality(C) = Cardinality(A) + Cardinality(D) - Cardinality(A \cap D)
    BY <2>4, <2>5, <2>7, FS_Union
  <2>9. Cardinality({}) = 0
    BY FS_EmptySet
  <2>10. Cardinality(A \cap D) = 0
    BY <2>5, <2>9, Zenon
  <2>11. Cardinality(C) = Cardinality(A) + Cardinality(B)
    BY <2>4, <2>7, <2>8, <2>10
  <2>12. QED
    BY <2>1, <2>11 DEF A, B, C
<1>7. \A k \in DOMAIN c : (k \in DOMAIN a /\ c[k] = a[k]) \/ \E l \in DOMAIN b : c[k] = b[l]
  BY <1>1, <1>2
<1>8. \A k \in DOMAIN a : k \in DOMAIN c /\ c[k] = a[k]
  BY <1>1, <1>3
<1>9. QED
  BY <1>1, <1>4, <1>5, <1>6, <1>7, <1>8 DEF c

\* One more job of the batch.
LEMMA AppendBatch ==
  ASSUME NEW j \in Jobs, batch \in Seq(Jobs), batch' = Append(batch, j), plan' = plan
  PROVE  LET n == Len(batch)
         IN  /\ n \in Nat /\ Ids = 1..n /\ Ids' = 1..(n + 1) /\ Len(batch') = n + 1
             /\ batch' \in Seq(Jobs)
             /\ batch'[n + 1] = j
             /\ \A i \in Ids : i \in Ids' /\ batch'[i] = batch[i]
             /\ \A i \in Ids' : i \in Ids \/ i = n + 1
             /\ n + 1 \notin Ids
             /\ \A s : \A i \in Ids : i \in Placeholders(s)' <=> i \in Placeholders(s)
             /\ \A s : /\ Uses(s) \subseteq Uses(s)'
                       /\ n + 1 \in Uses(s)' <=> j.kind = "mapped" /\ j.source = s
                       /\ Uses(s)' \subseteq Uses(s) \cup {n + 1}
                       /\ n + 1 \in Placeholders(s)' <=>
                            j.kind = "mapped" /\ j.source = s /\ Uses(s) # {}
<1> DEFINE n == Len(batch)
<1>1. /\ n \in Nat /\ Ids = 1..n /\ Ids' = 1..(n + 1) /\ Len(batch') = n + 1
      /\ batch' \in Seq(Jobs) /\ batch'[n + 1] = j
      /\ \A i \in 1..n : batch'[i] = batch[i]
  BY DEF Ids
<1> HIDE DEF n
<1>2. /\ \A i \in Ids : i \in Ids' /\ batch'[i] = batch[i]
      /\ \A i \in Ids' : i \in Ids \/ i = n + 1
      /\ n + 1 \notin Ids /\ n + 1 \in Ids'
      /\ \A i \in Ids : \A k \in 1..(i - 1) : k \in Ids
      /\ 1..((n + 1) - 1) = Ids
  BY <1>1
<1>3. \A s : \A i \in Ids : i \in Placeholders(s)' <=> i \in Placeholders(s)
  BY <1>2 DEF Placeholders
<1>4. \A s : /\ Uses(s) \subseteq Uses(s)'
             /\ n + 1 \in Uses(s)' <=> j.kind = "mapped" /\ j.source = s
             /\ Uses(s)' \subseteq Uses(s) \cup {n + 1}
  BY <1>1, <1>2 DEF Uses
<1>5. \A s : n + 1 \in Placeholders(s)' <=> j.kind = "mapped" /\ j.source = s /\ Uses(s) # {}
  <2> SUFFICES ASSUME NEW s
               PROVE  n + 1 \in Placeholders(s)' <=> j.kind = "mapped" /\ j.source = s /\ Uses(s) # {}
    OBVIOUS
  <2>1. n + 1 \in Placeholders(s)' <=>
          /\ j.kind = "mapped" /\ j.source = s
          /\ \E k \in Ids : batch'[k].kind = "mapped" /\ batch'[k].source = s
    BY <1>1, <1>2 DEF Placeholders
  <2>2. (\E k \in Ids : batch'[k].kind = "mapped" /\ batch'[k].source = s) <=> Uses(s) # {}
    BY <1>2 DEF Uses
  <2>3. QED
    BY <2>1, <2>2
<1>6. QED
  BY <1>1, <1>2, <1>3, <1>4, <1>5 DEF n

\* One more entry of a list.
LEMMA AppendEntry ==
  ASSUME NEW list \in Seq(Entries), NEW e \in Entries
  PROVE  /\ Append(list, e) \in Seq(Entries)
         /\ JobSet(Append(list, e)) = JobSet(list) \cup {e.job}
         /\ Distinct(list) /\ e.job \notin JobSet(list) => Distinct(Append(list, e))
         /\ \A k \in DOMAIN Append(list, e) :
              \/ k \in DOMAIN list /\ Append(list, e)[k] = list[k]
              \/ Append(list, e)[k] = e
<1> DEFINE a == Append(list, e)
           n == Len(list)
<1>1. /\ n \in Nat /\ DOMAIN list = 1..n /\ a \in Seq(Entries) /\ DOMAIN a = 1..(n + 1)
      /\ a[n + 1] = e /\ \A k \in 1..n : a[k] = list[k]
  OBVIOUS
<1>2. \A k \in 1..(n + 1) : k \in 1..n \/ k = n + 1
  BY <1>1
<1>3. \A k \in 1..n : k \in 1..(n + 1)
  BY <1>1
<1>4. n + 1 \in 1..(n + 1)
  BY <1>1
<1> HIDE DEF a, n
<1>5. JobSet(a) = JobSet(list) \cup {e.job}
  BY <1>1, <1>2, <1>3, <1>4 DEF JobSet
<1>6. Distinct(list) /\ e.job \notin JobSet(list) => Distinct(a)
  BY <1>1, <1>2 DEF Distinct, JobSet
<1>7. QED
  BY <1>1, <1>2, <1>5, <1>6 DEF a

\* What an element leaves in the lists: nothing when it fails, else one entry.
Leaves(j, rep) ==
    \/ j.broken /\ meshes' = meshes /\ occurrences' = occurrences
    \/ /\ ~j.broken /\ occurrences' = occurrences
       /\ meshes' = Append(meshes, [job |-> Len(batch'), rep |-> rep])
    \/ /\ ~j.broken /\ meshes' = meshes /\ rep \in Reps
       /\ occurrences' = Append(occurrences, [job |-> Len(batch'), rep |-> rep])

\* An element that is produced is in one place, or failed.
LEMMA ProduceKeepsJobs ==
  ASSUME BatchTyped, Once, Complete, flat = <<>>, NEW j \in Jobs, NEW rep \in Reps \cup {NoRep},
         Producing(j), plan' = plan, flat' = flat, step' = step, Leaves(j, rep)
  PROVE  BatchTyped' /\ Once' /\ Complete'
<1> DEFINE n == Len(batch)
           e == [job |-> n + 1, rep |-> rep]
<1>1. batch \in Seq(Jobs) /\ batch' = Append(batch, j) /\ step = "produce"
  BY DEF BatchTyped, Producing
<1>2. /\ n \in Nat /\ Len(batch') = n + 1
      /\ batch' \in Seq(Jobs) /\ batch'[n + 1] = j
      /\ \A i \in Ids : i \in Ids' /\ batch'[i] = batch[i]
      /\ \A i \in Ids' : i \in Ids \/ i = n + 1
      /\ n + 1 \notin Ids /\ n + 1 \in Ids'
  BY <1>1, AppendBatch
<1>3. e \in Entries /\ e.job = n + 1
  BY <1>2 DEF Entries
<1>4. FlatSet = {} /\ FlatSet' = {}
  BY DEF FlatSet
<1>5. /\ Distinct(meshes) /\ Distinct(occurrences)
      /\ JobSet(meshes) \cap JobSet(occurrences) = {}
      /\ JobSet(meshes) \cup JobSet(occurrences) \subseteq Ids
      /\ \A i \in Ids : batch[i].broken <=> i \notin JobSet(meshes) \cup JobSet(occurrences)
  <2>1. Placed = JobSet(meshes) \cup JobSet(occurrences)
    BY <1>4 DEF Placed
  <2>2. \A i \in Ids : batch[i].broken \in BOOLEAN
    BY <1>1, InstancingAssumption DEF Ids
  <2>3. QED
    BY <1>1, <2>1, <2>2 DEF Once, Complete, Open
<1>6. JobSet(meshes)' = JobSet(meshes') /\ JobSet(occurrences)' = JobSet(occurrences')
      /\ Distinct(meshes)' = Distinct(meshes') /\ Distinct(occurrences)' = Distinct(occurrences')
  BY DEF JobSet, Distinct
<1>7. /\ meshes' \in Seq(Entries) /\ occurrences' \in Seq(Entries)
      /\ \A k \in DOMAIN occurrences' : occurrences'[k].rep \in Reps
      /\ Distinct(meshes') /\ Distinct(occurrences')
      /\ JobSet(meshes') \cap JobSet(occurrences') = {}
      /\ JobSet(meshes') \cup JobSet(occurrences') =
           JobSet(meshes) \cup JobSet(occurrences) \cup IF j.broken THEN {} ELSE {n + 1}
  <2>1. meshes \in Seq(Entries) /\ occurrences \in Seq(Entries)
        /\ \A k \in DOMAIN occurrences : occurrences[k].rep \in Reps
    BY DEF BatchTyped
  <2>2. n + 1 \notin JobSet(meshes) /\ n + 1 \notin JobSet(occurrences)
    BY <1>2, <1>5
  <2>3. CASE j.broken /\ meshes' = meshes /\ occurrences' = occurrences
    BY <1>5, <2>1, <2>3
  <2>4. CASE ~j.broken /\ occurrences' = occurrences /\ meshes' = Append(meshes, e)
    <3>1. /\ meshes' \in Seq(Entries) /\ JobSet(meshes') = JobSet(meshes) \cup {n + 1}
          /\ Distinct(meshes')
      <4> HIDE DEF e
      <4>1. QED
        BY <1>3, <1>5, <2>1, <2>2, <2>4, AppendEntry
    <3>2. QED
      BY <1>5, <2>1, <2>2, <2>4, <3>1
  <2>5. CASE ~j.broken /\ meshes' = meshes /\ rep \in Reps /\ occurrences' = Append(occurrences, e)
    <3>1. /\ occurrences' \in Seq(Entries) /\ JobSet(occurrences') = JobSet(occurrences) \cup {n + 1}
          /\ Distinct(occurrences')
          /\ \A k \in DOMAIN occurrences' :
               (k \in DOMAIN occurrences /\ occurrences'[k] = occurrences[k]) \/ occurrences'[k] = e
      <4> HIDE DEF e
      <4>1. QED
        BY <1>3, <1>5, <2>1, <2>2, <2>5, AppendEntry
    <3>2. e.rep = rep
      OBVIOUS
    <3>3. \A k \in DOMAIN occurrences' : occurrences'[k].rep \in Reps
      BY <2>1, <2>5, <3>1, <3>2
    <3>4. QED
      BY <1>5, <2>1, <2>2, <2>5, <3>1, <3>3
  <2>6. QED
    BY <1>2, <2>3, <2>4, <2>5 DEF Leaves
<1>8. BatchTyped'
  BY <1>2, <1>7 DEF BatchTyped, Producing
<1>9. Placed' = JobSet(meshes') \cup JobSet(occurrences')
  BY <1>4, <1>6 DEF Placed
<1>10. Once'
  <2>1. Placed' \subseteq Ids'
    BY <1>2, <1>5, <1>7, <1>9
  <2>2. \A k, l \in DOMAIN flat' : flat'[k] = flat'[l] => k = l
    OBVIOUS
  <2>3. FlatSet' \cap (JobSet(meshes') \cup JobSet(occurrences')) = {}
    BY <1>4
  <2>4. QED
    BY <1>6, <1>7, <2>1, <2>2, <2>3 DEF Once
<1>11. Complete'
  <2>1. ASSUME NEW i \in Ids'
        PROVE  batch'[i].broken <=> i \notin Placed'
    <3>1. CASE i \in Ids
      BY <1>2, <1>5, <1>7, <1>9, <3>1
    <3>2. CASE i = n + 1
      <4>1. i \notin JobSet(meshes) \cup JobSet(occurrences)
        BY <1>2, <1>5, <3>2
      <4>2. batch'[i].broken = j.broken
        BY <1>2, <3>2
      <4>3. QED
        BY <1>7, <1>9, <3>2, <4>1, <4>2
    <3>3. QED
      BY <1>2, <3>1, <3>2
  <2>2. QED
    BY <2>1 DEF Complete
<1>12. QED
  BY <1>8, <1>10, <1>11

\* The empty batch.
LEMMA InitHoldsInstancing == InstancingInit => InstancingInv
<1> SUFFICES ASSUME InstancingInit PROVE InstancingInv
  OBVIOUS
<1> USE DEF InstancingInit
<1>1. Ids = {} /\ DOMAIN meshes = {} /\ DOMAIN occurrences = {} /\ DOMAIN flat = {}
  BY DEF Ids
<1>2. BatchTyped
  BY DEF BatchTyped, Steps
<1>3. Placed = {} /\ JobSet(meshes) = {} /\ JobSet(occurrences) = {} /\ FlatSet = {}
  BY <1>1 DEF Placed, JobSet, FlatSet
<1>4. Once
  BY <1>1, <1>3 DEF Once, Distinct
<1>5. Complete
  BY <1>1 DEF Complete
<1>6. Sourced
  BY <1>1 DEF Sourced, Uses, Placeholders
<1>7. Grows
  BY <1>1 DEF Grows
<1>8. QED
  BY <1>2, <1>4, <1>5, <1>6, <1>7 DEF InstancingInv

\* What is known while the batch is produced.
LEMMA WhileProducing ==
  ASSUME InstancingInv, step = "produce"
  PROVE  /\ BatchTyped /\ Once /\ Complete /\ flat = <<>>
         /\ batch \in Seq(Jobs)
         /\ marked = {s \in plan : Uses(s) # {}}
         /\ \A s \in plan : \A k \in Placeholders(s) : ~batch[k].tripped => s \in registry
         /\ \A k \in DOMAIN occurrences : OccurrenceSourced(occurrences[k], batch, plan)
BY DEF InstancingInv, BatchTyped, Sourced, Grows, Open, OccurrenceSourced

\* What is known of the placeholders does not change with one more job.
LEMMA OlderSourced ==
  ASSUME NEW j \in Jobs, batch \in Seq(Jobs), batch' = Append(batch, j), plan' = plan
  PROVE  \A o : OccurrenceSourced(o, batch, plan) => OccurrenceSourced(o, batch', plan')
<1> SUFFICES ASSUME NEW i \in Ids
             PROVE  batch'[i] = batch[i] /\ (Repeats(batch, i) => Repeats(batch', i))
  BY DEF OccurrenceSourced, Repeats, Ids
<1>1. /\ \A k \in Ids : k \in Ids' /\ batch'[k] = batch[k]
      /\ Ids = 1..Len(batch) /\ Ids' = 1..Len(batch') /\ Len(batch) \in Nat
  BY AppendBatch DEF Ids
<1>2. \A k \in 1..(i - 1) : k \in Ids
  BY <1>1
<1>3. QED
  BY <1>1, <1>2 DEF Repeats

\* What makes the invariant of a batch that is being produced.
LEMMA ProducedInv ==
  ASSUME BatchTyped', Once', Complete', step' = "produce", flat' = <<>>,
         marked' = {s \in plan' : Uses(s)' # {}},
         \A s \in plan' : \A k \in Placeholders(s)' : ~batch'[k].tripped => s \in registry',
         \A k \in DOMAIN occurrences' : OccurrenceSourced(occurrences'[k], batch', plan')
  PROVE  InstancingInv'
BY DEF InstancingInv, Sourced, Grows, Open, OccurrenceSourced

\* An element meshed for itself uses no source of the plan.
LEMMA MaterializeKeepsInv ==
  ASSUME InstancingInv, NEW j \in Jobs, Materialize(j)
  PROVE  InstancingInv'
<1> DEFINE n == Len(batch)
           rep == IF j.kind = "voided" THEN NoRep ELSE <<"hash", j.source>>
<1>1. /\ Producing(j) /\ ~Planned(j) /\ Mesh(j, rep)
      /\ UNCHANGED <<plan, marked, registry, occurrences, flat, shard, step>>
  BY DEF Materialize
<1>2. step = "produce" /\ step' = "produce" /\ batch' = Append(batch, j)
  BY <1>1 DEF Producing
<1>3. /\ BatchTyped /\ Once /\ Complete /\ flat = <<>>
      /\ batch \in Seq(Jobs)
      /\ marked = {s \in plan : Uses(s) # {}}
      /\ \A s \in plan : \A k \in Placeholders(s) : ~batch[k].tripped => s \in registry
      /\ \A k \in DOMAIN occurrences : OccurrenceSourced(occurrences[k], batch, plan)
  BY <1>2, WhileProducing
<1>4. rep \in Reps \cup {NoRep}
  BY DEF Reps, Sources
<1>5. Leaves(j, rep)
  BY <1>1 DEF Leaves, Mesh
<1> HIDE DEF rep
<1>6. BatchTyped' /\ Once' /\ Complete'
  BY <1>1, <1>3, <1>4, <1>5, ProduceKeepsJobs
<1>7. /\ \A i \in Ids : i \in Ids' /\ batch'[i] = batch[i]
      /\ \A i \in Ids' : i \in Ids \/ i = n + 1
      /\ \A s : \A i \in Ids : i \in Placeholders(s)' <=> i \in Placeholders(s)
      /\ \A s : /\ Uses(s) \subseteq Uses(s)'
                /\ n + 1 \in Uses(s)' <=> j.kind = "mapped" /\ j.source = s
                /\ Uses(s)' \subseteq Uses(s) \cup {n + 1}
                /\ n + 1 \in Placeholders(s)' <=>
                     j.kind = "mapped" /\ j.source = s /\ Uses(s) # {}
  BY <1>1, <1>2, <1>3, AppendBatch
<1>8. \A s \in plan : n + 1 \notin Uses(s)' /\ n + 1 \notin Placeholders(s)'
  BY <1>1, <1>7 DEF Planned
<1>9. \A s \in plan : Uses(s)' = Uses(s)
  <2> SUFFICES ASSUME NEW s \in plan PROVE Uses(s)' = Uses(s)
    OBVIOUS
  <2>1. /\ Uses(s) \subseteq Uses(s)' /\ Uses(s)' \subseteq Uses(s) \cup {n + 1}
        /\ n + 1 \notin Uses(s)'
    BY <1>7, <1>8
  <2>2. QED
    BY <2>1
<1>10. \A s \in plan : \A k \in Placeholders(s)' : k \in Placeholders(s) /\ batch'[k] = batch[k]
  BY <1>7, <1>8 DEF Placeholders
<1>11. \A k \in DOMAIN occurrences : OccurrenceSourced(occurrences[k], batch', plan')
  BY <1>1, <1>2, <1>3, OlderSourced
<1>12. marked' = {s \in plan' : Uses(s)' # {}}
  BY <1>1, <1>3, <1>9
<1>13. \A s \in plan' : \A k \in Placeholders(s)' : ~batch'[k].tripped => s \in registry'
  BY <1>1, <1>3, <1>10
<1>14. QED
  BY <1>1, <1>2, <1>3, <1>6, <1>11, <1>12, <1>13, ProducedInv

\* The first use of a source marks it and leaves no placeholder.
LEMMA TemplateKeepsInv ==
  ASSUME InstancingInv, NEW j \in Jobs, Template(j)
  PROVE  InstancingInv'
<1> DEFINE n == Len(batch)
           rep == <<"id", j.source>>
<1>1. /\ Producing(j) /\ Planned(j) /\ j.source \notin marked /\ marked' = marked \cup {j.source}
      /\ Mesh(j, rep)
      /\ UNCHANGED <<plan, registry, occurrences, flat, shard, step>>
  BY DEF Template
<1>2. step = "produce" /\ step' = "produce" /\ batch' = Append(batch, j)
  BY <1>1 DEF Producing
<1>3. /\ BatchTyped /\ Once /\ Complete /\ flat = <<>>
      /\ batch \in Seq(Jobs)
      /\ marked = {s \in plan : Uses(s) # {}}
      /\ \A s \in plan : \A k \in Placeholders(s) : ~batch[k].tripped => s \in registry
      /\ \A k \in DOMAIN occurrences : OccurrenceSourced(occurrences[k], batch, plan)
  BY <1>2, WhileProducing
<1>4. rep \in Reps \cup {NoRep}
  BY DEF Reps, Sources
<1>5. Leaves(j, rep)
  BY <1>1 DEF Leaves, Mesh
<1> HIDE DEF rep
<1>6. BatchTyped' /\ Once' /\ Complete'
  BY <1>1, <1>3, <1>4, <1>5, ProduceKeepsJobs
<1>7. /\ \A i \in Ids : i \in Ids' /\ batch'[i] = batch[i]
      /\ \A i \in Ids' : i \in Ids \/ i = n + 1
      /\ \A s : \A i \in Ids : i \in Placeholders(s)' <=> i \in Placeholders(s)
      /\ \A s : /\ Uses(s) \subseteq Uses(s)'
                /\ n + 1 \in Uses(s)' <=> j.kind = "mapped" /\ j.source = s
                /\ Uses(s)' \subseteq Uses(s) \cup {n + 1}
                /\ n + 1 \in Placeholders(s)' <=>
                     j.kind = "mapped" /\ j.source = s /\ Uses(s) # {}
  BY <1>1, <1>2, <1>3, AppendBatch
<1>8. j.kind = "mapped" /\ j.source \in plan /\ Uses(j.source) = {}
  BY <1>1, <1>3 DEF Planned
<1>9. \A s \in plan : n + 1 \notin Placeholders(s)'
  BY <1>7, <1>8
<1>10. \A s \in plan : Uses(s)' # {} <=> (Uses(s) # {} \/ s = j.source)
  BY <1>7, <1>8
<1>11. \A s \in plan : \A k \in Placeholders(s)' : k \in Placeholders(s) /\ batch'[k] = batch[k]
  BY <1>7, <1>9 DEF Placeholders
<1>12. \A k \in DOMAIN occurrences : OccurrenceSourced(occurrences[k], batch', plan')
  BY <1>1, <1>2, <1>3, OlderSourced
<1>13. marked' = {s \in plan' : Uses(s)' # {}}
  BY <1>1, <1>3, <1>8, <1>10
<1>14. \A s \in plan' : \A k \in Placeholders(s)' : ~batch'[k].tripped => s \in registry'
  BY <1>1, <1>3, <1>11
<1>15. QED
  BY <1>1, <1>2, <1>3, <1>6, <1>12, <1>13, <1>14, ProducedInv

\* A placeholder registers its source unless its budget was spent.
LEMMA PlaceholderKeepsInv ==
  ASSUME InstancingInv, NEW j \in Jobs, Placeholder(j)
  PROVE  InstancingInv'
<1> DEFINE n == Len(batch)
           rep == <<"id", j.source>>
           e == [job |-> Len(batch'), rep |-> rep]
<1>1. /\ Producing(j) /\ Planned(j) /\ j.source \in marked
      /\ registry' = IF j.tripped THEN registry ELSE registry \cup {j.source}
      /\ occurrences' = IF j.broken THEN occurrences ELSE Append(occurrences, e)
      /\ UNCHANGED <<plan, marked, meshes, flat, shard, step>>
  BY DEF Placeholder
<1>2. step = "produce" /\ step' = "produce" /\ batch' = Append(batch, j)
  BY <1>1 DEF Producing
<1>3. /\ BatchTyped /\ Once /\ Complete /\ flat = <<>>
      /\ batch \in Seq(Jobs)
      /\ marked = {s \in plan : Uses(s) # {}}
      /\ \A s \in plan : \A k \in Placeholders(s) : ~batch[k].tripped => s \in registry
      /\ \A k \in DOMAIN occurrences : OccurrenceSourced(occurrences[k], batch, plan)
  BY <1>2, WhileProducing
<1>4. rep \in Reps
  BY DEF Reps, Sources
<1>5. Leaves(j, rep)
  BY <1>1, <1>4 DEF Leaves
<1>6. BatchTyped' /\ Once' /\ Complete'
  BY <1>1, <1>3, <1>4, <1>5, ProduceKeepsJobs
<1>7. /\ n \in Nat /\ Len(batch') = n + 1 /\ batch'[n + 1] = j
      /\ \A i \in Ids : i \in Ids' /\ batch'[i] = batch[i]
      /\ \A i \in Ids' : i \in Ids \/ i = n + 1
      /\ \A s : \A i \in Ids : i \in Placeholders(s)' <=> i \in Placeholders(s)
      /\ \A s : /\ Uses(s) \subseteq Uses(s)'
                /\ n + 1 \in Uses(s)' <=> j.kind = "mapped" /\ j.source = s
                /\ Uses(s)' \subseteq Uses(s) \cup {n + 1}
                /\ n + 1 \in Placeholders(s)' <=>
                     j.kind = "mapped" /\ j.source = s /\ Uses(s) # {}
  BY <1>1, <1>2, <1>3, AppendBatch
<1>8. j.kind = "mapped" /\ j.source \in plan /\ Uses(j.source) # {}
  BY <1>1, <1>3 DEF Planned
<1>9. \A s \in plan : \A k \in Placeholders(s)' :
         \/ k \in Placeholders(s) /\ batch'[k] = batch[k]
         \/ k = n + 1 /\ s = j.source
  BY <1>7 DEF Placeholders
<1>10. \A s \in plan : Uses(s)' # {} <=> Uses(s) # {}
  BY <1>7, <1>8
<1>11. OccurrenceSourced(e, batch', plan')
  <2>1. e.job = n + 1 /\ e.rep = <<"id", j.source>>
    BY <1>7
  <2> HIDE DEF e
  <2>2. n + 1 \in Placeholders(j.source)'
    BY <1>7, <1>8
  <2>3. Repeats(batch', n + 1)
    BY <1>7, <2>2 DEF Placeholders, Repeats, Ids
  <2>4. QED
    BY <1>1, <1>7, <1>8, <2>1, <2>3 DEF OccurrenceSourced
<1>12. \A k \in DOMAIN occurrences : OccurrenceSourced(occurrences[k], batch', plan')
  BY <1>1, <1>2, <1>3, OlderSourced
<1>13. \A k \in DOMAIN occurrences' : OccurrenceSourced(occurrences'[k], batch', plan')
  <2>1. occurrences \in Seq(Entries) /\ e \in Entries
    BY <1>3, <1>4, <1>7 DEF BatchTyped, Entries
  <2> HIDE DEF e
  <2>2. \A k \in DOMAIN Append(occurrences, e) :
            \/ k \in DOMAIN occurrences /\ Append(occurrences, e)[k] = occurrences[k]
            \/ Append(occurrences, e)[k] = e
    BY <2>1, AppendEntry
  <2>3. CASE j.broken
    BY <1>1, <1>12, <2>3
  <2>4. CASE ~j.broken
    BY <1>1, <1>11, <1>12, <2>2, <2>4
  <2>5. QED
    BY <2>3, <2>4
<1>14. marked' = {s \in plan' : Uses(s)' # {}}
  BY <1>1, <1>3, <1>10
<1>15. \A s \in plan' : \A k \in Placeholders(s)' : ~batch'[k].tripped => s \in registry'
  <2> SUFFICES ASSUME NEW s \in plan, NEW k \in Placeholders(s)', ~batch'[k].tripped
               PROVE  s \in registry'
    BY <1>1
  <2>1. registry \subseteq registry'
    BY <1>1
  <2>2. CASE k \in Placeholders(s) /\ batch'[k] = batch[k]
    BY <1>3, <2>1, <2>2
  <2>3. CASE k = n + 1 /\ s = j.source
    BY <1>1, <1>7, <2>3
  <2>4. QED
    BY <1>9, <2>2, <2>3
<1>16. QED
  BY <1>1, <1>2, <1>3, <1>6, <1>13, <1>14, <1>15, ProducedInv

\* The end of the production changes nothing.
LEMMA ProducedKeepsInv ==
  ASSUME InstancingInv, Produced
  PROVE  InstancingInv'
<1>1. /\ step = "produce" /\ step' = "resolve"
      /\ UNCHANGED <<batch, plan, marked, registry, meshes, occurrences, flat, shard>>
  BY DEF Produced
<1>2. BatchTyped'
  BY <1>1 DEF InstancingInv, BatchTyped, Steps
<1>3. Once'
  <2>1. JobSet(meshes)' = JobSet(meshes) /\ JobSet(occurrences)' = JobSet(occurrences)
        /\ FlatSet' = FlatSet /\ Ids' = Ids
    BY <1>1 DEF JobSet, FlatSet, Ids
  <2>2. Placed' = Placed
    BY <2>1 DEF Placed
  <2>3. Once
    BY DEF InstancingInv
  <2>4. Distinct(meshes)' /\ Distinct(occurrences)'
    BY <1>1, <2>3 DEF Once, Distinct
  <2>5. QED
    BY <1>1, <2>1, <2>2, <2>3, <2>4 DEF Once
<1>4. Complete'
  BY <1>1 DEF InstancingInv, Complete, Placed, FlatSet, Ids, JobSet, Open
<1>5. Sourced'
  BY <1>1 DEF InstancingInv, Sourced, Uses, Placeholders, Ids, Open
<1>6. Grows'
  BY <1>1 DEF InstancingInv, Grows
<1>7. QED
  BY <1>2, <1>3, <1>4, <1>5, <1>6 DEF InstancingInv

\* The first mesh of an eligible rep is a candidate of that rep.
LEMMA EligibleHasCandidate ==
  ASSUME meshes \in Seq(Entries), NEW r, TemplateEligible(r)
  PROVE  \E m \in OfRep(meshes, r) : Candidate(meshes[m])
<1>1. OfRep(meshes, r) \in SUBSET DOMAIN meshes /\ DOMAIN meshes = 1..Len(meshes)
  BY PlacesFinite
<1>2. OfRep(meshes, r) \in SUBSET Nat /\ OfRep(meshes, r) # {}
  BY <1>1 DEF TemplateEligible
<1>3. Min(OfRep(meshes, r)) \in OfRep(meshes, r)
  BY <1>2, MinIn
<1>4. QED
  BY <1>3 DEF TemplateEligible

\* The jobs of a part of a list.
LEMMA JobsOfPart ==
  ASSUME NEW list \in Seq(Entries), NEW K \in SUBSET DOMAIN list
  PROVE  JobSet(Only(list, K)) = {list[k].job : k \in K}
<1>1. /\ \A k \in DOMAIN Only(list, K) : \E p \in K : Only(list, K)[k] = list[p]
      /\ \A p \in K : \E k \in DOMAIN Only(list, K) : Only(list, K)[k] = list[p]
  BY OnlyFacts
<1> DEFINE o == Only(list, K)
<1> HIDE DEF o
<1>2. /\ \A k \in DOMAIN o : \E p \in K : o[k].job = list[p].job
      /\ \A p \in K : \E k \in DOMAIN o : o[k].job = list[p].job
  BY <1>1 DEF o
<1>3. JobSet(o) = {list[k].job : k \in K}
  BY <1>2 DEF JobSet
<1>4. QED
  BY <1>3 DEF o

\* Parts at different places have no job in common.
LEMMA PartsApart ==
  ASSUME NEW list \in Seq(Entries), NEW K \in SUBSET DOMAIN list, NEW L \in SUBSET DOMAIN list,
         Distinct(list), K \cap L = {}
  PROVE  JobSet(Only(list, K)) \cap JobSet(Only(list, L)) = {}
BY JobsOfPart DEF Distinct

\* The meshes that are rebuilt flat from the registry.
Rebuilt(list) == [k \in DOMAIN list |-> [job |-> list[k].job, rep |-> NoRep]]

\* What is rebuilt is the same jobs.
LEMMA RebuiltFacts ==
  ASSUME NEW list \in Seq(Entries)
  PROVE  /\ Rebuilt(list) \in Seq(Entries) /\ JobSet(Rebuilt(list)) = JobSet(list)
         /\ Distinct(list) => Distinct(Rebuilt(list))
<1>1. DOMAIN list = 1..Len(list) /\ Len(list) \in Nat /\ \A k \in DOMAIN list : list[k].job \in Nat
  <2>1. DOMAIN list = 1..Len(list) /\ Len(list) \in Nat /\ \A k \in DOMAIN list : list[k] \in Entries
    OBVIOUS
  <2>2. QED
    BY <2>1 DEF Entries
<1>2. \A k \in DOMAIN list : [job |-> list[k].job, rep |-> NoRep] \in Entries
  BY <1>1 DEF Entries
<1>3. Rebuilt(list) \in Seq(Entries)
  BY <1>1, <1>2 DEF Rebuilt
<1>4. DOMAIN Rebuilt(list) = DOMAIN list /\ \A k \in DOMAIN list : Rebuilt(list)[k].job = list[k].job
  BY DEF Rebuilt
<1>5. JobSet(Rebuilt(list)) = JobSet(list)
  BY <1>4 DEF JobSet
<1>6. Distinct(list) => Distinct(Rebuilt(list))
  BY <1>4 DEF Distinct
<1>7. QED
  BY <1>3, <1>5, <1>6

\* Placeholders are kept as instances, rebuilt flat, or lost with their source.
LEMMA ResolveKeepsInv ==
  ASSUME InstancingInv, Resolve
  PROVE  InstancingInv'
<1> DEFINE K == {k \in DOMAIN occurrences : Kept(occurrences[k].rep)}
           R == {k \in DOMAIN occurrences : Recovered(occurrences[k])}
           rec == Only(occurrences, R)
           b == Rebuilt(rec)
<1>1. /\ step = "resolve" /\ step' = "partition"
      /\ meshes' = meshes \o b /\ occurrences' = Only(occurrences, K)
      /\ UNCHANGED <<batch, plan, marked, registry, flat, shard>>
  BY DEF Resolve, Rebuilt
<1>2. /\ meshes \in Seq(Entries) /\ occurrences \in Seq(Entries)
      /\ \A k \in DOMAIN occurrences : occurrences[k].rep \in Reps
  BY DEF InstancingInv, BatchTyped
<1>3. K \in SUBSET DOMAIN occurrences /\ R \in SUBSET DOMAIN occurrences /\ K \cap R = {}
  BY DEF Recovered
<1>4. flat = <<>> /\ flat' = <<>> /\ FlatSet = {} /\ FlatSet' = {}
  BY <1>1 DEF InstancingInv, Grows, FlatSet
<1>5. /\ Distinct(meshes) /\ Distinct(occurrences)
      /\ JobSet(meshes) \cap JobSet(occurrences) = {}
      /\ JobSet(meshes) \cup JobSet(occurrences) \subseteq Ids
      /\ Placed = JobSet(meshes) \cup JobSet(occurrences)
  BY <1>4 DEF InstancingInv, Once, Placed
<1>6. rec \in Seq(Entries) /\ Distinct(rec) /\ JobSet(rec) = {occurrences[k].job : k \in R}
  <2> HIDE DEF K, R
  <2>1. rec \in Seq(Entries) /\ (Distinct(occurrences) => Distinct(rec))
    BY <1>2, <1>3, OnlyFacts
  <2>2. JobSet(rec) = {occurrences[k].job : k \in R}
    BY <1>2, <1>3, JobsOfPart
  <2>3. QED
    BY <1>5, <2>1, <2>2
<1> HIDE DEF rec
<1>7. b \in Seq(Entries) /\ Distinct(b) /\ JobSet(b) = JobSet(rec)
  BY <1>6, RebuiltFacts
<1>8. /\ occurrences' \in Seq(Entries) /\ Distinct(occurrences')
      /\ JobSet(occurrences') = {occurrences[k].job : k \in K}
      /\ \A k \in DOMAIN occurrences' : \E p \in K : occurrences'[k] = occurrences[p]
      /\ \A r : Cardinality(OfRep(occurrences', r)) = Cardinality(OfRep(occurrences, r) \cap K)
  <2> HIDE DEF K, R
  <2> DEFINE o == Only(occurrences, K)
  <2>1. /\ o \in Seq(Entries) /\ (Distinct(occurrences) => Distinct(o))
        /\ \A k \in DOMAIN o : \E p \in K : o[k] = occurrences[p]
    BY <1>2, <1>3, OnlyFacts
  <2>5. \A r : Cardinality(OfRep(o, r)) = Cardinality(OfRep(occurrences, r) \cap K)
    BY <1>2, <1>3, OnlyFacts
  <2>2. JobSet(o) = {occurrences[k].job : k \in K}
    BY <1>2, <1>3, JobsOfPart
  <2>3. o = occurrences'
    BY <1>1
  <2> HIDE DEF o
  <2>4. QED
    BY <1>5, <2>1, <2>2, <2>3, <2>5
<1> HIDE DEF b
<1>9. JobSet(occurrences') \cap JobSet(b) = {} /\ JobSet(b) \subseteq JobSet(occurrences)
      /\ JobSet(occurrences') \subseteq JobSet(occurrences)
  <2>1. \A k \in K, l \in R : occurrences[k].job # occurrences[l].job
    BY <1>3, <1>5 DEF Distinct
  <2> HIDE DEF K, R
  <2>2. JobSet(occurrences') \cap JobSet(b) = {}
    BY <1>6, <1>7, <1>8, <2>1
  <2>3. \A k \in DOMAIN occurrences : occurrences[k].job \in JobSet(occurrences)
    BY DEF JobSet
  <2>4. JobSet(b) \subseteq JobSet(occurrences)
    BY <1>3, <1>6, <1>7, <2>3
  <2>5. JobSet(occurrences') \subseteq JobSet(occurrences)
    BY <1>3, <1>8, <2>3
  <2>6. QED
    BY <2>2, <2>4, <2>5
<1>10. /\ meshes' \in Seq(Entries) /\ JobSet(meshes') = JobSet(meshes) \cup JobSet(b)
       /\ Distinct(meshes')
       /\ \A k \in DOMAIN meshes : k \in DOMAIN meshes' /\ meshes'[k] = meshes[k]
  BY <1>1, <1>2, <1>5, <1>7, <1>9, JoinFacts
<1>11. JobSet(meshes)' = JobSet(meshes') /\ JobSet(occurrences)' = JobSet(occurrences')
       /\ Distinct(meshes)' = Distinct(meshes') /\ Distinct(occurrences)' = Distinct(occurrences')
       /\ Ids' = Ids
  BY <1>1 DEF JobSet, Distinct, Ids
<1>12. Placed' = JobSet(meshes') \cup JobSet(occurrences') /\ Placed' \subseteq Placed
  BY <1>4, <1>5, <1>9, <1>10, <1>11 DEF Placed
<1>13. BatchTyped'
  <2>1. \A k \in DOMAIN occurrences' : occurrences'[k].rep \in Reps
    BY <1>2, <1>3, <1>8
  <2>2. QED
    BY <1>1, <1>8, <1>10, <2>1 DEF InstancingInv, BatchTyped, Steps
<1>14. Once'
  <2>1. \A k, l \in DOMAIN flat' : flat'[k] = flat'[l] => k = l
    BY <1>4
  <2>2. QED
    BY <1>4, <1>5, <1>8, <1>9, <1>10, <1>11, <1>12, <2>1 DEF Once
<1>15. Complete'
  <2> SUFFICES ASSUME NEW i \in Ids
               PROVE  /\ batch[i].broken => i \notin Placed'
                      /\ ~batch[i].broken => i \in Placed' \/ MayBeLost(i)'
    BY <1>1, <1>11 DEF Complete, Open
  <2>1. /\ batch[i].broken => i \notin Placed
        /\ ~batch[i].broken => i \in Placed
    BY <1>1 DEF InstancingInv, Complete, Open
  <2>2. MayBeLost(i)' <=> MayBeLost(i)
    BY <1>1 DEF MayBeLost, Placeholders, Ids
  <2>3. ASSUME i \in JobSet(occurrences), i \notin Placed' PROVE MayBeLost(i)
    <3>1. PICK k \in DOMAIN occurrences : occurrences[k].job = i
      BY <2>3 DEF JobSet
    <3>2. k \notin K /\ k \notin R
      BY <1>6, <1>7, <1>8, <1>10, <1>12, <2>3, <3>1
    <3>3. OccurrenceSourced(occurrences[k], batch, plan)
      BY <1>1 DEF InstancingInv, Sourced, Open
    <3>4. LET s == batch[i].source
          IN  s \in plan /\ i \in Placeholders(s) /\ occurrences[k].rep = <<"id", s>>
      BY <3>1, <3>3 DEF OccurrenceSourced, Repeats, Placeholders, Ids
    <3>5. batch[i].source \notin registry
      BY <3>2, <3>4 DEF Recovered
    <3>6. \A l \in Placeholders(batch[i].source) : batch[l].tripped
      <4>1. \A l \in Placeholders(batch[i].source) : batch[l].tripped \in BOOLEAN
        BY InstancingAssumption DEF Placeholders, Ids, InstancingInv, BatchTyped
      <4>2. QED
        BY <3>4, <3>5, <4>1 DEF InstancingInv, Sourced
    <3>7. QED
      BY <3>4, <3>6 DEF MayBeLost
  <2>4. QED
    BY <1>5, <1>10, <1>12, <2>1, <2>2, <2>3
<1>16. Sourced'
  BY <1>1 DEF InstancingInv, Sourced, Uses, Placeholders, Ids, Open
<1>17. Grows'
  <2> SUFFICES ASSUME NEW k \in DOMAIN occurrences'
               PROVE  LET r == occurrences'[k].rep
                      IN  /\ \E m \in OfRep(meshes', r) : Candidate(meshes[m])'
                          /\ Cardinality(OfRep(occurrences', r)) + 1 >= MinOccurrences
    BY <1>1, <1>4 DEF Grows
  <2>1. PICK p \in K : occurrences'[k] = occurrences[p]
    BY <1>8
  <2> DEFINE r == occurrences[p].rep
  <2>2. Kept(r) /\ r = occurrences'[k].rep
    BY <2>1
  <2>3. PICK m \in OfRep(meshes, r) : Candidate(meshes[m])
    BY <1>2, <2>2, EligibleHasCandidate DEF Kept
  <2>4. m \in OfRep(meshes', r) /\ Candidate(meshes[m])'
    BY <1>1, <1>10, <2>3 DEF OfRep, Candidate
  <2>5. OfRep(occurrences, r) \cap K = OfRep(occurrences, r)
    BY <2>2 DEF OfRep
  <2>6. Cardinality(OfRep(occurrences', r)) + 1 >= MinOccurrences
    BY <1>8, <2>2, <2>5 DEF Kept
  <2>7. QED
    BY <2>2, <2>4, <2>6
<1>18. QED
  BY <1>13, <1>14, <1>15, <1>16, <1>17 DEF InstancingInv

\* The meshes are split into those drawn flat and those of the shard.
LEMMA PartitionKeepsInv ==
  ASSUME InstancingInv, Partition
  PROVE  InstancingInv'
<1> DEFINE I == {k \in DOMAIN meshes : Instanced(meshes[k])}
           F == DOMAIN meshes \ I
           f == Only(meshes, F)
           m == Only(meshes, I)
<1>1. /\ step = "partition" /\ step' = "collate"
      /\ flat' = JobsOf(f) /\ meshes' = m
      /\ UNCHANGED <<batch, plan, marked, registry, occurrences, shard>>
  BY DEF Partition
<1>2. /\ meshes \in Seq(Entries) /\ occurrences \in Seq(Entries)
      /\ \A k \in DOMAIN occurrences : occurrences[k].rep \in Reps
  BY DEF InstancingInv, BatchTyped
<1>3. I \in SUBSET DOMAIN meshes /\ F \in SUBSET DOMAIN meshes /\ I \cap F = {} /\ I \cup F = DOMAIN meshes
  OBVIOUS
<1>4. FlatSet = {}
  BY <1>1 DEF InstancingInv, Grows, FlatSet
<1>5. /\ Distinct(meshes) /\ Distinct(occurrences)
      /\ JobSet(meshes) \cap JobSet(occurrences) = {}
      /\ JobSet(meshes) \cup JobSet(occurrences) \subseteq Ids
      /\ Placed = JobSet(meshes) \cup JobSet(occurrences)
  BY <1>4 DEF InstancingInv, Once, Placed
<1>6. f \in Seq(Entries) /\ Distinct(f) /\ JobSet(f) = {meshes[k].job : k \in F}
  <2> HIDE DEF I, F
  <2>1. f \in Seq(Entries) /\ (Distinct(meshes) => Distinct(f))
    BY <1>2, <1>3, OnlyFacts
  <2>2. JobSet(f) = {meshes[k].job : k \in F}
    BY <1>2, <1>3, JobsOfPart
  <2>3. QED
    BY <1>5, <2>1, <2>2
<1>7. /\ m \in Seq(Entries) /\ Distinct(m)
      /\ JobSet(m) = {meshes[k].job : k \in I}
      /\ \A k \in DOMAIN m : \E p \in I : m[k] = meshes[p]
      /\ \A p \in I : \E k \in DOMAIN m : m[k] = meshes[p]
      /\ \A r : Cardinality(OfRep(m, r)) = Cardinality(OfRep(meshes, r) \cap I)
  <2> HIDE DEF I, F
  <2>1. /\ m \in Seq(Entries) /\ (Distinct(meshes) => Distinct(m))
        /\ \A k \in DOMAIN m : \E p \in I : m[k] = meshes[p]
    BY <1>2, <1>3, OnlyFacts
  <2>2. \A p \in I : \E k \in DOMAIN m : m[k] = meshes[p]
    BY <1>2, <1>3, OnlyFacts
  <2>3. \A r : Cardinality(OfRep(m, r)) = Cardinality(OfRep(meshes, r) \cap I)
    BY <1>2, <1>3, OnlyFacts
  <2>4. JobSet(m) = {meshes[k].job : k \in I}
    BY <1>2, <1>3, JobsOfPart
  <2>5. QED
    BY <1>5, <2>1, <2>2, <2>3, <2>4
<1> HIDE DEF f, m
<1>8. JobSet(f) \cap JobSet(m) = {} /\ JobSet(f) \cup JobSet(m) = JobSet(meshes)
  <2>1. \A k \in I, l \in F : meshes[k].job # meshes[l].job
    BY <1>3, <1>5 DEF Distinct
  <2> HIDE DEF I, F
  <2>2. JobSet(f) \cap JobSet(m) = {}
    BY <1>6, <1>7, <2>1
  <2>3. JobSet(f) \cup JobSet(m) = JobSet(meshes)
    BY <1>3, <1>6, <1>7 DEF JobSet
  <2>4. QED
    BY <2>2, <2>3
<1>9. /\ flat' \in Seq(Nat) /\ FlatSet' = JobSet(f)
      /\ \A k, l \in DOMAIN flat' : flat'[k] = flat'[l] => k = l
  <2>1. DOMAIN f = 1..Len(f) /\ Len(f) \in Nat /\ \A k \in DOMAIN f : f[k] \in Entries
    BY <1>6
  <2>2. \A k \in DOMAIN f : f[k].job \in Nat
    BY <2>1 DEF Entries
  <2>3. flat' = [k \in DOMAIN f |-> f[k].job]
    BY <1>1 DEF JobsOf
  <2>4. flat' \in Seq(Nat)
    BY <2>1, <2>2, <2>3
  <2>5. DOMAIN flat' = DOMAIN f /\ \A k \in DOMAIN f : flat'[k] = f[k].job
    BY <2>3
  <2>6. FlatSet' = JobSet(f)
    BY <2>5 DEF FlatSet, JobSet
  <2>7. QED
    BY <1>6, <2>4, <2>5, <2>6 DEF Distinct
<1>10. JobSet(meshes)' = JobSet(m) /\ JobSet(occurrences)' = JobSet(occurrences)
       /\ Distinct(meshes)' = Distinct(m) /\ Distinct(occurrences)' = Distinct(occurrences)
       /\ Ids' = Ids
  BY <1>1 DEF JobSet, Distinct, Ids
<1>11. Placed' = Placed
  BY <1>5, <1>8, <1>9, <1>10 DEF Placed
<1>12. BatchTyped'
  BY <1>1, <1>7, <1>9 DEF InstancingInv, BatchTyped, Steps
<1>13. Once'
  <2>1. JobSet(m) \cap JobSet(occurrences) = {} /\ JobSet(f) \cap (JobSet(m) \cup JobSet(occurrences)) = {}
    BY <1>5, <1>8
  <2>2. Placed' \subseteq Ids'
    BY <1>5, <1>10, <1>11
  <2>3. QED
    BY <1>5, <1>7, <1>9, <1>10, <2>1, <2>2 DEF Once
<1>14. Complete'
  <2>1. \A i : MayBeLost(i)' <=> MayBeLost(i)
    BY <1>1 DEF MayBeLost, Placeholders, Ids
  <2>2. QED
    BY <1>1, <1>10, <1>11, <2>1 DEF InstancingInv, Complete, Open
<1>15. Sourced'
  BY <1>1 DEF InstancingInv, Sourced, Uses, Placeholders, Ids, Open
<1>16. ASSUME NEW r \in Reps, Tally(r) >= MinOccurrences
       PROVE  /\ OfRep(meshes, r) \cap I = {k \in OfRep(meshes, r) : Candidate(meshes[k])}
              /\ Cardinality(OfRep(m \o occurrences, r)) >= MinOccurrences
  <2>1. OfRep(meshes, r) \cap I = {k \in OfRep(meshes, r) : Candidate(meshes[k])}
    BY <1>16, InstancingAssumption DEF OfRep, Instanced
  <2>2. Cardinality(OfRep(m \o occurrences, r)) = Cardinality(OfRep(m, r)) + Cardinality(OfRep(occurrences, r))
    BY <1>2, <1>7, JoinFacts
  <2>3. Cardinality(OfRep(m, r)) = Cardinality({k \in OfRep(meshes, r) : Candidate(meshes[k])})
    BY <1>7, <2>1
  <2>4. QED
    BY <1>16, <2>1, <2>2, <2>3 DEF Tally
<1>17. Grows'
  <2>1. ASSUME NEW k \in DOMAIN m
        PROVE  m[k].rep \in Reps /\ Cardinality(OfRep(m \o occurrences, m[k].rep)) >= MinOccurrences
    <3>1. PICK p \in I : m[k] = meshes[p]
      BY <1>7
    <3>2. meshes[p].rep \in Reps \cup {NoRep}
      <4>1. meshes[p] \in Entries
        BY <1>2
      <4>2. QED
        BY <4>1 DEF Entries
    <3>3. meshes[p].rep \in Reps /\ Tally(meshes[p].rep) >= MinOccurrences
      BY <3>2 DEF Instanced
    <3>4. Cardinality(OfRep(m \o occurrences, meshes[p].rep)) >= MinOccurrences
      BY <1>16, <3>3
    <3>5. QED
      BY <3>1, <3>3, <3>4
  <2>2. ASSUME NEW k \in DOMAIN occurrences
        PROVE  OfRep(m, occurrences[k].rep) # {}
    <3> DEFINE r == occurrences[k].rep
               C == {p \in OfRep(meshes, r) : Candidate(meshes[p])}
    <3>1. r \in Reps
      BY <1>2
    <3>2. /\ \E p \in OfRep(meshes, r) : Candidate(meshes[p])
          /\ Cardinality(OfRep(occurrences, r)) + 1 >= MinOccurrences
      BY <1>1 DEF InstancingInv, Grows
    <3>3. C # {} /\ C \in SUBSET DOMAIN meshes
      BY <3>2 DEF OfRep
    <3>4. IsFiniteSet(C) /\ Cardinality(C) \in Nat
      BY <1>2, <3>3, PlacesFinite
    <3>5. Cardinality(C) # 0
      BY <3>3, <3>4, FS_EmptySet
    <3>6. Cardinality(OfRep(occurrences, r)) \in Nat
      BY <1>2, PlacesFinite
    <3>7. Tally(r) = Cardinality(C) + Cardinality(OfRep(occurrences, r))
      BY DEF Tally
    <3> HIDE DEF C, r
    <3>8. Tally(r) >= MinOccurrences
      BY <3>2, <3>4, <3>5, <3>6, <3>7, InstancingAssumption DEF r
    <3>9. PICK p \in OfRep(meshes, r) : p \in I
      BY <1>16, <3>1, <3>3, <3>8 DEF C
    <3>10. PICK q \in DOMAIN m : m[q] = meshes[p]
      BY <1>7, <3>9
    <3>11. q \in OfRep(m, r)
      BY <3>9, <3>10 DEF OfRep
    <3>12. QED
      BY <3>11 DEF r
  <2>3. Refs' = m \o occurrences
    BY <1>1 DEF Refs
  <2>4. /\ \A k \in DOMAIN meshes' : meshes'[k].rep \in Reps /\ Cardinality(OfRep(Refs', meshes'[k].rep)) >= MinOccurrences
        /\ \A k \in DOMAIN occurrences' : OfRep(meshes', occurrences'[k].rep) # {}
    BY <1>1, <2>1, <2>2, <2>3
  <2>5. QED
    BY <1>1, <2>4 DEF Grows
<1>18. QED
  BY <1>12, <1>13, <1>14, <1>15, <1>17 DEF InstancingInv

\* The shard is put together.
LEMMA CollateKeepsInv ==
  ASSUME InstancingInv, Collate
  PROVE  InstancingInv'
<1>1. /\ step = "collate" /\ step' = "drawn"
      /\ shard' = [single |-> JobsOf(Only(meshes, Alone)), groups |-> {Group(r) : r \in Grouped}]
      /\ UNCHANGED <<batch, plan, marked, registry, meshes, occurrences, flat>>
  BY DEF Collate
<1>2. BatchTyped'
  BY <1>1 DEF InstancingInv, BatchTyped, Steps
<1>3. Once'
  <2>1. JobSet(meshes)' = JobSet(meshes) /\ JobSet(occurrences)' = JobSet(occurrences)
        /\ FlatSet' = FlatSet /\ Ids' = Ids
    BY <1>1 DEF JobSet, FlatSet, Ids
  <2>2. Placed' = Placed
    BY <2>1 DEF Placed
  <2>3. Once
    BY DEF InstancingInv
  <2>4. Distinct(meshes)' /\ Distinct(occurrences)'
    BY <1>1, <2>3 DEF Once, Distinct
  <2>5. QED
    BY <1>1, <2>1, <2>2, <2>3, <2>4 DEF Once
<1>4. Complete'
  <2>1. \A i : MayBeLost(i)' <=> MayBeLost(i)
    BY <1>1 DEF MayBeLost, Placeholders, Ids
  <2>2. QED
    BY <1>1, <2>1 DEF InstancingInv, Complete, Placed, FlatSet, Ids, JobSet, Open
<1>5. Sourced'
  BY <1>1 DEF InstancingInv, Sourced, Uses, Placeholders, Ids, Open
<1>6. Refs' = Refs /\ (\A list, r : OfRep(list, r)' = OfRep(list, r)) /\ Alone' = Alone /\ Grouped' = Grouped
  BY <1>1 DEF Refs, OfRep, Alone, Grouped
<1>7. \A r : Group(r)' = Group(r)
  BY <1>1, <1>6 DEF Group, Refs, OfRep
<1>8. shard' = [single |-> JobsOf(Only(meshes', Alone')), groups |-> {Group(r)' : r \in Grouped'}]
  BY <1>1, <1>6, <1>7
<1>9. Grows'
  <2>1. /\ \A k \in DOMAIN meshes' : meshes'[k].rep \in Reps /\ Cardinality(OfRep(Refs', meshes'[k].rep)) >= MinOccurrences
        /\ \A k \in DOMAIN occurrences' : OfRep(meshes', occurrences'[k].rep) # {}
    BY <1>1, <1>6 DEF InstancingInv, Grows
  <2>2. QED
    BY <1>1, <1>8, <2>1 DEF Grows
<1>10. QED
  BY <1>2, <1>3, <1>4, <1>5, <1>9 DEF InstancingInv

\* Every step keeps the invariant of the batch.
LEMMA InstancingStep == InstancingInv /\ [InstancingNext]_instancingVars => InstancingInv'
<1> SUFFICES ASSUME InstancingInv, [InstancingNext]_instancingVars PROVE InstancingInv'
  OBVIOUS
<1>1. CASE \E j \in Jobs : Materialize(j)
  BY <1>1, MaterializeKeepsInv
<1>2. CASE \E j \in Jobs : Template(j)
  BY <1>2, TemplateKeepsInv
<1>3. CASE \E j \in Jobs : Placeholder(j)
  BY <1>3, PlaceholderKeepsInv
<1>4. CASE Produced
  BY <1>4, ProducedKeepsInv
<1>5. CASE Resolve
  BY <1>5, ResolveKeepsInv
<1>6. CASE Partition
  BY <1>6, PartitionKeepsInv
<1>7. CASE Collate
  BY <1>7, CollateKeepsInv
<1>8. CASE UNCHANGED instancingVars
  <2> USE <1>8 DEF instancingVars
  <2>1. BatchTyped'
    BY DEF InstancingInv, BatchTyped
  <2>2. Once'
    <3>1. JobSet(meshes)' = JobSet(meshes) /\ JobSet(occurrences)' = JobSet(occurrences)
          /\ FlatSet' = FlatSet /\ Ids' = Ids
      BY DEF JobSet, FlatSet, Ids
    <3>2. Placed' = Placed
      BY <3>1 DEF Placed
    <3>3. Once
      BY DEF InstancingInv
    <3>4. Distinct(meshes)' /\ Distinct(occurrences)'
      BY <3>3 DEF Once, Distinct
    <3>5. QED
      BY <3>1, <3>2, <3>3, <3>4 DEF Once
  <2>3. Complete'
    BY DEF InstancingInv, Complete, Placed, FlatSet, Ids, JobSet, Open, MayBeLost, Placeholders
  <2>4. Sourced'
    BY DEF InstancingInv, Sourced, Uses, Placeholders, Ids, Open
  <2>5. Grows'
    <3>1. Refs' = Refs /\ Alone' = Alone /\ Grouped' = Grouped
      BY DEF Refs, OfRep, Alone, Grouped
    <3>2. (\A r : Group(r)' = Group(r)) /\ \A k : Candidate(meshes[k])' <=> Candidate(meshes[k])
      BY DEF Refs, OfRep, Group, Candidate
    <3>3. shard' = shard /\ {Group(r)' : r \in Grouped'} = {Group(r) : r \in Grouped}
      BY <3>1, <3>2
    <3>4. Grows
      BY DEF InstancingInv
    <3>5. /\ step \in {"produce", "resolve", "partition"} => flat' = <<>>
          /\ step = "partition" =>
               \A k \in DOMAIN occurrences' :
                   LET r == occurrences'[k].rep
                   IN  /\ \E p \in OfRep(meshes', r) : Candidate(meshes[p])'
                       /\ Cardinality(OfRep(occurrences', r)) + 1 >= MinOccurrences
      BY <3>2, <3>4 DEF Grows
    <3>6. step \in {"collate", "drawn"} =>
            /\ \A k \in DOMAIN meshes' :
                   /\ meshes'[k].rep \in Reps
                   /\ Cardinality(OfRep(Refs', meshes'[k].rep)) >= MinOccurrences
            /\ \A k \in DOMAIN occurrences' : OfRep(meshes', occurrences'[k].rep) # {}
      BY <3>1, <3>4 DEF Grows
    <3>7. step = "drawn" =>
            shard' = [single |-> JobsOf(Only(meshes', Alone')), groups |-> {Group(r)' : r \in Grouped'}]
      BY <3>1, <3>3, <3>4 DEF Grows
    <3>8. QED
      BY <3>5, <3>6, <3>7 DEF Grows
  <2>6. QED
    BY <2>1, <2>2, <2>3, <2>4, <2>5 DEF InstancingInv
<1>9. QED
  BY <1>1, <1>2, <1>3, <1>4, <1>5, <1>6, <1>7, <1>8 DEF InstancingNext

\* So it holds in every behaviour.
LEMMA InstancingHolds == InstancingSpec => []InstancingInv
BY InitHoldsInstancing, InstancingStep, PTL DEF InstancingSpec

\* What is known of a batch that is drawn.
LEMMA WhenDrawn ==
  ASSUME InstancingInv, step = "drawn"
  PROVE  /\ shard.single = <<>> /\ shard.groups = {Group(r) : r \in Grouped}
         /\ Refs \in Seq(Entries) /\ Distinct(Refs)
         /\ Placed = JobSet(Refs) \cup FlatSet /\ JobSet(Refs) \cap FlatSet = {}
         /\ \A k \in DOMAIN Refs : Refs[k].rep \in Grouped
         /\ flat \in Seq(Nat) /\ \A k, l \in DOMAIN flat : flat[k] = flat[l] => k = l
<1>1. /\ meshes \in Seq(Entries) /\ occurrences \in Seq(Entries) /\ flat \in Seq(Nat)
      /\ \A k \in DOMAIN occurrences : occurrences[k].rep \in Reps
  BY DEF InstancingInv, BatchTyped
<1>2. /\ Distinct(meshes) /\ Distinct(occurrences) /\ JobSet(meshes) \cap JobSet(occurrences) = {}
      /\ \A k, l \in DOMAIN flat : flat[k] = flat[l] => k = l
      /\ FlatSet \cap (JobSet(meshes) \cup JobSet(occurrences)) = {}
  BY DEF InstancingInv, Once
<1>3. /\ \A k \in DOMAIN meshes : meshes[k].rep \in Reps /\ Cardinality(OfRep(Refs, meshes[k].rep)) >= MinOccurrences
      /\ \A k \in DOMAIN occurrences : OfRep(meshes, occurrences[k].rep) # {}
      /\ shard = [single |-> JobsOf(Only(meshes, Alone)), groups |-> {Group(r) : r \in Grouped}]
  BY DEF InstancingInv, Grows
<1>4. /\ Refs \in Seq(Entries) /\ Distinct(Refs) /\ JobSet(Refs) = JobSet(meshes) \cup JobSet(occurrences)
  BY <1>1, <1>2, JoinFacts DEF Refs
<1>5. \A k \in DOMAIN Refs :
         (k \in DOMAIN meshes /\ Refs[k] = meshes[k]) \/ \E l \in DOMAIN occurrences : Refs[k] = occurrences[l]
  BY <1>1, JoinFacts DEF Refs
<1>6. Only(meshes, Alone) = <<>>
  <2>1. \A r : Cardinality(OfRep(Refs, r)) \in Nat
    BY <1>4, PlacesFinite
  <2>2. Alone = {}
    BY <1>3, <2>1, InstancingAssumption DEF Alone
  <2>3. QED
    BY <1>1, <2>2, OnlyFacts
<1>7. shard.single = <<>>
  <2>1. JobsOf(<<>>) = <<>>
    BY DEF JobsOf
  <2>2. QED
    BY <1>3, <1>6, <2>1
<1>8. ASSUME NEW k \in DOMAIN Refs PROVE Refs[k].rep \in Grouped
  <2>1. ASSUME NEW p \in DOMAIN meshes PROVE meshes[p].rep \in Grouped
    BY <1>3, <2>1 DEF Grouped, OfRep
  <2>2. ASSUME NEW l \in DOMAIN occurrences PROVE occurrences[l].rep \in Grouped
    <3>1. PICK p \in DOMAIN meshes : meshes[p].rep = occurrences[l].rep
      BY <1>3, <2>2 DEF OfRep
    <3>2. QED
      BY <2>1, <3>1
  <2>3. QED
    BY <1>5, <1>8, <2>1, <2>2
<1>9. QED
  BY <1>1, <1>2, <1>3, <1>4, <1>7, <1>8 DEF Placed

\* A job of the flat list is at one place of it, and a job of the shard in the
\* group of its rep.
LEMMA DrawnOnceHolds == InstancingInv => DrawnOnce
<1> SUFFICES ASSUME InstancingInv, step = "drawn", NEW i \in Ids
             PROVE  \/ batch[i].broken /\ Drawn(i) = 0
                    \/ ~batch[i].broken /\ Drawn(i) = 1
                    \/ MayBeLost(i) /\ Drawn(i) = 0
  BY DEF DrawnOnce
<1> DEFINE places == {k \in DOMAIN flat : flat[k] = i}
           groups == {g \in shard.groups : i \in g.members}
<1>1. /\ shard.single = <<>> /\ shard.groups = {Group(r) : r \in Grouped}
      /\ Refs \in Seq(Entries) /\ Distinct(Refs)
      /\ Placed = JobSet(Refs) \cup FlatSet /\ JobSet(Refs) \cap FlatSet = {}
      /\ \A k \in DOMAIN Refs : Refs[k].rep \in Grouped
      /\ flat \in Seq(Nat) /\ \A k, l \in DOMAIN flat : flat[k] = flat[l] => k = l
  BY WhenDrawn
<1>2. Drawn(i) = Cardinality(places) + Cardinality(groups)
  <2>1. flat \o shard.single = flat
    BY <1>1
  <2>2. QED
    BY <2>1, Zenon DEF Drawn
<1>3. Cardinality({}) = 0
  BY FS_EmptySet
<1>4. \A r : \A g : g = Group(r) => (i \in g.members <=> \E k \in OfRep(Refs, r) : Refs[k].job = i)
  BY DEF Group
<1>5. i \notin FlatSet => Cardinality(places) = 0
  <2>1. i \notin FlatSet => places = {}
    BY DEF FlatSet
  <2>2. QED
    BY <1>3, <2>1
<1>6. i \notin JobSet(Refs) => Cardinality(groups) = 0
  <2>1. ASSUME i \notin JobSet(Refs) PROVE groups = {}
    <3>1. ASSUME NEW r \in Grouped, i \in Group(r).members PROVE FALSE
      BY <1>4, <2>1, <3>1 DEF JobSet, OfRep
    <3>2. QED
      BY <1>1, <3>1
  <2>2. QED
    BY <1>3, <2>1
<1>7. CASE i \in FlatSet
  <2>1. PICK k \in DOMAIN flat : flat[k] = i
    BY <1>7 DEF FlatSet
  <2>2. k \in places /\ \A l \in places : l = k
    BY <1>1, <2>1
  <2>3. Cardinality(places) = 1
    <3> HIDE DEF places
    <3>1. QED
      BY <2>2, OneOf
  <2>4. i \notin JobSet(Refs) /\ i \in Placed
    BY <1>1, <1>7
  <2>5. Drawn(i) = 1
    BY <1>2, <1>6, <2>3, <2>4
  <2>6. ~batch[i].broken
    BY <2>4 DEF InstancingInv, Complete
  <2>7. QED
    BY <2>5, <2>6
<1>8. CASE i \in JobSet(Refs)
  <2>1. PICK k \in DOMAIN Refs : Refs[k].job = i
    BY <1>8 DEF JobSet
  <2> DEFINE r == Refs[k].rep
  <2>2. r \in Grouped /\ Group(r) \in groups
    BY <1>1, <1>4, <2>1 DEF OfRep
  <2>3. ASSUME NEW g \in groups PROVE g = Group(r)
    <3>1. PICK q \in Grouped : g = Group(q)
      BY <1>1
    <3>2. PICK l \in OfRep(Refs, q) : Refs[l].job = i
      BY <1>4, <3>1
    <3>3. l = k
      BY <1>1, <2>1, <3>2 DEF Distinct, OfRep
    <3>4. QED
      BY <3>1, <3>2, <3>3 DEF OfRep
  <2>4. Cardinality(groups) = 1
    <3> HIDE DEF groups, r
    <3>1. QED
      BY <2>2, <2>3, OneOf
  <2>5. i \notin FlatSet /\ i \in Placed
    BY <1>1, <1>8
  <2>6. Drawn(i) = 1
    BY <1>2, <1>5, <2>4, <2>5
  <2>7. ~batch[i].broken
    BY <2>5 DEF InstancingInv, Complete
  <2>8. QED
    BY <2>6, <2>7
<1>9. CASE i \notin FlatSet /\ i \notin JobSet(Refs)
  <2>1. Drawn(i) = 0
    BY <1>2, <1>5, <1>6, <1>9
  <2>2. i \notin Placed
    BY <1>1, <1>9
  <2>3. ~batch[i].broken => MayBeLost(i)
    BY <2>2 DEF InstancingInv, Complete
  <2>4. QED
    BY <2>1, <2>3
<1>10. QED
  BY <1>7, <1>8, <1>9

\* The members of a group are as many as its places, no job being in two.
LEMMA GroupsPayHolds == InstancingInv => GroupsPay
<1> SUFFICES ASSUME InstancingInv, step = "drawn"
             PROVE  /\ shard.single = <<>>
                    /\ \A g \in shard.groups : Cardinality(g.members) >= MinOccurrences
  BY DEF GroupsPay
<1>1. /\ shard.single = <<>> /\ shard.groups = {Group(r) : r \in Grouped}
      /\ Refs \in Seq(Entries) /\ Distinct(Refs)
  BY WhenDrawn
<1>2. ASSUME NEW r \in Grouped PROVE Cardinality(Group(r).members) >= MinOccurrences
  <2> DEFINE S == OfRep(Refs, r)
             M == {Refs[k].job : k \in S}
             f == [k \in S |-> Refs[k].job]
  <2>1. IsFiniteSet(S) /\ S \subseteq DOMAIN Refs
    BY <1>1, PlacesFinite
  <2>2. \A k, l \in S : Refs[k].job = Refs[l].job => k = l
    BY <1>1, <2>1 DEF Distinct
  <2>3. Group(r).members = M /\ Cardinality(S) >= MinOccurrences
    BY DEF Group, Grouped
  <2> HIDE DEF S
  <2>4. f \in [S -> M] /\ (\A x, y \in S : f[x] = f[y] => x = y) /\ \A y \in M : \E x \in S : f[x] = y
    BY <2>2
  <2> HIDE DEF f, M
  <2>5. Cardinality(M) = Cardinality(S)
    BY <2>1, <2>4, SameSize
  <2>6. QED
    BY <2>3, <2>5
<1>3. QED
  BY <1>1, <1>2

\* Every element is drawn once (process_geometry_batch_partitioned).
THEOREM InstancingDrawsOnce == InstancingSpec => []DrawnOnce
BY InstancingHolds, DrawnOnceHolds, PTL

\* Every group pays (meets_instance_threshold).
THEOREM InstancingPays == InstancingSpec => []GroupsPay
BY InstancingHolds, GroupsPayHolds, PTL
=============================================================================
