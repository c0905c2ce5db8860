----------------------------- MODULE IfcSession -----------------------------
(***************************************************************************)
(* wasm-bindings/src/api: one IfcAPI object, which a worker of the browser  *)
(* keeps across loads.  Its caches hold what was derived from a file, or    *)
(* meshes made under the settings of the time, so that the batches of a     *)
(* load share the work; the host changes files and settings between the     *)
(* calls.  A worker has one thread, so each call is one step.              *)
(*                                                                         *)
(* The model names the file a cache was filled from rather than its         *)
(* contents.  Every file holds one repeated source of the same              *)
(* RepresentationMap id, and one Boolean item of the same content.         *)
(*                                                                         *)
(* What the host promises: clearPrePassCache before the next file when the  *)
(* load starts with a pre-pass (comment on clear_pre_pass_cache); columns    *)
(* and source bytes of the file that is loaded (comments on                 *)
(* set_referenced_repmaps and cached_source_bytes).                        *)
(***************************************************************************)
EXTENDS Integers, Sequences, FiniteSets

CONSTANTS
    LoadFiles,    \* the files
    EmptyFiles,   \* those without an entity
    NoFile,
    Signature,    \* (number, first, last) of the style ids of a file
    Qualities,    \* TessellationQuality
    Medium,
    MaxLoads      \* bound: loads in the life of the object

ASSUME FilesAssumption == NoFile \notin LoadFiles /\ EmptyFiles \subseteq LoadFiles
ASSUME MediumAssumption == Medium \in Qualities
ASSUME MaxLoadsAssumption == MaxLoads \in Nat

VARIABLES
    loaded,    \* the file the host works on
    load,      \* its number
    ready,     \* the source bytes of this load were set
    cache,     \* the content caches: the file each was filled from
    mapped,    \* cached_mapped_item: the source mesh, if any
    items,     \* cached_item_dedup: the meshes of the item
    settings,  \* quality, skip (small cuts), merge (layers)
    diag,      \* pipeline_diagnostics: the loads it was folded from
    drawn      \* what the last call drew, and from what

sessionVars == <<loaded, load, ready, cache, mapped, items, settings, diag, drawn>>

\* The caches of what was derived from the content of a file.
Derived == {"index", "parts", "layers", "repmaps", "types", "plan", "textures",
            "colours", "angle", "styles"}
Slots == Derived \cup {"source"}

\* The columns a host may install rather than have them derived.
Columns == {"repmaps", "types", "plan", "layers"}

Meshes == [file : LoadFiles, quality : Qualities, skip : BOOLEAN]
MeshOf(f) == [file |-> f, quality |-> settings.quality, skip |-> settings.skip]

NoBatch == [file |-> NoFile, from |-> {}, mapped |-> {}, item |-> {}, asked |-> {}]

SessionTyped ==
    /\ loaded \in LoadFiles \cup {NoFile} /\ load \in 0..MaxLoads /\ ready \in BOOLEAN
    /\ cache \in [Slots -> LoadFiles \cup {NoFile}]
    /\ mapped \subseteq Meshes /\ Cardinality(mapped) <= 1
    /\ items \subseteq Meshes
    /\ settings \in [quality : Qualities, skip : BOOLEAN, merge : BOOLEAN]
    /\ diag \subseteq 1..MaxLoads
    /\ drawn \in [file : LoadFiles \cup {NoFile}, from : SUBSET (LoadFiles \cup {NoFile}),
                  mapped : SUBSET Meshes, item : SUBSET Meshes, asked : SUBSET Meshes]

SessionInit ==
    /\ loaded = NoFile /\ load = 0 /\ ready = FALSE
    /\ cache = [s \in Slots |-> NoFile]
    /\ mapped = {} /\ items = {}
    /\ settings = [quality |-> Medium, skip |-> FALSE, merge |-> FALSE]
    /\ diag = {}
    /\ drawn = NoBatch
-----------------------------------------------------------------------------
(* Loads *)

\* The call draws nothing.
Quiet == drawn' = NoBatch

Begins(f) == load < MaxLoads /\ load' = load + 1 /\ loaded' = f /\ ready' = FALSE

Without(slots) == [s \in Slots |-> IF s \in slots THEN NoFile ELSE cache[s]]

\* Mutation: the diagnostics of the previous load are kept.
BuildPrePassKeeps(f) ==
    /\ loaded = NoFile /\ Begins(f)
    /\ cache' = [cache EXCEPT !["index"] = f]
    /\ UNCHANGED <<mapped, items, settings, diag>> /\ Quiet

\* buildPrePassOnce and the streaming variants.
BuildPrePass(f) ==
    /\ loaded = NoFile /\ Begins(f)
    /\ cache' = [cache EXCEPT !["index"] = f]
    /\ diag' = {}
    /\ UNCHANGED <<mapped, items, settings>> /\ Quiet

\* A streaming pre-pass that fails before it has an index.
PrePassFails ==
    /\ loaded = NoFile
    /\ diag' = {}
    /\ UNCHANGED <<loaded, load, ready, cache, mapped, items, settings>> /\ Quiet

\* Mutation: the colour maps of the previous file stay.
SetEntityIndexKeepsColours(f) ==
    /\ f \notin EmptyFiles /\ Begins(f)
    /\ cache' = [Without(Derived \ {"colours"}) EXCEPT !["index"] = f]
    /\ mapped' = {} /\ items' = {}
    /\ diag' = {}
    /\ UNCHANGED <<settings>> /\ Quiet

\* A new index is a new file.  The source bytes are left to setSourceBytes.
SetEntityIndex(f) ==
    /\ f \notin EmptyFiles /\ Begins(f)
    /\ cache' = [Without(Derived) EXCEPT !["index"] = f]
    /\ mapped' = {} /\ items' = {}
    /\ diag' = {}
    /\ UNCHANGED <<settings>> /\ Quiet

\* The columns of a file without entities are not taken for an index.
SetEmptyIndex(f) ==
    /\ f \in EmptyFiles /\ Begins(f)
    /\ UNCHANGED <<cache, mapped, items, settings, diag>> /\ Quiet

InstallColumn(s) ==
    /\ loaded # NoFile /\ loaded \notin EmptyFiles
    /\ cache' = [cache EXCEPT ![s] = loaded]
    /\ UNCHANGED <<loaded, load, ready, mapped, items, settings, diag>> /\ Quiet

SetSourceBytes ==
    /\ loaded # NoFile
    /\ ready' = TRUE
    /\ cache' = [cache EXCEPT !["source"] = loaded]
    /\ UNCHANGED <<loaded, load, mapped, items, settings, diag>> /\ Quiet

\* The diagnostics survive, for the host to read after the load.
ClearPrePassCache ==
    /\ loaded' = NoFile /\ ready' = FALSE
    /\ cache' = Without(Slots)
    /\ mapped' = {} /\ items' = {}
    /\ UNCHANGED <<load, settings, diag>> /\ Quiet
-----------------------------------------------------------------------------
(* Settings *)

SetMergeLayers(on) ==
    /\ settings' = [settings EXCEPT !.merge = on]
    /\ cache' = Without({"parts"})
    /\ UNCHANGED <<loaded, load, ready, mapped, items, diag>> /\ Quiet

\* Mutation: the mapped source is kept.
SetTessellationQualityKeeps(q) ==
    /\ settings' = [settings EXCEPT !.quality = q]
    /\ UNCHANGED <<loaded, load, ready, cache, mapped, items, diag>> /\ Quiet

\* The key of an item holds the quality, that of a mapped source does not.
SetTessellationQuality(q) ==
    /\ settings' = [settings EXCEPT !.quality = q]
    /\ mapped' = {}
    /\ UNCHANGED <<loaded, load, ready, cache, items, diag>> /\ Quiet

SetSkipSmallCuts(on) ==
    /\ settings' = [settings EXCEPT !.skip = on]
    /\ mapped' = {}
    /\ UNCHANGED <<loaded, load, ready, cache, items, diag>> /\ Quiet
-----------------------------------------------------------------------------
(* produce_batch *)

\* What the cache serves to a batch on the bytes of f.
Served(s, f) ==
    IF \/ cache[s] = NoFile
       \/ s = "styles" /\ Signature[cache[s]] # Signature[f]
    THEN f ELSE cache[s]

\* The caches a batch consults, in this order, and fills where they are empty.
\* angle: the scale comes with the call; typed: a job is a type product.
Consulted(angle, typed) ==
    (IF angle THEN <<>> ELSE <<"angle">>)
        \o (IF settings.merge THEN <<"styles", "parts">> ELSE <<"layers", "styles">>)
        \o <<"colours", "textures">>
        \o (IF typed THEN <<"repmaps", "types">> ELSE <<>>)

Filled(slots, f) == [s \in Slots |-> IF s \in slots THEN Served(s, f) ELSE cache[s]]

\* The mapped source and the item, from the cache or made now.
MappedMesh(f) == IF mapped = {} THEN {MeshOf(f)} ELSE mapped
SameKey == {m \in items : m.quality = settings.quality}
ItemMesh(f) == IF SameKey = {} THEN {MeshOf(f)} ELSE SameKey

\* armed: the partitioned entry point, unshifted and without geometry hashes.
Produce(f, armed, angle, typed) ==
    LET list == Consulted(angle, typed)
        slots == {"index"} \cup {list[k] : k \in DOMAIN list}
        plan == IF armed /\ cache["plan"] # NoFile THEN {"plan"} ELSE {}
    IN  /\ cache' = Filled(slots, f)
        /\ mapped' = MappedMesh(f)
        /\ items' = items \cup ItemMesh(f)
        /\ diag' = diag \cup {load}
        /\ drawn' = [file |-> loaded,
                     from |-> {f} \cup {Served(s, f) : s \in slots \cup plan},
                     mapped |-> MappedMesh(f), item |-> ItemMesh(f),
                     asked |-> {MeshOf(loaded)}]
        /\ UNCHANGED <<loaded, load, ready, settings>>

Working == loaded # NoFile /\ loaded \notin EmptyFiles

Batch == Working /\ \E armed, angle, typed \in BOOLEAN : Produce(loaded, armed, angle, typed)

BatchFromSource ==
    Working /\ ready
    /\ \E armed, angle, typed \in BOOLEAN : Produce(cache["source"], armed, angle, typed)

\* A batch that panics has filled some caches, those of meshes only once it came
\* to its jobs, and draws and records nothing.
BatchPanics ==
    /\ Working
    /\ \E angle \in BOOLEAN :
         LET list == Consulted(angle, TRUE)
         IN  \E n \in DOMAIN list :
               /\ cache' = Filled({"index"} \cup {list[k] : k \in 1..n}, loaded)
               /\ IF n < Len(Consulted(angle, FALSE))
                    THEN UNCHANGED <<mapped, items>>
                    ELSE /\ mapped' \in {mapped, MappedMesh(loaded)}
                         /\ items' \in {items, items \cup ItemMesh(loaded)}
    /\ UNCHANGED <<loaded, load, ready, settings, diag>> /\ Quiet
-----------------------------------------------------------------------------
SessionNext ==
    \/ \E f \in LoadFiles : BuildPrePass(f) \/ SetEntityIndex(f) \/ SetEmptyIndex(f)
    \/ PrePassFails
    \/ \E s \in Columns : InstallColumn(s)
    \/ SetSourceBytes
    \/ ClearPrePassCache
    \/ \E on \in BOOLEAN : SetMergeLayers(on) \/ SetSkipSmallCuts(on)
    \/ \E q \in Qualities : SetTessellationQuality(q)
    \/ Batch \/ BatchFromSource \/ BatchPanics

SessionSpec == SessionInit /\ [][SessionNext]_sessionVars
-----------------------------------------------------------------------------
\* Whatever a batch reads is derived from the file it is asked for, in whatever
\* order loads, installs, toggles and panics came before (comments on
\* set_entity_index and clear_pre_pass_cache).
SlotsOfTheLoad == drawn.from \subseteq {drawn.file}

\* The mapped source that is drawn was meshed from this file under the settings
\* in force (comments on cached_mapped_item and set_skip_small_cuts).
MappedAsAsked == drawn.mapped = drawn.asked

\* The diagnostics never mix two loads, although nothing resets them at the end
\* of one (comment on the field pipeline_diagnostics).
LoadsNotMixed == Cardinality(diag) <= 1

\* The item that is drawn was meshed under the settings in force: a drawing made
\* with the small cuts has them all (comment on set_skip_small_cuts).
ItemAsAsked == {m.skip : m \in drawn.item} = {m.skip : m \in drawn.asked}
=============================================================================
