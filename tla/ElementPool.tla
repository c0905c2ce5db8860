----------------------------- MODULE ElementPool -----------------------------
(***************************************************************************)
(* The rayon pool that meshes the elements of a chunk on the native path,   *)
(* and the cache of mapped sources that its routers share.  A worker meshes  *)
(* one element at a time, but while it waits for the faces of a large        *)
(* faceted brep it may run another element to its end on the same thread     *)
(* (comment on worker_point_caches in the processor).  The budget for        *)
(* Boolean operations is counted per thread.                                *)
(*                                                                         *)
(* A scene is a record: elements, the items of each element and of each      *)
(* mapped source, and caps, the settings of CAP (of one operation) and of    *)
(* ELEMENT_CAP (of all of an element), any numbers, with 0 for unbounded.    *)
(* An item is a solid, a large faceted brep, a cut with the exact predicates *)
(* it costs, a use of a mapped source, or one whose processor fails.  A mesh *)
(* is the set of items it was merged from, and whether every cut was carried *)
(* out.                                                                    *)
(***************************************************************************)
EXTENDS Integers, Sequences

CONSTANTS
    PoolWorkers,
    Scenes,
    MaxMappedDepth    \* MAX_MAPPED_ITEM_DEPTH

Kinds == {"solid", "brep", "cut", "mapped", "broken"}
ASSUME ScenesAssumption ==
    \A s \in Scenes :
        /\ s.caps \in [op : Nat, element : Nat]
        /\ s.elements \subseteq DOMAIN s.items
        /\ \A x \in DOMAIN s.items :
             /\ s.items[x] \in Seq({s.items[x][k] : k \in DOMAIN s.items[x]})
             /\ \A k \in DOMAIN s.items[x] :
                  s.items[x][k].kind \in Kinds /\ s.items[x][k].cost \in Nat

VARIABLES
    scene,
    waiting,     \* the elements no worker has taken
    frames,      \* the elements and mapped sources each worker is meshing, innermost last
    opCount,     \* COUNT of each thread
    elemCount,   \* ELEM_COUNT of each thread
    shared       \* shared_mapped_item_cache

poolVars == <<scene, waiting, frames, opCount, elemCount, shared>>

SourcesOf(m) == DOMAIN m.items \ m.elements
MappedSources == SourcesOf(scene)

NewFrame(x) == [of |-> x, at |-> 1, solids |-> {}, exact |-> TRUE, short |-> FALSE]

PoolInit ==
    /\ scene \in Scenes
    /\ waiting = scene.elements
    /\ frames = [w \in PoolWorkers |-> <<>>]
    /\ opCount = [w \in PoolWorkers |-> 0] /\ elemCount = [w \in PoolWorkers |-> 0]
    /\ shared = [s \in {} |-> {}]
-----------------------------------------------------------------------------
Innermost(w) == frames[w][Len(frames[w])]
ItemsLeft(w) == frames[w] # <<>> /\ Innermost(w).at <= Len(scene.items[Innermost(w).of])
AllMeshed(w) == frames[w] # <<>> /\ Innermost(w).at > Len(scene.items[Innermost(w).of])
NextItem(w) == scene.items[Innermost(w).of][Innermost(w).at]

\* The frame once its next item is done: a mesh is merged, or found missing.
Merged(f, mesh) ==
    [f EXCEPT !.at = @ + 1, !.solids = @ \cup mesh.solids, !.exact = @ /\ mesh.exact]
Missing(f) == [f EXCEPT !.at = @ + 1, !.short = TRUE]

\* Frame k of worker w, the innermost, becomes f.
Becomes(w, k, f) == frames' = [frames EXCEPT ![w] = Append(SubSeq(@, 1, k - 1), f)]
Advance(w, f) == Becomes(w, Len(frames[w]), f)

\* Without a cap on the operation an element has none either.
OpSpent(m, count) == m.caps.op # 0 /\ count >= m.caps.op
ElementSpent(m, count) == m.caps.op # 0 /\ m.caps.element # 0 /\ count >= m.caps.element
BudgetSpent(m, op, element) == OpSpent(m, op) \/ ElementSpent(m, element)
Tripped(w) == BudgetSpent(scene, opCount[w], elemCount[w])

\* The item by itself.
Own(w, exact) == [solids |-> {<<Innermost(w).of, Innermost(w).at>>}, exact |-> exact]
-----------------------------------------------------------------------------
(* Elements *)

\* begin_element: the budget of the thread starts anew.
BeginElement(w, e) ==
    /\ e \in waiting
    /\ waiting' = waiting \ {e}
    /\ frames' = [frames EXCEPT ![w] = Append(@, NewFrame(e))]
    /\ elemCount' = [elemCount EXCEPT ![w] = 0]
    /\ UNCHANGED <<scene, opCount, shared>>

TakeElement(w, e) == frames[w] = <<>> /\ BeginElement(w, e)

\* At the join of the faces.
StealElement(w, e) == ItemsLeft(w) /\ NextItem(w).kind = "brep" /\ BeginElement(w, e)

\* An element without sub-meshes is given up at an item that fails.
FinishElement(w) ==
    /\ AllMeshed(w) \/ (ItemsLeft(w) /\ NextItem(w).kind = "broken")
    /\ Innermost(w).of \in scene.elements
    /\ frames' = [frames EXCEPT ![w] = SubSeq(@, 1, Len(@) - 1)]
    /\ UNCHANGED <<scene, waiting, opCount, elemCount, shared>>
-----------------------------------------------------------------------------
(* Items *)

MeshItem(w) ==
    /\ ItemsLeft(w) /\ NextItem(w).kind \in {"solid", "brep"}
    /\ Advance(w, Merged(Innermost(w), Own(w, TRUE)))
    /\ UNCHANGED <<scene, waiting, opCount, elemCount, shared>>

\* The processor fails or there is none: the item is left out in every walk.
SkipItem(w) ==
    /\ ItemsLeft(w) /\ NextItem(w).kind = "broken"
    /\ Advance(w, [Innermost(w) EXCEPT !.at = @ + 1])
    /\ UNCHANGED <<scene, waiting, opCount, elemCount, shared>>

\* The operation counts from zero and may bail at any check that finds either
\* budget spent; what was not cut is the whole host.
CutItem(w) ==
    /\ ItemsLeft(w) /\ NextItem(w).kind = "cut"
    /\ \E counted \in 0..NextItem(w).cost :
         LET spent == BudgetSpent(scene, counted, elemCount[w] + counted)
         IN  /\ counted = NextItem(w).cost \/ spent
             /\ opCount' = [opCount EXCEPT ![w] = counted]
             /\ elemCount' = [elemCount EXCEPT ![w] = @ + counted]
             /\ Advance(w, Merged(Innermost(w), Own(w, ~spent)))
    /\ UNCHANGED <<scene, waiting, shared>>
-----------------------------------------------------------------------------
(* process_mapped_item_cached_inner *)

\* The walk that is under way: from the element to the innermost source.
WalkStart(w) ==
    CHOOSE k \in 1..Len(frames[w]) :
        /\ frames[w][k].of \in scene.elements
        /\ \A j \in (k + 1)..Len(frames[w]) : frames[w][j].of \notin scene.elements
MappedDepth(w) == Len(frames[w]) - WalkStart(w)
ItemAt(f) == <<f.of, f.at>>
Visited(w) == {ItemAt(frames[w][k]) : k \in WalkStart(w)..(Len(frames[w]) - 1)}

AtMapped(w) == ItemsLeft(w) /\ NextItem(w).kind = "mapped"
Allowed(w) ==
    /\ MappedDepth(w) < MaxMappedDepth
    /\ ItemAt(Innermost(w)) \notin Visited(w)
    /\ NextItem(w).source \in MappedSources

\* Too deep, a cycle or a source that is not there: the holder is short of it.
RefuseMapped(w) ==
    /\ AtMapped(w) /\ ~Allowed(w)
    /\ Advance(w, Missing(Innermost(w)))
    /\ UNCHANGED <<scene, waiting, opCount, elemCount, shared>>

HitMapped(w) ==
    /\ AtMapped(w) /\ Allowed(w)
    /\ NextItem(w).source \in DOMAIN shared
    /\ Advance(w, Merged(Innermost(w), shared[NextItem(w).source]))
    /\ UNCHANGED <<scene, waiting, opCount, elemCount, shared>>

EnterMapped(w) ==
    /\ AtMapped(w) /\ Allowed(w)
    /\ NextItem(w).source \notin DOMAIN shared
    /\ frames' = [frames EXCEPT ![w] = Append(@, NewFrame(NextItem(w).source))]
    /\ UNCHANGED <<scene, waiting, opCount, elemCount, shared>>

\* Mutation: a source is kept whatever the budget.
KeepableTripped(w, f) == f.solids # {} /\ ~f.short

\* What may go into the shared cache.
Keepable(w, f) == f.solids # {} /\ ~Tripped(w) /\ ~f.short

\* Mutation: the holder is not told that the source is short.
ReturnedSilently(holder, f) == Merged(holder, [solids |-> f.solids, exact |-> f.exact])

\* The holder merges the mesh, and is as short as the source.
Returned(holder, f) == [Merged(holder, [solids |-> f.solids, exact |-> f.exact])
                          EXCEPT !.short = @ \/ f.short]

LeaveMapped(w) ==
    /\ AllMeshed(w) /\ Innermost(w).of \notin scene.elements
    /\ LET f == Innermost(w)
           k == Len(frames[w]) - 1
       IN  /\ shared' = IF Keepable(w, f)
                        THEN [s \in DOMAIN shared \cup {f.of} |->
                                IF s = f.of THEN [solids |-> f.solids, exact |-> f.exact]
                                            ELSE shared[s]]
                        ELSE shared
           /\ Becomes(w, k, Returned(frames[w][k], f))
    /\ UNCHANGED <<scene, waiting, opCount, elemCount>>
-----------------------------------------------------------------------------
Mesher(w) ==
    \/ \E e \in waiting : TakeElement(w, e) \/ StealElement(w, e)
    \/ FinishElement(w) \/ MeshItem(w) \/ SkipItem(w) \/ CutItem(w)
    \/ RefuseMapped(w) \/ HitMapped(w) \/ EnterMapped(w) \/ LeaveMapped(w)

PoolNext == \E w \in PoolWorkers : Mesher(w)

PoolSpec == PoolInit /\ [][PoolNext]_poolVars
-----------------------------------------------------------------------------
\* A set of sources of scene m that holds every source its members use.
UseClosed(m, S) ==
    \A x \in S : \A k \in DOMAIN m.items[x] :
        m.items[x][k].kind = "mapped" /\ m.items[x][k].source \in SourcesOf(m)
            => m.items[x][k].source \in S

\* The sources that s is made of, s included.
MadeOf(m, s) ==
    {x \in SourcesOf(m) : \A S \in SUBSET SourcesOf(m) : s \in S /\ UseClosed(m, S) => x \in S}

\* The items that a whole mesh of s is merged from.
Whole(m, s) ==
    UNION {{<<x, k>> : k \in {j \in DOMAIN m.items[x] :
                                  m.items[x][j].kind \notin {"mapped", "broken"}}} :
              x \in MadeOf(m, s)}

\* There is a large brep in s.
Joins(m, s) ==
    \E x \in MadeOf(m, s) : \E k \in DOMAIN m.items[x] : m.items[x][k].kind = "brep"

\* The costs of the cuts in s.
CutCosts(m, s) ==
    UNION {{m.items[x][k].cost : k \in {j \in DOMAIN m.items[x] : m.items[x][j].kind = "cut"}} :
              x \in MadeOf(m, s)}
Costly(m, s) == \E cost \in CutCosts(m, s) : OpSpent(m, cost)
Cheap(m, s) == \E cost \in CutCosts(m, s) : ~OpSpent(m, cost)

\* An operation can spend its own budget and leave the element some.
OpTripsFirst(m) == m.caps.op # 0 /\ (m.caps.element = 0 \/ m.caps.op < m.caps.element)

\* A cut in s can spend the budget of its operation, and another one begin anew.
Masks(m, s) == OpTripsFirst(m) /\ Costly(m, s) /\ Cheap(m, s)

\* A source that some walk met too deep, within a cycle or with a nested source
\* that failed is never served from the shared cache to a walk that could mesh
\* all of it (comment on level_truncated in process_mapped_item_cached_body).
ServedWhole == \A s \in DOMAIN shared : Whole(scene, s) \subseteq shared[s].solids

\* A source whose cuts were given up for want of budget is not served to other
\* elements (comment on the insert in process_mapped_item_cached_body), with two
\* exceptions.  At the join of a large brep the thread may run another element,
\* whose begin_element hides the trip.  And where the cap of an operation is below
\* that of the element, the begin of a cheap cut hides that a costly one tripped.
\* With the default caps the second cannot be.
ServedExact ==
    \A s \in DOMAIN shared : shared[s].exact \/ Joins(scene, s) \/ Masks(scene, s)
=============================================================================
