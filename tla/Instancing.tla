----------------------------- MODULE Instancing -----------------------------
(***************************************************************************)
(* One partitioned batch of the browser path, with a plan of the sources    *)
(* that repeat.  The first element of the batch that uses such a source     *)
(* meshes it and becomes the template; the later ones leave a placeholder.  *)
(* Once the batch is produced the placeholders become instances of the      *)
(* template in the shard, or are rebuilt from the registry of sources and    *)
(* drawn flat; and what repeats among the meshes joins the shard too.       *)
(*                                                                         *)
(* A job is a record: kind, of which a voided element and a type product     *)
(* are never instances; source, its shape; opaque; tripped, whether its     *)
(* budget for Boolean operations runs out; broken, whether its placement    *)
(* cannot be resolved, so that it draws nothing.  A source is one item,      *)
(* which meshes to something; all placements are invertible.               *)
(***************************************************************************)
EXTENDS Integers, Sequences, FiniteSets, SequencesExt

CONSTANTS
    Jobs,            \* the kinds of job that occur
    MaxJobs,         \* bound: jobs of a batch
    Plans,           \* the plans: sets of sources
    MinOccurrences,  \* INSTANCE_MIN_OCCURRENCES
    NoRep

Sources == {j.source : j \in Jobs}

\* rep_identity: a mapped source of the plan is known by its id, every other
\* shape by the hash of its mesh.
Reps == {"id", "hash"} \X Sources

ASSUME InstancingAssumption ==
    /\ \A j \in Jobs : {j.opaque, j.tripped, j.broken} \subseteq BOOLEAN
    /\ MinOccurrences \in Nat
    /\ NoRep \notin Reps

VARIABLES
    batch,       \* the jobs produced so far
    plan,        \* cached_mapped_instance_plan
    marked,      \* materialized_sources of the router
    registry,    \* the sources the shared cache holds
    meshes,      \* the meshes produced: the job, and the rep of an instanceable one
    occurrences, \* the placeholders, and after Resolve the instances
    flat,        \* the jobs drawn from the flat collection
    shard,       \* the jobs drawn from the shard by themselves, and the groups
    step         \* "produce", "resolve", "partition", "collate" or "drawn"

instancingVars == <<batch, plan, marked, registry, meshes, occurrences, flat, shard, step>>

Ids == 1..Len(batch)

InstancingInit ==
    /\ batch = <<>>
    /\ plan \in Plans
    /\ marked = {} /\ registry = {}
    /\ meshes = <<>> /\ occurrences = <<>>
    /\ flat = <<>>
    /\ shard = [single |-> <<>>, groups |-> {}]
    /\ step = "produce"
-----------------------------------------------------------------------------
(* The elements of the batch, in turn *)

Planned(j) == j.kind = "mapped" /\ j.source \in plan

Producing(j) == step = "produce" /\ Len(batch) < MaxJobs /\ batch' = Append(batch, j)

Mesh(j, rep) ==
    meshes' = IF j.broken THEN meshes ELSE Append(meshes, [job |-> Len(batch'), rep |-> rep])

\* An element that is meshed for itself.
Materialize(j) ==
    /\ Producing(j) /\ ~Planned(j)
    /\ Mesh(j, IF j.kind = "voided" THEN NoRep ELSE <<"hash", j.source>>)
    /\ UNCHANGED <<plan, marked, registry, occurrences, flat, shard, step>>

\* The first use of a source marks it, even if the element then fails.
Template(j) ==
    /\ Producing(j) /\ Planned(j) /\ j.source \notin marked
    /\ marked' = marked \cup {j.source}
    /\ Mesh(j, <<"id", j.source>>)
    /\ UNCHANGED <<plan, registry, occurrences, flat, shard, step>>

\* A source meshed on a spent budget is not registered.
Placeholder(j) ==
    /\ Producing(j) /\ Planned(j) /\ j.source \in marked
    /\ registry' = IF j.tripped THEN registry ELSE registry \cup {j.source}
    /\ occurrences' =
         IF j.broken THEN occurrences
         ELSE Append(occurrences, [job |-> Len(batch'), rep |-> <<"id", j.source>>])
    /\ UNCHANGED <<plan, marked, meshes, flat, shard, step>>

Produced ==
    /\ step = "produce"
    /\ step' = "resolve"
    /\ UNCHANGED <<batch, plan, marked, registry, meshes, occurrences, flat, shard>>
-----------------------------------------------------------------------------
(* Flat or shard *)

\* is_instancing_candidate
Candidate(m) == batch[m.job].opaque /\ batch[m.job].kind # "type"

\* The places of a rep in a list, and the part of a list that is at some places.
OfRep(list, rep) == {k \in DOMAIN list : list[k].rep = rep}
Only(list, places) ==
    FlattenSeq([k \in DOMAIN list |-> IF k \in places THEN <<list[k]>> ELSE <<>>])

\* The first mesh of a rep stands for it.
TemplateEligible(rep) ==
    OfRep(meshes, rep) # {} /\ Candidate(meshes[Min(OfRep(meshes, rep))])

\* Mutation: a group is kept for its size alone.
KeptForSize(rep) == Cardinality(OfRep(occurrences, rep)) + 1 >= MinOccurrences

Kept(rep) ==
    /\ TemplateEligible(rep)
    /\ Cardinality(OfRep(occurrences, rep)) + 1 >= MinOccurrences

\* recover_flat: from the registry, or not at all.
Recovered(o) == ~Kept(o.rep) /\ o.rep[2] \in registry

\* resolve_batch_occurrences
Resolve ==
    /\ step = "resolve"
    /\ LET recovered == Only(occurrences, {k \in DOMAIN occurrences : Recovered(occurrences[k])})
       IN  meshes' = meshes \o [k \in DOMAIN recovered |-> [job |-> recovered[k].job, rep |-> NoRep]]
    /\ occurrences' = Only(occurrences, {k \in DOMAIN occurrences : Kept(occurrences[k].rep)})
    /\ step' = "partition"
    /\ UNCHANGED <<batch, plan, marked, registry, flat, shard>>

\* Mutation: meshes that can never be instances are counted.
TallyAll(rep) == Cardinality(OfRep(meshes, rep)) + Cardinality(OfRep(occurrences, rep))

\* The candidates and the instances of a rep.
Tally(rep) ==
    Cardinality({k \in OfRep(meshes, rep) : Candidate(meshes[k])}) + Cardinality(OfRep(occurrences, rep))

Instanced(m) == Candidate(m) /\ m.rep # NoRep /\ Tally(m.rep) >= MinOccurrences

JobsOf(list) == [k \in DOMAIN list |-> list[k].job]

Partition ==
    /\ step = "partition"
    /\ LET instanced == {k \in DOMAIN meshes : Instanced(meshes[k])}
       IN  /\ flat' = JobsOf(Only(meshes, DOMAIN meshes \ instanced))
           /\ meshes' = Only(meshes, instanced)
    /\ step' = "collate"
    /\ UNCHANGED <<batch, plan, marked, registry, occurrences, shard>>

\* The references of the shard, the meshes that repeat too little to be grouped,
\* and the groups.
Refs == meshes \o occurrences
Alone == {k \in DOMAIN meshes : Cardinality(OfRep(Refs, meshes[k].rep)) < MinOccurrences}
Group(r) ==
    [template |-> meshes[Min(OfRep(meshes, r))].job,
     members |-> {Refs[k].job : k \in OfRep(Refs, r)}]
Grouped ==
    {r \in Reps : Cardinality(OfRep(Refs, r)) >= MinOccurrences /\ OfRep(meshes, r) # {}}

\* collate_refs, with the routing threshold for its least group.
Collate ==
    /\ step = "collate"
    /\ shard' = [single |-> JobsOf(Only(meshes, Alone)), groups |-> {Group(r) : r \in Grouped}]
    /\ step' = "drawn"
    /\ UNCHANGED <<batch, plan, marked, registry, meshes, occurrences, flat>>
-----------------------------------------------------------------------------
InstancingNext ==
    \/ \E j \in Jobs : Materialize(j) \/ Template(j) \/ Placeholder(j)
    \/ Produced \/ Resolve \/ Partition \/ Collate

InstancingSpec == InstancingInit /\ [][InstancingNext]_instancingVars
-----------------------------------------------------------------------------
\* How often job i is drawn.
Drawn(i) ==
    LET alone == flat \o shard.single
    IN  Cardinality({k \in DOMAIN alone : alone[k] = i})
            + Cardinality({g \in shard.groups : i \in g.members})

\* The placeholders of a source: its uses after the first.
Placeholders(s) ==
    {i \in Ids : /\ batch[i].kind = "mapped" /\ batch[i].source = s
                 /\ \E k \in 1..(i - 1) : batch[k].kind = "mapped" /\ batch[k].source = s}

\* A placeholder may be lost only when no placeholder of its source had the
\* budget to register it (comment on recover_flat).
MayBeLost(i) ==
    /\ batch[i].source \in plan
    /\ i \in Placeholders(batch[i].source)
    /\ \A k \in Placeholders(batch[i].source) : batch[k].tripped

\* Every element is drawn exactly once, flat or from the shard, whichever
\* elements of its source fail before or after it (comment on
\* process_geometry_batch_partitioned).  Excepted are the placeholders that
\* MayBeLost describes: those may be drawn not at all, but never twice.
DrawnOnce ==
    step = "drawn" =>
        \A i \in Ids :
            \/ batch[i].broken /\ Drawn(i) = 0
            \/ ~batch[i].broken /\ Drawn(i) = 1
            \/ MayBeLost(i) /\ Drawn(i) = 0

\* Nothing is instanced that does not repeat: every group of the shard reaches
\* the threshold, and no mesh rides it by itself (comments on tallyable_rep and
\* meets_instance_threshold).
GroupsPay ==
    step = "drawn" =>
        /\ shard.single = <<>>
        /\ \A g \in shard.groups : Cardinality(g.members) >= MinOccurrences

\* What is not opaque is drawn flat, for blending (comment on the partition in
\* process_geometry_batch_partitioned).
TransparentStaysFlat ==
    \A g \in shard.groups : \A i \in g.members : batch[i].opaque
=============================================================================
