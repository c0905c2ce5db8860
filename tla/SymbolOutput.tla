---------------------------- MODULE SymbolOutput ----------------------------
(***************************************************************************)
(* What the symbolic stream of a file is meant to be, as a definition to    *)
(* compare the walk of SymbolWalk with: every item unrolled along every     *)
(* path that leads to it.                                                  *)
(***************************************************************************)
EXTENDS SymbolWalk, SequencesExt

\* Stands for what lies deeper than the walk follows.
Lost == <<NoNode, <<>>>>

\* An item, and the mapped items through which it is reached.
Occurrences == Nodes \X Seq(Nodes)

\* One level of a file, by what its items come to one level down.
Holds(below, holder, via) ==
    FlattenSeq([k \in DOMAIN file.elements[holder] |-> below[<<file.elements[holder][k], via>>]])

Level(below) ==
    [o \in Occurrences |->
        CASE file.kind[o[1]] = "curve" -> <<o>>
          [] file.kind[o[1]] = "set" -> Holds(below, o[1], o[2])
          [] file.kind[o[1]] = "mapped" -> Holds(below, file.rep[o[1]], Append(o[2], o[1]))
          [] OTHER -> <<>>]

\* What an occurrence comes to when n levels are followed.
Unrolled[n \in 0..MaxItemDepth] ==
    IF n = 0 THEN [o \in Occurrences |-> <<Lost>>] ELSE Level(Unrolled[n - 1])

ItemsOutput(items, via, n) ==
    FlattenSeq([k \in DOMAIN items |-> Unrolled[n][<<items[k], via>>]])

GridOutput(payloads) == [k \in DOMAIN payloads |-> <<Product, <<>>>>]

ProductOutput(p) ==
    IF p.grid THEN GridOutput(p.items) ELSE ItemsOutput(p.items, <<>>, MaxItemDepth)

OutputOf(products) == FlattenSeq([k \in DOMAIN products |-> ProductOutput(products[k])])

FullOutput == OutputOf(file.products)

\* The references an item holds.
References(node) ==
    (IF file.kind[node] = "mapped" THEN {file.rep[node]} ELSE {}) \cup ToSet(file.elements[node])

\* A set of nodes that leads to no other node.
Closed(C) == \A x \in C : References(x) \subseteq C

\* A node that its own references lead back to.
OnCycle(node) ==
    \A C \in SUBSET Nodes : References(node) \subseteq C /\ Closed(C) => node \in C

\* What is not reported is not lost: an extraction that reports nothing emitted
\* every primitive of the file, once for each path, in order (comments on
\* SymbolicTruncationReason, and item_walk.rs on paths).
NothingLost == extracted /\ reason = Nothing => emitted = FullOutput

\* A file that is reported as cyclic is cyclic: sharing, however heavy, is not
\* taken for a cycle (comment on SymbolicTruncationReason::ItemCycle).
CycleIsReal == reason = "item-cycle" => \E x \in Nodes : OnCycle(x)
=============================================================================
