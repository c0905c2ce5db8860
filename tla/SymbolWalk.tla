----------------------------- MODULE SymbolWalk -----------------------------
(***************************************************************************)
(* processing/src/symbolic: extract_symbolic_data walks the representation *)
(* items of every product of a file and accumulates 2D primitives.  The     *)
(* items form a graph that comes from the file and may share nodes or close *)
(* a cycle.  Each top-level item is walked depth first under a depth bound, *)
(* a budget for revisits and a guard against cycles; the whole extraction   *)
(* is bounded in elements and in bytes.  What a bound drops is reported.    *)
(*                                                                         *)
(* A file is a record: products, the items (or, for a grid, the payloads)   *)
(* of each in file order; kind, elements, rep and payload, what its nodes   *)
(* are.  A set stands for geometric sets and for composite curves, whose    *)
(* segments are walked in the same way; a mapped item leads to the elements *)
(* of its representation; a curve stands for every item that is emitted;    *)
(* any other item emits nothing.                                           *)
(***************************************************************************)
EXTENDS Integers, Sequences, FiniteSets

CONSTANTS
    SymbolFiles,   \* the files that are extracted
    MaxItemDepth,
    MaxRevisits,   \* MAX_ITEM_REVISITS
    MaxElements,   \* MAX_SYMBOLIC_ELEMENTS
    MaxBytes,      \* MAX_SYMBOLIC_BYTES
    Overhead,      \* PRIMITIVE_OVERHEAD_BYTES
    Product,       \* stands at the bottom of the stack for the product
    NoNode

\* A grid has payloads, any other product has items.
ProductsOf(f) == [grid : {TRUE}, items : Seq(Nat)] \cup [grid : {FALSE}, items : Seq(DOMAIN f.kind)]

ASSUME SymbolFilesAssumption ==
    \A f \in SymbolFiles :
        /\ IsFiniteSet(DOMAIN f.kind) /\ {Product, NoNode} \cap DOMAIN f.kind = {}
        /\ \A x \in DOMAIN f.kind :
             /\ f.elements[x] \in Seq(DOMAIN f.kind) /\ f.payload[x] \in Nat
             /\ f.kind[x] = "mapped" => f.rep[x] \in DOMAIN f.kind
        /\ f.products \in Seq(ProductsOf(f))
ASSUME SymbolBoundsAssumption ==
    /\ MaxItemDepth \in Nat /\ MaxRevisits \in Nat
    /\ MaxElements \in Nat /\ MaxBytes \in Nat /\ Overhead \in Nat

VARIABLES
    file,       \* the file
    todo,       \* its products still to be scanned
    stack,      \* the calls of extract_symbolic_item_at that are under way
    path,       \* ItemWalk: the nodes on the current path
    seen,       \* ItemWalk: every node entered so far
    budget,     \* ItemWalk: revisit_budget
    entered,    \* the calls of this top-level item that went past the budget (history)
    emitted,    \* the primitives, each with the mapped items it was reached through
    bytes,
    reason,     \* the bound that is reported
    exhausted,
    extracted   \* the extraction is over

itemWalk == <<path, seen, budget, entered>>
accumulator == <<emitted, bytes, reason, exhausted>>
symbolVars == <<file, todo, stack, itemWalk, accumulator, extracted>>

Extraction == {"element-count", "output-bytes"}
PerItem == {"item-depth", "item-revisits", "item-cycle"}
Nothing == "none"

Nodes == DOMAIN file.kind
Top == stack[Len(stack)]
Depth == Len(stack) - 1

\* The stack once the caller has turned to its next item.
Turned == [stack EXCEPT ![Len(stack)].rest = Tail(@)]

SymbolsTyped ==
    /\ Len(stack) <= MaxItemDepth + 1
    /\ path \subseteq Nodes /\ seen \subseteq Nodes
    /\ budget \in 0..MaxRevisits
    /\ entered \in Nat
    /\ Len(emitted) <= MaxElements
    /\ bytes \in 0..MaxBytes
    /\ reason \in {Nothing} \cup Extraction \cup PerItem
    /\ exhausted \in BOOLEAN /\ extracted \in BOOLEAN

SymbolInit ==
    /\ file \in SymbolFiles
    /\ todo = file.products
    /\ stack = <<>>
    /\ path = {} /\ seen = {} /\ budget = MaxRevisits /\ entered = 0
    /\ emitted = <<>> /\ bytes = 0
    /\ reason = Nothing
    /\ exhausted = FALSE /\ extracted = FALSE
-----------------------------------------------------------------------------
(* SymbolicAccumulator *)

\* Mutation: the first bound that fired is kept, whatever its class.
RecordFirst(r) == reason' = IF reason = Nothing THEN r ELSE reason

\* The most severe reason is kept, the first of its class.
Report(r) ==
    reason' = IF reason = Nothing \/ (reason \in PerItem /\ r \in Extraction) THEN r ELSE reason

Charge(payload) == Overhead + payload

TryPush(payload, primitive) ==
    \/ /\ Len(emitted) >= MaxElements
       /\ Report("element-count") /\ exhausted' = TRUE
       /\ UNCHANGED <<emitted, bytes>>
    \/ /\ Len(emitted) < MaxElements
       /\ bytes + Charge(payload) > MaxBytes
       /\ Report("output-bytes") /\ exhausted' = TRUE
       /\ UNCHANGED <<emitted, bytes>>
    \/ /\ Len(emitted) < MaxElements
       /\ bytes + Charge(payload) <= MaxBytes
       /\ emitted' = Append(emitted, primitive)
       /\ bytes' = bytes + Charge(payload)
       /\ UNCHANGED <<reason, exhausted>>
-----------------------------------------------------------------------------
(* extract_symbolic_data_into *)

NextProduct ==
    /\ stack = <<>> /\ ~extracted
    /\ todo # <<>> /\ ~exhausted
    /\ todo' = Tail(todo)
    /\ stack' = <<[node |-> Product, rep |-> NoNode, via |-> <<>>,
                   grid |-> Head(todo).grid, rest |-> Head(todo).items]>>
    /\ UNCHANGED <<file, itemWalk, accumulator, extracted>>

\* The axis, line and bubbles of a grid: nothing looks at the bounds in between.
GridPush ==
    /\ stack # <<>> /\ Top.grid /\ Top.rest # <<>>
    /\ TryPush(Head(Top.rest), <<Product, <<>>>>)
    /\ stack' = Turned
    /\ UNCHANGED <<file, todo, itemWalk, extracted>>

EndExtraction ==
    /\ stack = <<>> /\ ~extracted
    /\ todo = <<>> \/ exhausted
    /\ extracted' = TRUE
    /\ UNCHANGED <<file, todo, stack, itemWalk, accumulator>>
-----------------------------------------------------------------------------
(* extract_symbolic_item_at, called for the next item of the topmost call *)

Callee == Head(Top.rest)

\* A top-level item starts a walk of its own.
Fresh == Len(stack) = 1
Path == IF Fresh THEN {} ELSE path
Seen == IF Fresh THEN {} ELSE seen
Budget == IF Fresh THEN MaxRevisits ELSE budget
Entered == IF Fresh THEN 0 ELSE entered

Calling == stack # <<>> /\ ~Top.grid /\ Top.rest # <<>>

TooDeep ==
    /\ Calling /\ Depth >= MaxItemDepth
    /\ Report("item-depth")
    /\ stack' = Turned
    /\ UNCHANGED <<file, todo, itemWalk, emitted, bytes, exhausted, extracted>>

\* A full accumulator also ends the loop over a product's items.
Full ==
    /\ Calling /\ Depth < MaxItemDepth /\ exhausted
    /\ stack' = Turned
    /\ UNCHANGED <<file, todo, itemWalk, accumulator, extracted>>

Walking == Calling /\ Depth < MaxItemDepth /\ ~exhausted

Revisit == Callee \in Seen

\* Mutation: items beyond the budget are dropped without a word.
SpentSilently ==
    /\ Walking /\ Revisit /\ Budget = 0
    /\ stack' = Turned
    /\ path' = Path /\ seen' = Seen /\ budget' = Budget /\ entered' = Entered
    /\ UNCHANGED <<file, todo, accumulator, extracted>>

Spent ==
    /\ Walking /\ Revisit /\ Budget = 0
    /\ Report("item-revisits")
    /\ stack' = Turned
    /\ path' = Path /\ seen' = Seen /\ budget' = Budget /\ entered' = Entered
    /\ UNCHANGED <<file, todo, emitted, bytes, exhausted, extracted>>

\* Mutation: revisits are free.
EnterFree ==
    /\ Walking
    /\ seen' = Seen \cup {Callee}
    /\ budget' = Budget
    /\ entered' = Entered + 1

\* Only a revisit is charged.
Enter ==
    /\ Walking /\ (Revisit => Budget > 0)
    /\ seen' = Seen \cup {Callee}
    /\ budget' = IF Revisit THEN Budget - 1 ELSE Budget
    /\ entered' = Entered + 1

Cycle ==
    /\ Enter
    /\ \/ Callee \in Path
       \/ file.kind[Callee] = "mapped" /\ file.rep[Callee] \in Path \cup {Callee}
    /\ Report("item-cycle")
    /\ path' = Path
    /\ stack' = Turned
    /\ UNCHANGED <<file, todo, emitted, bytes, exhausted, extracted>>

Emit ==
    /\ Enter
    /\ Callee \notin Path /\ file.kind[Callee] = "curve"
    /\ TryPush(file.payload[Callee], <<Callee, Top.via>>)
    /\ path' = Path
    /\ stack' = Turned
    /\ UNCHANGED <<file, todo, extracted>>

Skip ==
    /\ Enter
    /\ Callee \notin Path /\ file.kind[Callee] = "other"
    /\ path' = Path
    /\ stack' = Turned
    /\ UNCHANGED <<file, todo, accumulator, extracted>>

DescendSet ==
    /\ Enter
    /\ Callee \notin Path /\ file.kind[Callee] = "set"
    /\ path' = Path \cup {Callee}
    /\ stack' = Append(Turned, [node |-> Callee, rep |-> NoNode, via |-> Top.via,
                                grid |-> FALSE, rest |-> file.elements[Callee]])
    /\ UNCHANGED <<file, todo, accumulator, extracted>>

\* The representation of a mapped item is a node of the path too.
DescendMapped ==
    /\ Enter
    /\ Callee \notin Path /\ file.kind[Callee] = "mapped"
    /\ file.rep[Callee] \notin Path \cup {Callee}
    /\ path' = Path \cup {Callee, file.rep[Callee]}
    /\ stack' = Append(Turned, [node |-> Callee, rep |-> file.rep[Callee],
                                via |-> Append(Top.via, Callee), grid |-> FALSE,
                                rest |-> file.elements[file.rep[Callee]]])
    /\ UNCHANGED <<file, todo, accumulator, extracted>>

\* Mutation: the representation stays on the path.
ReturnLeaks ==
    /\ stack # <<>> /\ Top.rest = <<>>
    /\ path' = path \ {Top.node}
    /\ stack' = SubSeq(stack, 1, Len(stack) - 1)
    /\ UNCHANGED <<file, todo, seen, budget, entered, accumulator, extracted>>

\* A call leaves the nodes it entered.
Return ==
    /\ stack # <<>> /\ Top.rest = <<>>
    /\ path' = path \ {Top.node, Top.rep}
    /\ stack' = SubSeq(stack, 1, Len(stack) - 1)
    /\ UNCHANGED <<file, todo, seen, budget, entered, accumulator, extracted>>
-----------------------------------------------------------------------------
SymbolNext ==
    \/ NextProduct \/ GridPush \/ EndExtraction
    \/ TooDeep \/ Full \/ Spent \/ Cycle \/ Emit \/ Skip
    \/ DescendSet \/ DescendMapped \/ Return

SymbolSpec == SymbolInit /\ [][SymbolNext]_symbolVars
-----------------------------------------------------------------------------
\* The nodes of the calls under way.
OnStack == (UNION {{stack[k].node, stack[k].rep} : k \in 1..Len(stack)}) \ {Product, NoNode}

\* A node is on the path exactly as long as a call that entered it is under
\* way: none leaks, however a call ends, so no later occurrence of a node is
\* taken for a cycle (comment on ItemWalk::enter_node).
PathIsStack == path = OnStack

\* One top-level item enters each node once and makes at most the budgeted
\* number of revisits, whatever fan-out or cycle the file builds (comment on
\* MAX_ITEM_REVISITS).
WorkBounded == entered <= Cardinality(Nodes) + MaxRevisits

\* The extraction reports one of its own bounds exactly when it was cut short
\* by it, even if a single item was truncated before (comment on
\* SymbolicAccumulator::record).
CutIsReported == exhausted <=> reason \in Extraction
=============================================================================
