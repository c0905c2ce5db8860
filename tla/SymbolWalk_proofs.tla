------------------------- MODULE SymbolWalk_proofs -------------------------
(***************************************************************************)
(* For every file and all bounds: the path of the walk is what its calls     *)
(* hold, the work for one item is bounded, the report tells whether the     *)
(* extraction was cut short, an extraction that reports nothing emitted      *)
(* everything, and what is reported as a cycle is one.                      *)
(***************************************************************************)
EXTENDS SymbolOutput, ListFacts

Products == ProductsOf(file)

\* A call of the walk; the bottom one stands for the product.
Calls == [node : Nodes \cup {Product}, rep : Nodes \cup {NoNode}, via : Seq(Nodes),
          grid : BOOLEAN, rest : Seq(Nodes) \cup Seq(Nat)]

Primitives == (Nodes \cup {Product}) \X Seq(Nodes)

\* The nodes a call entered.
Own(c) == {c.node, c.rep} \ {Product, NoNode}

StackTyped ==
    /\ stack \in Seq(Calls) /\ Len(stack) <= MaxItemDepth + 1
    /\ \A k \in 1..Len(stack) :
         IF stack[k].grid THEN stack[k].rest \in Seq(Nat) ELSE stack[k].rest \in Seq(Nodes)
    /\ stack # <<>> => Own(stack[1]) = {}

WalkTyped ==
    /\ file \in SymbolFiles /\ todo \in Seq(Products)
    /\ path \subseteq Nodes
    /\ extracted \in BOOLEAN

AccumulatorTyped ==
    /\ emitted \in Seq(Primitives) /\ Len(emitted) <= MaxElements
    /\ bytes \in 0..MaxBytes
    /\ reason \in {Nothing} \cup Extraction \cup PerItem
    /\ exhausted \in BOOLEAN

\* No two calls under way hold the same node, and the path is what they hold.
PathHeld ==
    /\ \A j, k \in 1..Len(stack) : j # k => Own(stack[j]) \cap Own(stack[k]) = {}
    /\ \A x : x \in path <=> \E k \in 1..Len(stack) : x \in Own(stack[k])

\* Each call past the budget is a node's first or a revisit that was paid for.
Balanced ==
    /\ seen \subseteq Nodes /\ budget \in 0..MaxRevisits /\ entered \in Nat
    /\ entered + budget = Cardinality(seen) + MaxRevisits

SymbolInv ==
    /\ WalkTyped /\ StackTyped /\ PathHeld
    /\ AccumulatorTyped /\ CutIsReported
    /\ Balanced
-----------------------------------------------------------------------------
LEMMA FileFacts ==
  ASSUME WalkTyped
  PROVE  /\ IsFiniteSet(Nodes) /\ Product \notin Nodes /\ NoNode \notin Nodes
         /\ \A x \in Nodes :
              /\ file.elements[x] \in Seq(Nodes) /\ file.payload[x] \in Nat
              /\ file.kind[x] = "mapped" => file.rep[x] \in Nodes
         /\ file.products \in Seq(Products)
BY SymbolFilesAssumption DEF WalkTyped, Nodes, Products

LEMMA InitHolds == SymbolInit => SymbolInv
<1> SUFFICES ASSUME SymbolInit PROVE SymbolInv
  OBVIOUS
<1>1. WalkTyped
  <2>1. file.products \in Seq(Products)
    BY SymbolFilesAssumption DEF SymbolInit, Products
  <2>2. QED
    BY <2>1 DEF SymbolInit, WalkTyped
<1>2. StackTyped
  BY SymbolBoundsAssumption DEF SymbolInit, StackTyped
<1>3. PathHeld
  BY DEF SymbolInit, PathHeld
<1>4. AccumulatorTyped /\ CutIsReported
  <2>1. emitted \in Seq(Primitives) /\ Len(emitted) = 0
    BY DEF SymbolInit
  <2>2. bytes \in 0..MaxBytes /\ 0 <= MaxElements
    BY SymbolBoundsAssumption DEF SymbolInit
  <2>3. reason = Nothing /\ exhausted = FALSE /\ Nothing \notin Extraction
    BY DEF SymbolInit, Nothing, Extraction
  <2>4. QED
    BY <2>1, <2>2, <2>3 DEF AccumulatorTyped, CutIsReported
<1>5. Balanced
  BY SymbolBoundsAssumption, FS_EmptySet DEF SymbolInit, Balanced
<1>6. QED
  BY <1>1, <1>2, <1>3, <1>4, <1>5 DEF SymbolInv
-----------------------------------------------------------------------------
(* The report and the bounds of the extraction *)

LEMMA ReportRanks ==
  ASSUME AccumulatorTyped, NEW r \in Extraction \cup PerItem, Report(r)
  PROVE  /\ reason' \in {Nothing} \cup Extraction \cup PerItem
         /\ r \in Extraction => reason' \in Extraction
         /\ r \in PerItem => (reason' \in Extraction <=> reason \in Extraction)
BY DEF AccumulatorTyped, Report, Nothing, Extraction, PerItem

\* A truncated item does not look like a truncated extraction.
LEMMA ItemReportKeeps ==
  ASSUME AccumulatorTyped, CutIsReported, WalkTyped, NEW r \in PerItem, Report(r),
         UNCHANGED <<file, emitted, bytes, exhausted>>
  PROVE  AccumulatorTyped' /\ CutIsReported'
<1>1. /\ reason' \in {Nothing} \cup Extraction \cup PerItem
      /\ reason' \in Extraction <=> reason \in Extraction
  BY ReportRanks
<1>2. Primitives' = Primitives
  BY DEF Primitives, Nodes
<1>3. QED
  BY <1>1, <1>2 DEF AccumulatorTyped, CutIsReported

LEMMA TryPushKeeps ==
  ASSUME AccumulatorTyped, CutIsReported, UNCHANGED file,
         NEW payload \in Nat, NEW primitive \in Primitives, TryPush(payload, primitive)
  PROVE  AccumulatorTyped' /\ CutIsReported'
<1>0. Primitives' = Primitives
  BY DEF Primitives, Nodes
<1>1. CASE \/ Report("element-count") /\ exhausted' = TRUE /\ UNCHANGED <<emitted, bytes>>
           \/ Report("output-bytes") /\ exhausted' = TRUE /\ UNCHANGED <<emitted, bytes>>
  <2>1. reason' \in Extraction
    BY <1>1, ReportRanks DEF Extraction
  <2>2. QED
    BY <1>0, <1>1, <2>1 DEF AccumulatorTyped, CutIsReported
<1>2. CASE /\ Len(emitted) < MaxElements
           /\ bytes + Charge(payload) <= MaxBytes
           /\ emitted' = Append(emitted, primitive)
           /\ bytes' = bytes + Charge(payload)
           /\ UNCHANGED <<reason, exhausted>>
  <2>1. emitted' \in Seq(Primitives) /\ Len(emitted') = Len(emitted) + 1
    BY <1>2 DEF AccumulatorTyped
  <2>2. Charge(payload) \in Nat
    BY SymbolBoundsAssumption DEF Charge
  <2>3. bytes' \in 0..MaxBytes
    BY <1>2, <2>2, SymbolBoundsAssumption DEF AccumulatorTyped
  <2>4. Len(emitted') <= MaxElements
    BY <1>2, <2>1, SymbolBoundsAssumption DEF AccumulatorTyped
  <2>5. QED
    BY <1>0, <1>2, <2>1, <2>3, <2>4 DEF AccumulatorTyped, CutIsReported
<1>3. QED
  BY <1>1, <1>2 DEF TryPush
-----------------------------------------------------------------------------
(* The stack and the path *)

LEMMA TurnedFacts ==
  ASSUME StackTyped, stack # <<>>, Top.rest # <<>>
  PROVE  /\ Turned \in Seq(Calls) /\ Len(Turned) = Len(stack)
         /\ \A k \in 1..Len(stack) :
              /\ Own(Turned[k]) = Own(stack[k])
              /\ IF Turned[k].grid THEN Turned[k].rest \in Seq(Nat)
                                   ELSE Turned[k].rest \in Seq(Nodes)
              /\ Turned[k].via = stack[k].via /\ Turned[k].grid = stack[k].grid
              /\ Turned[k].rest = IF k = Len(stack) THEN Tail(Top.rest) ELSE stack[k].rest
              /\ k # Len(stack) => Turned[k] = stack[k]
<1> DEFINE n == Len(stack)
<1>1. n \in 1..n /\ stack \in Seq(Calls) /\ stack[n] \in Calls /\ n \in Nat
  BY DEF StackTyped
<1>2. Tail(Top.rest) \in Seq(Nodes) \cup Seq(Nat)
      /\ IF Top.grid THEN Tail(Top.rest) \in Seq(Nat) ELSE Tail(Top.rest) \in Seq(Nodes)
  <2>1. CASE Top.grid
    BY <1>1, <2>1 DEF StackTyped, Top
  <2>2. CASE ~Top.grid
    BY <1>1, <2>2 DEF StackTyped, Top
  <2>3. QED
    BY <2>1, <2>2
<1>3. [stack[n] EXCEPT !.rest = Tail(@)] = [node |-> Top.node, rep |-> Top.rep, via |-> Top.via,
                                           grid |-> Top.grid, rest |-> Tail(Top.rest)]
  <2>1. \A x \in Calls : \A t : [x EXCEPT !.rest = t] = [node |-> x.node, rep |-> x.rep,
                                   via |-> x.via, grid |-> x.grid, rest |-> t]
    BY DEF Calls
  <2>2. \A t : [stack[n] EXCEPT !.rest = t] = [node |-> Top.node, rep |-> Top.rep,
                 via |-> Top.via, grid |-> Top.grid, rest |-> t]
    BY <1>1, <2>1 DEF Top
  <2>3. Tail(stack[n].rest) = Tail(Top.rest)
    BY DEF Top
  <2>4. QED
    BY <2>2, <2>3, Zenon
<1> DEFINE c == [node |-> Top.node, rep |-> Top.rep, via |-> Top.via,
                 grid |-> Top.grid, rest |-> Tail(Top.rest)]
<1>4. c \in Calls
  BY <1>1, <1>2 DEF Calls, Top
<1>5. Turned = [stack EXCEPT ![n] = c]
  BY <1>3 DEF Turned
<1>6. /\ c.node = Top.node /\ c.rep = Top.rep /\ c.via = Top.via
      /\ c.grid = Top.grid /\ c.rest = Tail(Top.rest)
  OBVIOUS
<1> HIDE DEF c
<1>7. Turned \in Seq(Calls) /\ Len(Turned) = n
  BY <1>1, <1>4, <1>5
<1>8. \A k \in 1..n : Turned[k] = IF k = n THEN c ELSE stack[k]
  BY <1>1, <1>5
<1>9. \A k \in 1..n : Own(Turned[k]) = Own(stack[k])
  BY <1>6, <1>8 DEF Own, Top
<1>10. \A k \in 1..n : IF Turned[k].grid THEN Turned[k].rest \in Seq(Nat)
                                         ELSE Turned[k].rest \in Seq(Nodes)
  BY <1>2, <1>6, <1>8 DEF StackTyped
<1>11. \A k \in 1..n : /\ Turned[k].via = stack[k].via /\ Turned[k].grid = stack[k].grid
                       /\ Turned[k].rest = IF k = n THEN Tail(Top.rest) ELSE stack[k].rest
                       /\ k # n => Turned[k] = stack[k]
  BY <1>6, <1>8 DEF Top
<1>12. QED
  BY <1>7, <1>9, <1>10, <1>11

\* A step that is done with the next item.
LEMMA TurnKeeps ==
  ASSUME StackTyped, PathHeld, stack # <<>>, Top.rest # <<>>,
         stack' = Turned, path' = path, UNCHANGED file
  PROVE  StackTyped' /\ PathHeld'
<1>1. Nodes' = Nodes /\ Calls' = Calls
  BY DEF Nodes, Calls
<1>2. Len(stack') = Len(stack) /\ stack' \in Seq(Calls)
      /\ \A k \in 1..Len(stack) : Own(stack'[k]) = Own(stack[k])
  BY TurnedFacts
<1>3. StackTyped'
  <2>1. 1 \in 1..Len(stack)
    BY DEF StackTyped
  <2>2. QED
    BY <1>1, <1>2, <2>1, TurnedFacts DEF StackTyped
<1>4. PathHeld'
  BY <1>2 DEF PathHeld
<1>5. QED
  BY <1>3, <1>4

\* A step that enters the nodes of a new call.
LEMMA DescendKeeps ==
  ASSUME StackTyped, PathHeld, stack # <<>>, Top.rest # <<>>, Depth < MaxItemDepth,
         NEW c \in Calls, ~c.grid, c.rest \in Seq(Nodes), Own(c) \cap path = {},
         stack' = Append(Turned, c), path' = path \cup Own(c), UNCHANGED file
  PROVE  StackTyped' /\ PathHeld'
<1> DEFINE n == Len(stack)
<1>1. Nodes' = Nodes /\ Calls' = Calls
  BY DEF Nodes, Calls
<1>2. Len(Turned) = n /\ Turned \in Seq(Calls) /\ n \in Nat /\ n >= 1
  BY TurnedFacts DEF StackTyped
<1>3. Len(stack') = n + 1 /\ stack' \in Seq(Calls) /\ stack'[n + 1] = c
      /\ \A k \in 1..n : stack'[k] = Turned[k]
  BY <1>2
<1>4. \A k \in 1..n : Own(stack'[k]) = Own(stack[k])
  BY <1>3, TurnedFacts
<1>5. StackTyped'
  <2>1. Len(stack') <= MaxItemDepth + 1
    BY <1>2, <1>3, SymbolBoundsAssumption DEF Depth
  <2>2. \A k \in 1..Len(stack') :
          IF stack'[k].grid THEN stack'[k].rest \in Seq(Nat) ELSE stack'[k].rest \in Seq(Nodes)
    BY <1>2, <1>3, TurnedFacts
  <2>3. Own(stack'[1]) = {}
    BY <1>2, <1>4 DEF StackTyped
  <2>4. QED
    BY <1>1, <1>3, <2>1, <2>2, <2>3 DEF StackTyped
<1>6. PathHeld'
  <2>1. \A k \in 1..n : Own(stack'[k]) \cap Own(c) = {}
    BY <1>4 DEF PathHeld
  <2>2. \A j, k \in 1..(n + 1) : j # k => Own(stack'[j]) \cap Own(stack'[k]) = {}
    <3> SUFFICES ASSUME NEW j \in 1..(n + 1), NEW k \in 1..(n + 1), j # k
                 PROVE  Own(stack'[j]) \cap Own(stack'[k]) = {}
      OBVIOUS
    <3>0. (j \in 1..n \/ j = n + 1) /\ (k \in 1..n \/ k = n + 1)
      BY <1>2
    <3>1. CASE j \in 1..n /\ k \in 1..n
      BY <1>4, <3>1 DEF PathHeld
    <3>2. CASE j = n + 1
      <4>1. k \in 1..n /\ stack'[j] = c
        BY <1>2, <1>3, <3>2
      <4>2. QED
        BY <2>1, <4>1
    <3>3. CASE k = n + 1
      <4>1. j \in 1..n /\ stack'[k] = c
        BY <1>2, <1>3, <3>3
      <4>2. QED
        BY <2>1, <4>1
    <3>4. QED
      BY <3>0, <3>1, <3>2, <3>3, Zenon
  <2>3. \A x : x \in path' <=> \E k \in 1..(n + 1) : x \in Own(stack'[k])
    BY <1>2, <1>3, <1>4 DEF PathHeld
  <2>4. QED
    BY <1>3, <2>2, <2>3 DEF PathHeld
<1>7. QED
  BY <1>5, <1>6

\* A call leaves exactly the nodes it entered.
LEMMA ReturnKeeps ==
  ASSUME StackTyped, PathHeld, Return
  PROVE  StackTyped' /\ PathHeld'
<1> DEFINE n == Len(stack)
<1>1. Nodes' = Nodes /\ Calls' = Calls
  BY DEF Return, Nodes, Calls
<1>2. n \in Nat /\ n >= 1 /\ n \in 1..n /\ stack \in Seq(Calls)
  BY DEF StackTyped, Return
<1>3. stack' \in Seq(Calls) /\ Len(stack') = n - 1 /\ \A k \in 1..(n - 1) : stack'[k] = stack[k]
  BY <1>2, FrontFacts DEF Return
<1>4. StackTyped'
  <2>1. Len(stack') <= MaxItemDepth + 1
    BY <1>2, <1>3, SymbolBoundsAssumption DEF StackTyped
  <2>2. \A k \in 1..Len(stack') :
          IF stack'[k].grid THEN stack'[k].rest \in Seq(Nat) ELSE stack'[k].rest \in Seq(Nodes)
    BY <1>2, <1>3 DEF StackTyped
  <2>3. stack' # <<>> => Own(stack'[1]) = {}
    BY <1>2, <1>3 DEF StackTyped
  <2>4. QED
    BY <1>1, <1>3, <2>1, <2>2, <2>3 DEF StackTyped
<1>5. path' = path \ {stack[n].node, stack[n].rep}
  BY DEF Return, Top
<1>6. \A x \in path : x # Product /\ x # NoNode
  BY DEF PathHeld, Own
<1>7. path' = path \ Own(stack[n])
  BY <1>5, <1>6 DEF Own
<1>8. \A x : x \in path' <=> \E k \in 1..(n - 1) : x \in Own(stack[k])
  <2> SUFFICES ASSUME NEW x
               PROVE  x \in path' <=> \E k \in 1..(n - 1) : x \in Own(stack[k])
    OBVIOUS
  <2>1. ASSUME x \in path' PROVE \E k \in 1..(n - 1) : x \in Own(stack[k])
    <3>1. PICK k \in 1..n : x \in Own(stack[k])
      BY <1>7, <2>1 DEF PathHeld
    <3>2. k # n
      BY <1>7, <2>1, <3>1
    <3>3. k \in 1..(n - 1)
      BY <1>2, <3>1, <3>2
    <3>4. QED
      BY <3>1, <3>3
  <2>2. ASSUME NEW k \in 1..(n - 1), x \in Own(stack[k]) PROVE x \in path'
    <3>1. k \in 1..n /\ k # n
      BY <1>2
    <3>2. x \in path /\ x \notin Own(stack[n])
      BY <1>2, <2>2, <3>1 DEF PathHeld
    <3>3. QED
      BY <1>7, <3>2
  <2>3. QED
    BY <2>1, <2>2
<1>9. \A k \in 1..(n - 1) : k \in 1..n
  BY <1>2
<1>10. PathHeld'
  BY <1>3, <1>8, <1>9 DEF PathHeld
<1>11. QED
  BY <1>4, <1>10
-----------------------------------------------------------------------------
(* The call for the next item *)

\* What a call starts from, whether it continues a walk or begins one.
LEMMA CallFacts ==
  ASSUME SymbolInv, Calling
  PROVE  /\ Path = path /\ Callee \in Nodes /\ Top \in Calls
         /\ Seen \subseteq Nodes /\ Budget \in 0..MaxRevisits /\ Entered \in Nat
         /\ Entered + Budget = Cardinality(Seen) + MaxRevisits
<1>1. /\ Len(stack) \in 1..Len(stack) /\ stack \in Seq(Calls) /\ Top \in Calls
  BY DEF SymbolInv, StackTyped, Calling, Top
<1>2. Top.rest \in Seq(Nodes) /\ Callee \in Nodes
  <2>1. Top.rest \in Seq(Nodes)
    BY <1>1 DEF SymbolInv, StackTyped, Calling, Top
  <2>2. QED
    BY <2>1 DEF Calling, Callee
<1>3. CASE Fresh
  <2>1. path = {}
    <3>1. Len(stack) = 1 /\ Own(stack[1]) = {}
      BY <1>3 DEF Fresh, SymbolInv, StackTyped, Calling
    <3>2. \A k \in 1..Len(stack) : Own(stack[k]) = {}
      BY <3>1
    <3>3. QED
      BY <3>2 DEF SymbolInv, PathHeld
  <2>2. Cardinality({}) = 0
    BY FS_EmptySet
  <2>3. QED
    BY <1>1, <1>2, <1>3, <2>1, <2>2, SymbolBoundsAssumption DEF Path, Seen, Budget, Entered
<1>4. CASE ~Fresh
  BY <1>1, <1>2, <1>4 DEF Path, Seen, Budget, Entered, SymbolInv, Balanced
<1>5. QED
  BY <1>3, <1>4

\* Only a revisit costs; only a first visit adds to the nodes seen.
LEMMA EnterKeeps ==
  ASSUME SymbolInv, Enter, UNCHANGED file
  PROVE  Balanced'
<1>1. Calling
  BY DEF Enter, Walking
<1>2. Nodes' = Nodes
  BY DEF Nodes
<1>3. IsFiniteSet(Seen) /\ Cardinality(Seen) \in Nat
  BY <1>1, CallFacts, FileFacts, FS_Subset, FS_CardinalityType DEF SymbolInv
<1>4. seen' = Seen \cup {Callee} /\ entered' = Entered + 1
      /\ budget' = IF Revisit THEN Budget - 1 ELSE Budget
  BY DEF Enter
<1>5. Cardinality(seen') = IF Revisit THEN Cardinality(Seen) ELSE Cardinality(Seen) + 1
  BY <1>3, <1>4, FS_AddElement DEF Revisit
<1>6. Revisit => Budget > 0
  BY DEF Enter
<1>7. seen' \subseteq Nodes'
  BY <1>1, <1>2, <1>4, CallFacts
<1>8. budget' \in 0..MaxRevisits /\ entered' \in Nat
  BY <1>1, <1>4, <1>6, CallFacts, SymbolBoundsAssumption
<1>9. entered' + budget' = Cardinality(seen') + MaxRevisits
  BY <1>1, <1>3, <1>4, <1>5, CallFacts, SymbolBoundsAssumption
<1>10. QED
  BY <1>7, <1>8, <1>9 DEF Balanced
-----------------------------------------------------------------------------
(* The actions *)

LEMMA NextProductKeeps ==
  ASSUME SymbolInv, NextProduct
  PROVE  SymbolInv'
<1> DEFINE c == [node |-> Product, rep |-> NoNode, via |-> <<>>,
                 grid |-> Head(todo).grid, rest |-> Head(todo).items]
<1>1. Nodes' = Nodes /\ Calls' = Calls /\ Products' = Products /\ Primitives' = Primitives
  BY DEF NextProduct, Nodes, Calls, Products, Primitives
<1>2. Head(todo) \in Products /\ Tail(todo) \in Seq(Products)
  BY DEF SymbolInv, WalkTyped, NextProduct
<1>3. /\ Head(todo).grid \in BOOLEAN
      /\ IF Head(todo).grid THEN Head(todo).items \in Seq(Nat) ELSE Head(todo).items \in Seq(Nodes)
  BY <1>2 DEF Products, ProductsOf, Nodes
<1>4. c \in Calls
  <2>1. <<>> \in Seq(Nodes)
    OBVIOUS
  <2>2. QED
    BY <1>3, <2>1 DEF Calls
<1>5. c.grid = Head(todo).grid /\ c.rest = Head(todo).items /\ Own(c) = {}
  BY DEF Own
<1> HIDE DEF c
<1>6. stack' = <<c>>
  BY DEF NextProduct, c
<1>7. Len(stack') = 1 /\ stack'[1] = c /\ stack' \in Seq(Calls)
  BY <1>4, <1>6
<1>8. StackTyped'
  BY <1>1, <1>3, <1>5, <1>7, SymbolBoundsAssumption DEF StackTyped
<1>9. PathHeld'
  <2>1. path = {} /\ path' = path
    BY DEF SymbolInv, PathHeld, NextProduct, itemWalk
  <2>2. QED
    BY <1>5, <1>7, <2>1 DEF PathHeld
<1>10. WalkTyped'
  BY <1>1, <1>2 DEF SymbolInv, WalkTyped, NextProduct, itemWalk
<1>11. AccumulatorTyped' /\ CutIsReported'
  BY <1>1 DEF SymbolInv, AccumulatorTyped, CutIsReported, NextProduct, accumulator
<1>12. Balanced'
  BY <1>1 DEF SymbolInv, Balanced, NextProduct, itemWalk
<1>13. QED
  BY <1>8, <1>9, <1>10, <1>11, <1>12 DEF SymbolInv

LEMMA GridPushKeeps ==
  ASSUME SymbolInv, GridPush
  PROVE  SymbolInv'
<1>1. Nodes' = Nodes /\ Products' = Products
  BY DEF GridPush, Nodes, Products
<1>2. stack # <<>> /\ Top.rest # <<>> /\ stack' = Turned
      /\ UNCHANGED <<file, todo, path, seen, budget, entered, extracted>>
  BY DEF GridPush, itemWalk
<1>3. Head(Top.rest) \in Nat
  <2>1. Len(stack) \in 1..Len(stack)
    BY <1>2 DEF SymbolInv, StackTyped
  <2>2. Top.rest \in Seq(Nat)
    BY <2>1 DEF SymbolInv, StackTyped, GridPush, Top
  <2>3. QED
    BY <1>2, <2>2
<1>4. <<Product, <<>>>> \in Primitives
  <2>1. <<>> \in Seq(Nodes)
    OBVIOUS
  <2>2. QED
    BY <2>1 DEF Primitives
<1>5. AccumulatorTyped' /\ CutIsReported'
  BY <1>2, <1>3, <1>4, TryPushKeeps DEF SymbolInv, GridPush
<1>6. StackTyped' /\ PathHeld'
  BY <1>2, TurnKeeps DEF SymbolInv
<1>7. WalkTyped' /\ Balanced'
  BY <1>1, <1>2 DEF SymbolInv, WalkTyped, Balanced
<1>8. QED
  BY <1>5, <1>6, <1>7 DEF SymbolInv

LEMMA EndExtractionKeeps ==
  ASSUME SymbolInv, EndExtraction
  PROVE  SymbolInv'
BY DEF SymbolInv, EndExtraction, WalkTyped, StackTyped, PathHeld, AccumulatorTyped,
       CutIsReported, Balanced, itemWalk, accumulator, Nodes, Products, Calls, Primitives,
       Own

\* A call that ends before it looks at the item, or for want of budget.
LEMMA CutCallKeeps ==
  ASSUME SymbolInv, TooDeep \/ Full \/ Spent
  PROVE  SymbolInv'
<1>1. Calling /\ stack' = Turned /\ UNCHANGED <<file, todo, extracted>>
  BY DEF TooDeep, Full, Spent, Walking
<1>2. Nodes' = Nodes /\ Products' = Products /\ Primitives' = Primitives
  BY <1>1 DEF Nodes, Products, Primitives
<1>3. path' = path
  BY <1>1, CallFacts DEF TooDeep, Full, Spent, itemWalk
<1>4. StackTyped' /\ PathHeld'
  BY <1>1, <1>3, TurnKeeps DEF SymbolInv, Calling
<1>5. WalkTyped'
  BY <1>1, <1>2, <1>3 DEF SymbolInv, WalkTyped
<1>6. Balanced'
  <2>1. CASE UNCHANGED itemWalk
    BY <1>2, <2>1 DEF SymbolInv, Balanced, itemWalk
  <2>2. CASE Spent
    <3>1. seen' = Seen /\ budget' = Budget /\ entered' = Entered
      BY <2>2 DEF Spent
    <3>2. QED
      BY <1>1, <1>2, <3>1, CallFacts DEF Balanced
  <2>3. QED
    BY <2>1, <2>2 DEF TooDeep, Full
<1>7. AccumulatorTyped' /\ CutIsReported'
  <2>1. CASE TooDeep \/ Spent
    <3>1. UNCHANGED <<file, emitted, bytes, exhausted>>
      BY <2>1 DEF TooDeep, Spent
    <3>2. \E r \in PerItem : Report(r)
      BY <2>1 DEF TooDeep, Spent, PerItem
    <3>3. QED
      BY <3>1, <3>2, ItemReportKeeps DEF SymbolInv
  <2>2. CASE Full
    BY <1>2, <2>2 DEF SymbolInv, Full, AccumulatorTyped, CutIsReported, accumulator
  <2>3. QED
    BY <2>1, <2>2
<1>8. QED
  BY <1>4, <1>5, <1>6, <1>7 DEF SymbolInv

\* A call that enters the item and has no call of its own.
LEMMA LeafCallKeeps ==
  ASSUME SymbolInv, Cycle \/ Emit \/ Skip
  PROVE  SymbolInv'
<1>1. Calling /\ Enter /\ stack' = Turned /\ path' = Path /\ UNCHANGED <<file, todo, extracted>>
  BY DEF Cycle, Emit, Skip, Enter, Walking
<1>2. Nodes' = Nodes /\ Products' = Products /\ Primitives' = Primitives
  BY <1>1 DEF Nodes, Products, Primitives
<1>3. path' = path
  BY <1>1, CallFacts
<1>4. StackTyped' /\ PathHeld'
  BY <1>1, <1>3, TurnKeeps DEF SymbolInv, Calling
<1>5. WalkTyped'
  BY <1>1, <1>2, <1>3 DEF SymbolInv, WalkTyped
<1>6. Balanced'
  BY <1>1, EnterKeeps
<1>7. AccumulatorTyped' /\ CutIsReported'
  <2>1. CASE Cycle
    <3>1. Report("item-cycle") /\ UNCHANGED <<file, emitted, bytes, exhausted>>
      BY <2>1 DEF Cycle
    <3>2. QED
      BY <3>1, ItemReportKeeps DEF SymbolInv, PerItem
  <2>2. CASE Emit
    <3>1. Callee \in Nodes /\ Top \in Calls
      BY <1>1, CallFacts
    <3>2. file.payload[Callee] \in Nat
      BY <3>1, FileFacts DEF SymbolInv
    <3>3. <<Callee, Top.via>> \in Primitives
      BY <3>1 DEF Calls, Primitives
    <3>4. QED
      BY <1>1, <2>2, <3>2, <3>3, TryPushKeeps DEF SymbolInv, Emit
  <2>3. CASE Skip
    BY <1>2, <2>3 DEF SymbolInv, Skip, AccumulatorTyped, CutIsReported, accumulator
  <2>4. QED
    BY <2>1, <2>2, <2>3
<1>8. QED
  BY <1>4, <1>5, <1>6, <1>7 DEF SymbolInv

LEMMA DescendCallKeeps ==
  ASSUME SymbolInv, DescendSet \/ DescendMapped
  PROVE  SymbolInv'
<1>1. Calling /\ Enter /\ Depth < MaxItemDepth /\ UNCHANGED <<file, todo, accumulator, extracted>>
  BY DEF DescendSet, DescendMapped, Enter, Walking
<1>2. Nodes' = Nodes /\ Products' = Products /\ Primitives' = Primitives
  BY <1>1 DEF Nodes, Products, Primitives
<1>3. Path = path /\ Callee \in Nodes /\ Top \in Calls
  BY <1>1, CallFacts
<1>4. Product \notin Nodes /\ NoNode \notin Nodes
  BY FileFacts DEF SymbolInv
<1>5. PICK c \in Calls : /\ ~c.grid /\ c.rest \in Seq(Nodes) /\ Own(c) \cap path = {}
                         /\ stack' = Append(Turned, c) /\ path' = path \cup Own(c)
                         /\ Own(c) \subseteq Nodes
  <2>1. CASE DescendSet
    <3> DEFINE c == [node |-> Callee, rep |-> NoNode, via |-> Top.via,
                     grid |-> FALSE, rest |-> file.elements[Callee]]
    <3>1. file.elements[Callee] \in Seq(Nodes) /\ Top.via \in Seq(Nodes)
      BY <1>3, FileFacts DEF SymbolInv, Calls
    <3>2. c \in Calls /\ ~c.grid /\ c.rest \in Seq(Nodes)
      BY <1>3, <3>1 DEF Calls
    <3>3. Own(c) = {Callee}
      BY <1>3, <1>4 DEF Own
    <3>4. stack' = Append(Turned, c) /\ path' = path \cup {Callee} /\ Callee \notin path
      BY <1>3, <2>1 DEF DescendSet
    <3> HIDE DEF c
    <3>5. QED
      BY <1>3, <3>2, <3>3, <3>4
  <2>2. CASE DescendMapped
    <3> DEFINE rep == file.rep[Callee]
               c == [node |-> Callee, rep |-> rep, via |-> Append(Top.via, Callee),
                     grid |-> FALSE, rest |-> file.elements[rep]]
    <3>1. rep \in Nodes
      BY <1>3, <2>2, FileFacts DEF SymbolInv, DescendMapped
    <3>2. file.elements[rep] \in Seq(Nodes) /\ Append(Top.via, Callee) \in Seq(Nodes)
      BY <1>3, <3>1, FileFacts DEF SymbolInv, Calls
    <3>3. c \in Calls /\ ~c.grid /\ c.rest \in Seq(Nodes)
      BY <1>3, <3>1, <3>2 DEF Calls
    <3>4. Own(c) = {Callee, rep}
      BY <1>3, <1>4, <3>1 DEF Own
    <3>5. /\ stack' = Append(Turned, c) /\ path' = path \cup {Callee, rep}
          /\ Callee \notin path /\ rep \notin path
      BY <1>3, <2>2 DEF DescendMapped
    <3> HIDE DEF c, rep
    <3>6. QED
      BY <1>3, <3>1, <3>3, <3>4, <3>5
  <2>3. QED
    BY <2>1, <2>2
<1>6. StackTyped' /\ PathHeld'
  BY <1>1, <1>5, DescendKeeps DEF SymbolInv, Calling
<1>7. WalkTyped'
  BY <1>1, <1>2, <1>5 DEF SymbolInv, WalkTyped
<1>8. Balanced'
  BY <1>1, EnterKeeps
<1>9. AccumulatorTyped' /\ CutIsReported'
  BY <1>1, <1>2 DEF SymbolInv, AccumulatorTyped, CutIsReported, accumulator
<1>10. QED
  BY <1>6, <1>7, <1>8, <1>9 DEF SymbolInv

LEMMA ReturnKeepsInv ==
  ASSUME SymbolInv, Return
  PROVE  SymbolInv'
<1>1. Nodes' = Nodes /\ Products' = Products /\ Primitives' = Primitives
  BY DEF Return, Nodes, Products, Primitives
<1>2. UNCHANGED <<file, todo, seen, budget, entered, emitted, bytes, reason, exhausted, extracted>>
      /\ path' \subseteq path
  BY DEF Return, accumulator
<1>3. WalkTyped' /\ AccumulatorTyped' /\ CutIsReported' /\ Balanced'
  BY <1>1, <1>2 DEF SymbolInv, WalkTyped, AccumulatorTyped, CutIsReported, Balanced
<1>4. QED
  BY <1>3, ReturnKeeps DEF SymbolInv
-----------------------------------------------------------------------------
LEMMA StepHolds == SymbolInv /\ [SymbolNext]_symbolVars => SymbolInv'
<1> SUFFICES ASSUME SymbolInv, [SymbolNext]_symbolVars PROVE SymbolInv'
  OBVIOUS
<1>1. CASE SymbolNext
  BY <1>1, NextProductKeeps, GridPushKeeps, EndExtractionKeeps, CutCallKeeps, LeafCallKeeps,
     DescendCallKeeps, ReturnKeepsInv DEF SymbolNext
<1>2. CASE UNCHANGED symbolVars
  BY <1>2
  DEF symbolVars, SymbolInv, WalkTyped, StackTyped, PathHeld, AccumulatorTyped, CutIsReported,
      Balanced, itemWalk, accumulator, Nodes, Products, Calls, Primitives, Own
<1>3. QED
  BY <1>1, <1>2

LEMMA SymbolsHold == SymbolSpec => []SymbolInv
<1>1. QED
  BY InitHolds, StepHolds, PTL DEF SymbolSpec

\* Every counter of the extraction stays within its bound (symbolic/mod.rs,
\* SymbolicAccumulator; item_walk.rs, ItemWalk).
THEOREM SymbolTypes == SymbolSpec => []SymbolsTyped
<1>1. SymbolInv => SymbolsTyped
  BY DEF SymbolInv, WalkTyped, StackTyped, AccumulatorTyped, Balanced, SymbolsTyped
<1>2. QED
  BY <1>1, SymbolsHold, PTL

\* No node leaks from the path and none is missing from it (ItemWalk::enter_node
\* and leave).
THEOREM SymbolPathIsStack == SymbolSpec => []PathIsStack
<1>1. SymbolInv => PathIsStack
  <2> SUFFICES ASSUME SymbolInv PROVE PathIsStack
    OBVIOUS
  <2>1. \A x : x \in OnStack <=> \E k \in 1..Len(stack) : x \in Own(stack[k])
    <3> DEFINE U == UNION {{stack[k].node, stack[k].rep} : k \in 1..Len(stack)}
    <3>1. \A x : x \in U <=> \E k \in 1..Len(stack) : x \in {stack[k].node, stack[k].rep}
      OBVIOUS
    <3>2. OnStack = U \ {Product, NoNode}
      BY DEF OnStack
    <3> HIDE DEF U
    <3>3. \A x : \A k \in 1..Len(stack) :
            x \in Own(stack[k]) <=> x \in {stack[k].node, stack[k].rep} /\ x \notin {Product, NoNode}
      BY Zenon DEF Own
    <3>4. \A x : x \in OnStack <=> x \in U /\ x \notin {Product, NoNode}
      BY <3>2
    <3>5. QED
      BY <3>1, <3>3, <3>4, Zenon
  <2>2. \A x : x \in path <=> x \in OnStack
    BY <2>1 DEF SymbolInv, PathHeld
  <2>3. QED
    BY <2>2, Zenon DEF PathIsStack
<1>2. QED
  BY <1>1, SymbolsHold, PTL

\* The work for one top-level item is bounded by the size of the file and the
\* budget (MAX_ITEM_REVISITS).
THEOREM SymbolWorkBounded == SymbolSpec => []WorkBounded
<1>1. SymbolInv => WorkBounded
  <2> SUFFICES ASSUME SymbolInv PROVE WorkBounded
    OBVIOUS
  <2>1. IsFiniteSet(Nodes) /\ seen \in SUBSET Nodes
    BY FileFacts DEF SymbolInv, Balanced
  <2>2. Cardinality(seen) <= Cardinality(Nodes) /\ IsFiniteSet(seen)
    BY <2>1, FS_Subset
  <2>3. Cardinality(seen) \in Nat /\ Cardinality(Nodes) \in Nat
    BY <2>1, <2>2, FS_CardinalityType
  <2>4. QED
    BY <2>2, <2>3, SymbolBoundsAssumption DEF SymbolInv, Balanced, WorkBounded
<1>2. QED
  BY <1>1, SymbolsHold, PTL

\* A bound of the extraction is reported exactly when it cut the output
\* (SymbolicAccumulator::record).
THEOREM SymbolCutIsReported == SymbolSpec => []CutIsReported
<1>1. SymbolInv => CutIsReported
  BY DEF SymbolInv
<1>2. QED
  BY <1>1, SymbolsHold, PTL
-----------------------------------------------------------------------------
(* Cycles *)

\* What a call under way still has to visit lies in every closed set that
\* holds the references of a node on the path up to it.
Linked ==
    \A j, k \in 1..Len(stack) : j <= k =>
        \A x \in Own(stack[j]) : \A C \in SUBSET Nodes :
            References(x) \subseteq C /\ Closed(C) =>
                \A i \in 1..Len(stack[k].rest) : stack[k].rest[i] \in C

\* The elements of an item are among its references.
LEMMA ElementsReferenced ==
  ASSUME WalkTyped, NEW x \in Nodes, NEW C, References(x) \subseteq C
  PROVE  /\ \A i \in 1..Len(file.elements[x]) : file.elements[x][i] \in C
         /\ file.kind[x] = "mapped" => file.rep[x] \in C
<1>1. file.elements[x] \in Seq(Nodes)
  BY FileFacts
<1>2. \A i \in 1..Len(file.elements[x]) : file.elements[x][i] \in ToSet(file.elements[x])
  BY <1>1 DEF ToSet
<1>3. QED
  BY <1>2 DEF References

\* The next item lies in every closed set that holds the references of a node
\* on the path.
LEMMA CalleeLinked ==
  ASSUME SymbolInv, Linked, Calling, NEW x \in path, NEW C \in SUBSET Nodes,
         References(x) \subseteq C, Closed(C)
  PROVE  Callee \in C
<1> DEFINE n == Len(stack)
<1>1. n \in 1..n /\ n \in Nat /\ Top.rest \in Seq(Nodes) /\ Top.rest # <<>>
  BY DEF SymbolInv, StackTyped, Calling, Top
<1>2. PICK j \in 1..n : x \in Own(stack[j])
  BY DEF SymbolInv, PathHeld
<1>3. \A i \in 1..Len(stack[n].rest) : stack[n].rest[i] \in C
  BY <1>1, <1>2 DEF Linked
<1>4. 1 \in 1..Len(Top.rest) /\ Callee = Top.rest[1]
  BY <1>1 DEF Callee
<1>5. QED
  BY <1>3, <1>4 DEF Top

\* What is taken for a cycle is one: the references of the item, or of its
\* representation, lead back to it.
LEMMA CycleFound ==
  ASSUME SymbolInv, Linked, Cycle
  PROVE  \E x \in Nodes : OnCycle(x)
<1>1. Calling /\ Path = path /\ Callee \in Nodes
  BY CallFacts DEF Cycle, Enter, Walking
<1>2. \A x \in path : \A C \in SUBSET Nodes : References(x) \subseteq C /\ Closed(C) => Callee \in C
  BY <1>1, CalleeLinked
<1>3. CASE Callee \in path
  BY <1>1, <1>2, <1>3 DEF OnCycle
<1>4. CASE file.kind[Callee] = "mapped" /\ file.rep[Callee] \in path \cup {Callee}
  <2> DEFINE rep == file.rep[Callee]
  <2>1. rep \in Nodes
    BY <1>1, <1>4, FileFacts DEF SymbolInv
  <2>2. ASSUME NEW C \in SUBSET Nodes, References(rep) \subseteq C, Closed(C) PROVE rep \in C
    <3>1. CASE rep = Callee
      BY <1>1, <1>4, <2>2, <3>1, ElementsReferenced DEF SymbolInv
    <3>2. CASE rep \in path
      <4>1. Callee \in C
        BY <1>2, <2>2, <3>2
      <4>2. References(Callee) \subseteq C
        BY <2>2, <4>1 DEF Closed
      <4>3. QED
        BY <1>1, <1>4, <4>2, ElementsReferenced DEF SymbolInv
    <3>3. QED
      BY <1>4, <3>1, <3>2
  <2>3. QED
    BY <2>1, <2>2 DEF OnCycle
<1>5. QED
  BY <1>1, <1>3, <1>4 DEF Cycle

\* Turning to the next item leaves less to visit.
LEMMA TurnKeepsLinked ==
  ASSUME StackTyped, Linked, stack # <<>>, Top.rest # <<>>, stack' = Turned, UNCHANGED file
  PROVE  Linked'
<1>1. /\ Len(stack') = Len(stack) /\ Len(stack) \in 1..Len(stack)
      /\ \A k \in 1..Len(stack) :
           /\ Own(stack'[k]) = Own(stack[k])
           /\ stack'[k].rest = IF k = Len(stack) THEN Tail(Top.rest) ELSE stack[k].rest
  BY TurnedFacts DEF StackTyped
<1>2. \A k \in 1..Len(stack) : \A i \in 1..Len(stack'[k].rest) :
        \E h \in 1..Len(stack[k].rest) : stack'[k].rest[i] = stack[k].rest[h]
  <2> SUFFICES ASSUME NEW k \in 1..Len(stack), NEW i \in 1..Len(stack'[k].rest)
               PROVE  \E h \in 1..Len(stack[k].rest) : stack'[k].rest[i] = stack[k].rest[h]
    OBVIOUS
  <2>1. CASE k # Len(stack)
    BY <1>1, <2>1
  <2>2. CASE k = Len(stack)
    <3>1. Top.rest \in Seq(Nat) \/ Top.rest \in Seq(Nodes)
      BY <1>1 DEF StackTyped, Top
    <3>2. stack'[k].rest = Tail(Top.rest) /\ stack[k].rest = Top.rest
      BY <1>1, <2>2 DEF Top
    <3>3. i + 1 \in 1..Len(Top.rest) /\ Tail(Top.rest)[i] = Top.rest[i + 1]
      BY <3>1, <3>2
    <3>4. QED
      BY <3>2, <3>3
  <2>3. QED
    BY <2>1, <2>2
<1>3. SUFFICES ASSUME NEW j \in 1..Len(stack), NEW k \in 1..Len(stack), j <= k,
                      NEW x \in Own(stack[j]), NEW C \in SUBSET Nodes,
                      References(x) \subseteq C, Closed(C)
               PROVE  \A i \in 1..Len(stack'[k].rest) : stack'[k].rest[i] \in C
  <2>1. Linked' <=>
          \A j, k \in 1..Len(stack') : j <= k =>
              \A x \in Own(stack'[j]) : \A C \in SUBSET Nodes :
                  References(x) \subseteq C /\ Closed(C) =>
                      \A i \in 1..Len(stack'[k].rest) : stack'[k].rest[i] \in C
    BY DEF Linked, Own, References, Closed, Nodes
  <2>2. Len(stack') = Len(stack) /\ \A j \in 1..Len(stack) : Own(stack'[j]) = Own(stack[j])
    BY <1>1
  <2>3. QED
    BY <2>1, <2>2
<1>4. \A h \in 1..Len(stack[k].rest) : stack[k].rest[h] \in C
  BY <1>3, Zenon DEF Linked
<1>5. QED
  BY <1>2, <1>4, Zenon

\* What a call starts to visit is referenced by the item it was made for.
LEMMA DescendKeepsLinked ==
  ASSUME SymbolInv, Linked, DescendSet \/ DescendMapped
  PROVE  Linked'
<1> DEFINE n == Len(stack)
           c == stack'[n + 1]
<1>1. Calling /\ UNCHANGED file /\ Path = path /\ Callee \in Nodes
  BY CallFacts DEF DescendSet, DescendMapped, Enter, Walking
<1>2. Nodes' = Nodes /\ (\A x : Own(x)' = Own(x') /\ References(x)' = References(x'))
      /\ \A C : Closed(C)' <=> Closed(C)
  BY <1>1 DEF Nodes, Own, References, Closed
<1>3. n \in Nat /\ Len(Turned) = n /\ Turned \in Seq(Calls)
  BY <1>1, TurnedFacts DEF SymbolInv, StackTyped, Calling
<1>4. /\ stack' = Append(Turned, c)
      /\ \E x \in Nodes :
           /\ c.rest = file.elements[x]
           /\ Own(c) \subseteq {Callee, x}
           /\ x # Callee => x = file.rep[Callee] /\ file.kind[Callee] = "mapped"
  <2>1. CASE DescendSet
    <3> DEFINE d == [node |-> Callee, rep |-> NoNode, via |-> Top.via,
                     grid |-> FALSE, rest |-> file.elements[Callee]]
    <3>1. d.rest = file.elements[Callee] /\ Own(d) \subseteq {Callee, Callee}
      BY DEF Own
    <3>2. stack' = Append(Turned, d)
      BY <2>1 DEF DescendSet
    <3> HIDE DEF d
    <3>3. c = d
      BY <1>3, <3>2
    <3>4. QED
      BY <1>1, <3>1, <3>2, <3>3
  <2>2. CASE DescendMapped
    <3> DEFINE x == file.rep[Callee]
               d == [node |-> Callee, rep |-> x, via |-> Append(Top.via, Callee),
                     grid |-> FALSE, rest |-> file.elements[x]]
    <3>1. d.rest = file.elements[x] /\ Own(d) \subseteq {Callee, x}
      BY DEF Own
    <3>2. stack' = Append(Turned, d) /\ file.kind[Callee] = "mapped"
      BY <2>2 DEF DescendMapped
    <3> HIDE DEF d
    <3>3. c = d
      BY <1>3, <3>2
    <3>4. x \in Nodes
      BY <1>1, <3>2, FileFacts DEF SymbolInv
    <3>5. QED
      BY <3>1, <3>2, <3>3, <3>4
  <2>3. QED
    BY <2>1, <2>2
<1>5. PICK x \in Nodes : /\ c.rest = file.elements[x] /\ Own(c) \subseteq {Callee, x}
                         /\ x # Callee => x = file.rep[Callee] /\ file.kind[Callee] = "mapped"
  BY <1>4
<1> HIDE DEF c
<1>6. /\ Len(stack') = n + 1 /\ stack'[n + 1] = c
      /\ \A k \in 1..n : stack'[k] = Turned[k]
  BY <1>3, <1>4
\* What leads to the item leads to what it holds.
<1>7. ASSUME NEW C \in SUBSET Nodes, Closed(C), Callee \in C
      PROVE  \A i \in 1..Len(c.rest) : c.rest[i] \in C
  <2>1. References(Callee) \subseteq C
    BY <1>7 DEF Closed
  <2>2. x \in C
    BY <1>1, <1>5, <1>7, <2>1, ElementsReferenced DEF SymbolInv
  <2>3. References(x) \subseteq C
    BY <1>7, <2>2 DEF Closed
  <2>4. QED
    BY <1>5, <2>3, ElementsReferenced DEF SymbolInv
<1>8. ASSUME NEW y \in Own(c), NEW C \in SUBSET Nodes, References(y) \subseteq C, Closed(C)
      PROVE  \A i \in 1..Len(c.rest) : c.rest[i] \in C
  <2>1. CASE y = x
    BY <1>5, <1>8, <2>1, ElementsReferenced DEF SymbolInv
  <2>2. CASE y = Callee /\ x # Callee
    <3>1. x \in C
      BY <1>1, <1>5, <1>8, <2>2, ElementsReferenced DEF SymbolInv
    <3>2. References(x) \subseteq C
      BY <1>8, <3>1 DEF Closed
    <3>3. QED
      BY <1>5, <3>2, ElementsReferenced DEF SymbolInv
  <2>3. QED
    BY <1>5, <2>1, <2>2
<1>9. SUFFICES ASSUME NEW j \in 1..(n + 1), NEW k \in 1..(n + 1), j <= k,
                      NEW y \in Own(stack'[j]), NEW C \in SUBSET Nodes,
                      References(y) \subseteq C, Closed(C)
               PROVE  \A i \in 1..Len(stack'[k].rest) : stack'[k].rest[i] \in C
  BY <1>1, <1>2, <1>6 DEF Linked
<1>10. CASE j = n + 1
  BY <1>3, <1>6, <1>8, <1>9, <1>10
<1>11. CASE j # n + 1
  <2>1. j \in 1..n /\ Own(stack'[j]) = Own(stack[j]) /\ y \in path
    <3>1. j \in 1..n
      BY <1>3, <1>11
    <3>2. Own(stack'[j]) = Own(stack[j])
      BY <1>1, <1>6, <3>1, TurnedFacts DEF SymbolInv, Calling
    <3>3. QED
      BY <1>9, <3>1, <3>2 DEF SymbolInv, PathHeld
  <2>2. CASE k = n + 1
    <3>1. Callee \in C
      BY <1>1, <1>9, <2>1, CalleeLinked
    <3>2. QED
      BY <1>6, <1>7, <1>9, <2>2, <3>1
  <2>3. CASE k # n + 1
    <3>1. k \in 1..n /\ Len(stack) \in 1..Len(stack)
      BY <1>3, <2>3 DEF Calling
    <3>2. \A i \in 1..Len(stack[k].rest) : stack[k].rest[i] \in C
      BY <1>9, <2>1, <3>1 DEF Linked
    <3>3. stack'[k].rest = IF k = n THEN Tail(Top.rest) ELSE stack[k].rest
      BY <1>1, <1>6, <3>1, TurnedFacts DEF SymbolInv, Calling
    <3>4. CASE k = n
      <4>1. Top.rest \in Seq(Nodes) /\ Top.rest # <<>> /\ stack[k].rest = Top.rest
        BY <1>1, <3>1, <3>4 DEF SymbolInv, StackTyped, Calling, Top
      <4>2. \A i \in 1..Len(Tail(Top.rest)) :
              i + 1 \in 1..Len(Top.rest) /\ Tail(Top.rest)[i] = Top.rest[i + 1]
        BY <4>1
      <4>3. QED
        BY <3>2, <3>3, <3>4, <4>1, <4>2
    <3>5. QED
      BY <3>2, <3>3, <3>4
  <2>4. QED
    BY <2>2, <2>3
<1>12. QED
  BY <1>10, <1>11

\* A call that ends leaves the others as they are.
LEMMA ReturnKeepsLinked ==
  ASSUME SymbolInv, Linked, Return
  PROVE  Linked'
<1> DEFINE n == Len(stack)
<1>1. n \in Nat /\ n >= 1 /\ stack \in Seq(Calls) /\ UNCHANGED file
  BY DEF SymbolInv, StackTyped, Return
<1>2. Len(stack') = n - 1 /\ \A k \in 1..(n - 1) : k \in 1..n /\ stack'[k] = stack[k]
  BY <1>1, FrontFacts DEF Return
<1>3. Nodes' = Nodes /\ (\A x : Own(x)' = Own(x') /\ References(x)' = References(x'))
      /\ \A C : Closed(C)' <=> Closed(C)
  BY <1>1 DEF Nodes, Own, References, Closed
<1>4. QED
  BY <1>2, <1>3 DEF Linked

\* The next call on the stack of a product holds no node.
LEMMA NextProductLinked ==
  ASSUME SymbolInv, NextProduct
  PROVE  Linked'
<1>1. StackTyped'
  BY NextProductKeeps DEF SymbolInv
<1>2. Len(stack') = 1 /\ stack' # <<>>
  BY DEF NextProduct
<1>3. QED
  BY <1>1, <1>2 DEF StackTyped, Linked

-----------------------------------------------------------------------------
(* What is emitted, and what is still to come *)

Outs == Primitives \cup {Lost}

\* What a file unrolls to depends on nothing but the file.
LEMMA FileFixes ==
  ASSUME UNCHANGED file
  PROVE  Unrolled' = Unrolled
BY DEF Unrolled, Level, Holds, Occurrences, Nodes, FlattenSeq

\* The recursion over the levels of a file has a solution.
LEMMA UnrolledExists == \E u : u = [n \in 0..MaxItemDepth |->
                                 IF n = 0 THEN [o \in Occurrences |-> <<Lost>>] ELSE Level(u[n - 1])]
<1> DEFINE Base == [o \in Occurrences |-> <<Lost>>]
           Q(m) == \E u : u = [n \in 0..m |-> IF n = 0 THEN Base ELSE Level(u[n - 1])]
           T == {m \in Nat : Q(m)}
<1> HIDE DEF Base
<1>1. Q(0)
  <2> DEFINE u == [n \in 0..0 |-> Base]
  <2>1. u = [n \in 0..0 |-> IF n = 0 THEN Base ELSE Level(u[n - 1])]
    OBVIOUS
  <2>2. QED
    BY <2>1
<1>2. ASSUME NEW m \in Nat, Q(m) PROVE Q(m + 1)
  <2>1. PICK u : u = [n \in 0..m |-> IF n = 0 THEN Base ELSE Level(u[n - 1])]
    BY <1>2
  <2> DEFINE v == [n \in 0..(m + 1) |-> IF n = 0 THEN Base ELSE Level(u[n - 1])]
  <2>2. \A n \in 0..m : v[n] = u[n]
    <3>1. \A n \in 0..m : u[n] = IF n = 0 THEN Base ELSE Level(u[n - 1])
      BY <2>1
    <3>2. \A n \in 0..m : n \in 0..(m + 1)
      OBVIOUS
    <3>3. QED
      BY <3>1, <3>2
  <2>3. \A n \in 0..(m + 1) : n # 0 => n - 1 \in 0..m
    OBVIOUS
  <2>4. \A n \in 0..(m + 1) : n # 0 => Level(v[n - 1]) = Level(u[n - 1])
    <3> HIDE DEF v
    <3>1. QED
      BY <2>2, <2>3, Zenon
  <2>5. v = [n \in 0..(m + 1) |-> IF n = 0 THEN Base ELSE Level(v[n - 1])]
    BY <2>4, Zenon
  <2> HIDE DEF v
  <2>6. QED
    BY <2>5
<1>3. Nat \subseteq T
  <2> HIDE DEF Q
  <2>1. 0 \in T /\ \A m \in Nat : m \in T => m + 1 \in T
    BY <1>1, <1>2
  <2> HIDE DEF T
  <2>2. QED
    BY <2>1, NatInductive
<1>4. Q(MaxItemDepth)
  <2> HIDE DEF Q
  <2>1. QED
    BY <1>3, SymbolBoundsAssumption
<1>5. QED
  BY <1>4 DEF Base

\* The recursion over the levels of a file, as equations.
LEMMA UnrolledIs ==
  /\ Unrolled[0] = [o \in Occurrences |-> <<Lost>>]
  /\ \A n \in 1..MaxItemDepth : Unrolled[n] = Level(Unrolled[n - 1])
<1>1. Unrolled = [n \in 0..MaxItemDepth |->
                    IF n = 0 THEN [o \in Occurrences |-> <<Lost>>] ELSE Level(Unrolled[n - 1])]
  <2> DEFINE P(u) == u = [n \in 0..MaxItemDepth |->
                            IF n = 0 THEN [o \in Occurrences |-> <<Lost>>] ELSE Level(u[n - 1])]
  <2>1. Unrolled = CHOOSE u : P(u)
    BY Zenon DEF Unrolled
  <2>2. \E u : P(u)
    BY UnrolledExists
  <2>3. P(CHOOSE u : P(u))
    <3> HIDE DEF P
    <3>1. QED
      BY <2>2
  <2>4. QED
    BY <2>1, <2>3
<1>2. 0 \in 0..MaxItemDepth /\ \A n \in 1..MaxItemDepth : n \in 0..MaxItemDepth /\ n # 0
  BY SymbolBoundsAssumption
<1> HIDE DEF Unrolled
<1>3. QED
  BY <1>1, <1>2

\* What the items of a list come to, one by one.
LEMMA HoldsType ==
  ASSUME WalkTyped, NEW below \in [Occurrences -> Seq(Outs)],
         NEW items \in Seq(Nodes), NEW via \in Seq(Nodes)
  PROVE  [k \in DOMAIN items |-> below[<<items[k], via>>]] \in Seq(Seq(Outs))
<1>1. \A k \in 1..Len(items) : below[<<items[k], via>>] \in Seq(Outs)
  <2> SUFFICES ASSUME NEW k \in 1..Len(items) PROVE below[<<items[k], via>>] \in Seq(Outs)
    OBVIOUS
  <2>1. <<items[k], via>> \in Occurrences
    BY DEF Occurrences
  <2>2. QED
    BY <2>1
<1>2. DOMAIN items = 1..Len(items) /\ Len(items) \in Nat
  OBVIOUS
<1>3. QED
  BY <1>1, <1>2

\* One more level comes to primitives if the level below does.
LEMMA LevelType ==
  ASSUME WalkTyped, NEW below \in [Occurrences -> Seq(Outs)]
  PROVE  Level(below) \in [Occurrences -> Seq(Outs)]
<1> DEFINE L(o) == CASE file.kind[o[1]] = "curve" -> <<o>>
          [] file.kind[o[1]] = "set" -> Holds(below, o[1], o[2])
          [] file.kind[o[1]] = "mapped" -> Holds(below, file.rep[o[1]], Append(o[2], o[1]))
          [] OTHER -> <<>>
<1>1. ASSUME NEW o \in Occurrences PROVE L(o) \in Seq(Outs)
  <2>1. o[1] \in Nodes /\ o[2] \in Seq(Nodes) /\ Append(o[2], o[1]) \in Seq(Nodes) /\ o \in Primitives
    BY DEF Occurrences, Primitives
  <2>2. ASSUME NEW x \in Nodes, NEW via \in Seq(Nodes) PROVE Holds(below, x, via) \in Seq(Outs)
    <3>1. file.elements[x] \in Seq(Nodes)
      BY FileFacts
    <3>2. QED
      BY <3>1, HoldsType, FlattenType DEF Holds
  <2>3. CASE file.kind[o[1]] = "curve"
    <3>1. <<o>> \in Seq(Outs)
      BY <2>1 DEF Outs
    <3>2. L(o) = <<o>>
      BY <2>3, Zenon
    <3>3. QED
      BY <3>1, <3>2
  <2>4. CASE file.kind[o[1]] = "set"
    <3>1. L(o) = Holds(below, o[1], o[2])
      BY <2>4
    <3>2. QED
      BY <2>1, <2>2, <3>1
  <2>5. CASE file.kind[o[1]] = "mapped"
    <3>1. L(o) = Holds(below, file.rep[o[1]], Append(o[2], o[1]))
      BY <2>5
    <3>2. file.rep[o[1]] \in Nodes
      BY <2>1, <2>5, FileFacts
    <3>3. QED
      BY <2>1, <2>2, <3>1, <3>2
  <2>6. CASE file.kind[o[1]] \notin {"curve", "set", "mapped"}
    <3>1. L(o) = <<>> /\ <<>> \in Seq(Outs)
      BY <2>6
    <3>2. QED
      BY <3>1
  <2>7. QED
    BY <2>3, <2>4, <2>5, <2>6
<1>2. Level(below) = [o \in Occurrences |-> L(o)]
  BY DEF Level
<1> HIDE DEF L
<1>3. QED
  BY <1>1, <1>2

\* Every level comes to primitives, or to the mark of what is lost.
LEMMA UnrolledType ==
  ASSUME WalkTyped, NEW n \in 0..MaxItemDepth
  PROVE  Unrolled[n] \in [Occurrences -> Seq(Outs)]
<1> DEFINE T == {m \in Nat : m \in 0..MaxItemDepth => Unrolled[m] \in [Occurrences -> Seq(Outs)]}
<1>1. 0 \in T
  <2>1. <<Lost>> \in Seq(Outs)
    BY DEF Outs
  <2>2. QED
    BY <2>1, UnrolledIs
<1>2. ASSUME NEW m \in Nat, m \in T PROVE m + 1 \in T
  <2> SUFFICES ASSUME m + 1 \in 0..MaxItemDepth
               PROVE  Unrolled[m + 1] \in [Occurrences -> Seq(Outs)]
    OBVIOUS
  <2>1. m + 1 \in 1..MaxItemDepth /\ m \in 0..MaxItemDepth /\ (m + 1) - 1 = m
    BY SymbolBoundsAssumption
  <2>2. Unrolled[m] \in [Occurrences -> Seq(Outs)]
    BY <1>2, <2>1
  <2>3. Unrolled[m + 1] = Level(Unrolled[m])
    BY <2>1, UnrolledIs
  <2>4. QED
    BY <2>2, <2>3, LevelType
<1> HIDE DEF T
<1>3. Nat \subseteq T
  BY <1>1, <1>2, NatInductive
<1>4. n \in T
  BY <1>3, SymbolBoundsAssumption
<1>5. QED
  BY <1>4 DEF T

\* What a call under way, at a depth, and the calls of a stack still have to
\* emit; the topmost call first.
CallOutput(c, depth) ==
    IF c.grid THEN GridOutput(c.rest) ELSE ItemsOutput(c.rest, c.via, MaxItemDepth - depth)

Pending(s) == FlattenSeq([i \in 1..Len(s) |-> CallOutput(s[Len(s) + 1 - i], Len(s) - i)])

\* While nothing is reported, what was emitted and what is still to come make
\* up the whole output of the file.
Accounted ==
    /\ reason = Nothing => emitted \o (Pending(stack) \o OutputOf(todo)) = FullOutput
    /\ extracted => stack = <<>> /\ (reason = Nothing => todo = <<>>)

\* A stack that StackTyped may hold.
GoodCalls(s) ==
    /\ s \in Seq(Calls) /\ Len(s) <= MaxItemDepth + 1
    /\ \A k \in 1..Len(s) :
         IF s[k].grid THEN s[k].rest \in Seq(Nat) ELSE s[k].rest \in Seq(Nodes)

\* A list of items comes to what its first item comes to, and then the others.
LEMMA ItemsOutputCons ==
  ASSUME WalkTyped, NEW items \in Seq(Nodes), NEW via \in Seq(Nodes), NEW n \in 0..MaxItemDepth
  PROVE  /\ ItemsOutput(items, via, n) \in Seq(Outs)
         /\ items = <<>> => ItemsOutput(items, via, n) = <<>>
         /\ items # <<>> => /\ Unrolled[n][<<Head(items), via>>] \in Seq(Outs)
                            /\ ItemsOutput(items, via, n) =
                                 Unrolled[n][<<Head(items), via>>] \o ItemsOutput(Tail(items), via, n)
<1> DEFINE s == [k \in DOMAIN items |-> Unrolled[n][<<items[k], via>>]]
           t == [k \in DOMAIN Tail(items) |-> Unrolled[n][<<Tail(items)[k], via>>]]
<1>1. s \in Seq(Seq(Outs))
  BY UnrolledType, HoldsType
<1>2. ItemsOutput(items, via, n) = FlattenSeq(s)
  BY DEF ItemsOutput
<1>3. ASSUME items = <<>> PROVE FlattenSeq(s) = <<>>
  <2>1. s = <<>>
    BY <1>3
  <2>2. QED
    BY <2>1, FlattenEmpty
<1>4. ASSUME items # <<>>
      PROVE  /\ s # <<>> /\ Head(s) = Unrolled[n][<<Head(items), via>>]
             /\ Tail(s) = t
  BY <1>4
<1>5. ItemsOutput(Tail(items), via, n) = FlattenSeq(t)
  BY DEF ItemsOutput
<1> HIDE DEF s, t
<1>6. FlattenSeq(s) \in Seq(Outs)
  BY <1>1, FlattenType
<1>7. ASSUME items # <<>>
      PROVE  Head(s) \in Seq(Outs) /\ FlattenSeq(s) = Head(s) \o FlattenSeq(t)
  <2>1. s # <<>> /\ Tail(s) = t
    BY <1>4, <1>7
  <2>2. Head(s) \in Seq(Outs)
    BY <1>1, <2>1
  <2>3. QED
    BY <1>1, <2>1, <2>2, FlattenCons
<1>8. QED
  BY <1>2, <1>3, <1>4, <1>5, <1>6, <1>7

\* The payloads of a grid come to one primitive each.
LEMMA GridOutputCons ==
  ASSUME NEW payloads \in Seq(Nat)
  PROVE  /\ GridOutput(payloads) \in Seq(Outs)
         /\ payloads = <<>> => GridOutput(payloads) = <<>>
         /\ payloads # <<>> =>
              GridOutput(payloads) = <<<<Product, <<>>>>>> \o GridOutput(Tail(payloads))
<1>1. <<>> \in Seq(Nodes) /\ <<Product, <<>>>> \in Outs
  <2>1. <<>> \in Seq(Nodes)
    OBVIOUS
  <2>2. QED
    BY <2>1 DEF Outs, Primitives
<1> DEFINE p == <<Product, <<>>>>
<1>2. p \in Outs
  BY <1>1
<1> HIDE DEF p
<1>3. GridOutput(payloads) = [k \in DOMAIN payloads |-> p]
      /\ GridOutput(Tail(payloads)) = [k \in DOMAIN Tail(payloads) |-> p]
  BY DEF GridOutput, p
<1>4. [k \in DOMAIN payloads |-> p] \in Seq(Outs)
  BY <1>2
<1>5. payloads = <<>> => [k \in DOMAIN payloads |-> p] = <<>>
  OBVIOUS
<1>6. payloads # <<>> =>
        [k \in DOMAIN payloads |-> p] = <<p>> \o [k \in DOMAIN Tail(payloads) |-> p]
  OBVIOUS
<1>7. QED
  BY <1>3, <1>4, <1>5, <1>6 DEF p

\* A call still has a sequence of primitives to emit.
LEMMA CallOutputType ==
  ASSUME WalkTyped, NEW c \in Calls, NEW d \in 0..MaxItemDepth,
         IF c.grid THEN c.rest \in Seq(Nat) ELSE c.rest \in Seq(Nodes)
  PROVE  CallOutput(c, d) \in Seq(Outs)
<1>1. MaxItemDepth - d \in 0..MaxItemDepth /\ c.via \in Seq(Nodes)
  BY SymbolBoundsAssumption DEF Calls
<1>2. QED
  BY <1>1, ItemsOutputCons, GridOutputCons DEF CallOutput

\* A stack has to emit what its topmost call has to, and then what is below it.
LEMMA PendingCons ==
  ASSUME WalkTyped, NEW s, GoodCalls(s)
  PROVE  /\ Pending(s) \in Seq(Outs)
         /\ s = <<>> => Pending(s) = <<>>
         /\ s # <<>> => /\ CallOutput(s[Len(s)], Len(s) - 1) \in Seq(Outs)
                        /\ Pending(SubSeq(s, 1, Len(s) - 1)) \in Seq(Outs)
                        /\ Pending(s) = CallOutput(s[Len(s)], Len(s) - 1)
                                          \o Pending(SubSeq(s, 1, Len(s) - 1))
<1> DEFINE n == Len(s)
           F(i) == CallOutput(s[n + 1 - i], n - i)
           out == [i \in 1..n |-> F(i)]
           r == SubSeq(s, 1, n - 1)
<1>1. n \in Nat /\ s \in Seq(Calls) /\ n <= MaxItemDepth + 1
  BY DEF GoodCalls
<1>2. \A i \in 1..n : F(i) \in Seq(Outs)
  <2> SUFFICES ASSUME NEW i \in 1..n PROVE CallOutput(s[n + 1 - i], n - i) \in Seq(Outs)
    OBVIOUS
  <2>1. n + 1 - i \in 1..n /\ n - i \in 0..MaxItemDepth
    BY <1>1, SymbolBoundsAssumption
  <2>2. s[n + 1 - i] \in Calls
    BY <1>1, <2>1
  <2>3. QED
    BY <2>1, <2>2, CallOutputType DEF GoodCalls
<1>3. out \in Seq(Seq(Outs)) /\ Len(out) = n
  <2> HIDE DEF F
  <2>1. QED
    BY <1>1, <1>2
<1>4. Pending(s) = FlattenSeq(out)
  BY DEF Pending
<1>5. Pending(s) \in Seq(Outs)
  BY <1>3, <1>4, FlattenType
<1>6. ASSUME s = <<>> PROVE Pending(s) = <<>>
  <2>1. out = <<>>
    BY <1>6
  <2>2. QED
    BY <1>4, <2>1, FlattenEmpty
<1>7. ASSUME s # <<>>
      PROVE  /\ F(1) \in Seq(Outs) /\ Pending(r) \in Seq(Outs) /\ Pending(s) = F(1) \o Pending(r)
  <2>1. n >= 1 /\ Len(r) = n - 1 /\ \A k \in 1..(n - 1) : r[k] = s[k]
    BY <1>1, <1>7, FrontFacts
  <2>2. \A i \in 1..(n - 1) : /\ (n - 1) + 1 - i \in 1..(n - 1) /\ (n - 1) + 1 - i = n + 1 - (i + 1)
                              /\ (n - 1) - i = n - (i + 1) /\ i + 1 \in 1..n
    BY <1>1
  <2> DEFINE G(i) == CallOutput(r[(n - 1) + 1 - i], (n - 1) - i)
  <2>3. \A i \in 1..(n - 1) : G(i) = F(i + 1)
    <3> HIDE DEF n, r
    <3>1. QED
      BY <2>1, <2>2
  <2>4. Pending(r) = FlattenSeq([i \in 1..(n - 1) |-> G(i)])
    <3> HIDE DEF r, n
    <3>1. QED
      BY <2>1 DEF Pending
  <2> HIDE DEF F, G, r, n
  <2>5. [i \in 1..(n - 1) |-> G(i)] = [i \in 1..(n - 1) |-> F(i + 1)]
    BY <2>3
  <2>6. Tail(out) = [i \in 1..(n - 1) |-> F(i + 1)] /\ Head(out) = F(1) /\ out # <<>>
    <3>1. 1 \in 1..n /\ \A i \in 1..(n - 1) : i + 1 \in 1..n
      BY <1>1, <2>1
    <3>2. \A i \in 1..n : out[i] = F(i)
      OBVIOUS
    <3>3. Head(out) = out[1] /\ out # <<>> /\ Tail(out) = [i \in 1..(n - 1) |-> out[i + 1]]
      <4> HIDE DEF out
      <4>1. QED
        BY <1>3, <2>1, TailIs
    <3>4. QED
      BY <3>1, <3>2, <3>3
  <2>7. /\ FlattenSeq(Tail(out)) \in Seq(Outs)
        /\ FlattenSeq(out) = Head(out) \o FlattenSeq(Tail(out))
    <3> HIDE DEF out
    <3>1. QED
      BY <1>3, <2>6, FlattenCons
  <2>8. F(1) \in Seq(Outs)
    BY <1>1, <1>2, <2>1
  <2>9. QED
    BY <1>4, <2>4, <2>5, <2>6, <2>7, <2>8
<1>8. F(1) = CallOutput(s[n], n - 1)
  <2>1. n + 1 - 1 = n
    BY <1>1
  <2>2. QED
    BY <2>1
<1>9. QED
  BY <1>5, <1>6, <1>7, <1>8

\* The products come to the first of them, and then the others.
LEMMA OutputCons ==
  ASSUME WalkTyped, NEW ps \in Seq(Products)
  PROVE  /\ OutputOf(ps) \in Seq(Outs)
         /\ ps = <<>> => OutputOf(ps) = <<>>
         /\ ps # <<>> => /\ ProductOutput(Head(ps)) \in Seq(Outs)
                         /\ OutputOf(ps) = ProductOutput(Head(ps)) \o OutputOf(Tail(ps))
<1> DEFINE s == [k \in DOMAIN ps |-> ProductOutput(ps[k])]
           t == [k \in DOMAIN Tail(ps) |-> ProductOutput(Tail(ps)[k])]
<1>1. \A k \in DOMAIN ps : ProductOutput(ps[k]) \in Seq(Outs)
  <2> SUFFICES ASSUME NEW k \in DOMAIN ps PROVE ProductOutput(ps[k]) \in Seq(Outs)
    OBVIOUS
  <2>1. ps[k] \in Products
    OBVIOUS
  <2>2. IF ps[k].grid THEN ps[k].items \in Seq(Nat) ELSE ps[k].items \in Seq(Nodes)
    BY <2>1 DEF Products, ProductsOf, Nodes
  <2>3. <<>> \in Seq(Nodes) /\ MaxItemDepth \in 0..MaxItemDepth
    BY SymbolBoundsAssumption
  <2>4. QED
    BY <2>2, <2>3, ItemsOutputCons, GridOutputCons DEF ProductOutput
<1>2. s \in Seq(Seq(Outs))
  BY <1>1
<1>3. OutputOf(ps) = FlattenSeq(s) /\ OutputOf(Tail(ps)) = FlattenSeq(t)
  BY DEF OutputOf
<1>4. ASSUME ps = <<>> PROVE FlattenSeq(s) = <<>>
  <2>1. s = <<>>
    BY <1>4
  <2>2. QED
    BY <2>1, FlattenEmpty
<1>5. ASSUME ps # <<>> PROVE s # <<>> /\ Head(s) = ProductOutput(Head(ps)) /\ Tail(s) = t
  BY <1>5
<1> HIDE DEF s, t
<1>6. FlattenSeq(s) \in Seq(Outs)
  BY <1>2, FlattenType
<1>7. ASSUME ps # <<>>
      PROVE  Head(s) \in Seq(Outs) /\ FlattenSeq(s) = Head(s) \o FlattenSeq(t)
  <2>1. s # <<>> /\ Tail(s) = t
    BY <1>5, <1>7
  <2>2. Head(s) \in Seq(Outs)
    BY <1>2, <2>1
  <2>3. QED
    BY <1>2, <2>1, <2>2, FlattenCons
<1>8. QED
  BY <1>3, <1>4, <1>5, <1>6, <1>7
-----------------------------------------------------------------------------
\* What is pending changes with the stack and the products only.
LEMMA OutputsFixed ==
  ASSUME UNCHANGED file, SymbolInv, SymbolInv'
  PROVE  /\ Pending(stack)' = Pending(stack')
         /\ OutputOf(todo)' = OutputOf(todo')
         /\ FullOutput' = FullOutput
<1>1. Unrolled' = Unrolled
  BY FileFixes
<1>2. QED
  BY <1>1 DEF Pending, CallOutput, OutputOf, FullOutput, GridOutput, ItemsOutput, ProductOutput, FlattenSeq

\* The balance of the next state, once its terms are known to be those of this
\* file.
LEMMA AccountedThen ==
  ASSUME SymbolInv, SymbolInv', UNCHANGED file, 
         reason' = Nothing => emitted' \o (Pending(stack') \o OutputOf(todo')) = FullOutput,
         extracted' => stack' = <<>> /\ (reason' = Nothing => todo' = <<>>)
  PROVE Accounted'
  BY OutputsFixed DEF Accounted

\* The primitive of a grid is one.
LEMMA GridPrimitive == <<Product, <<>>>> \in Outs /\ <<<<Product, <<>>>>>> \in Seq(Outs)
<1>1. <<>> \in Seq(Nodes)
  OBVIOUS
<1>2. <<Product, <<>>>> \in Outs
  BY <1>1 DEF Outs, Primitives
<1> DEFINE p == <<Product, <<>>>>
<1> HIDE DEF p
<1>3. p \in Outs => <<p>> \in Seq(Outs)
  OBVIOUS
<1>4. QED
  BY <1>2, <1>3 DEF p

\* The sequences of the balance are sequences of primitives.
LEMMA GoodCallsFacts ==
  ASSUME SymbolInv
  PROVE  /\ GoodCalls(stack) /\ todo \in Seq(Products) /\ emitted \in Seq(Outs)
         /\ Pending(stack) \in Seq(Outs) /\ OutputOf(todo) \in Seq(Outs)
         /\ exhausted => reason # Nothing
<1>1. GoodCalls(stack) /\ todo \in Seq(Products) /\ WalkTyped
  BY DEF SymbolInv, StackTyped, WalkTyped, GoodCalls
<1>2. emitted \in Seq(Outs)
  BY DEF SymbolInv, AccumulatorTyped, Outs
<1>3. exhausted => reason # Nothing
  BY DEF SymbolInv, CutIsReported, Nothing, Extraction
<1>4. QED
  BY <1>1, <1>2, <1>3, PendingCons, OutputCons

\* A call that turns to its next item leaves what the item comes to to be
\* emitted.
LEMMA TurnedPending ==
  ASSUME SymbolInv, stack # <<>>, Top.rest # <<>>
  PROVE  /\ Turned \in Seq(Calls) /\ GoodCalls(Turned) /\ Len(Turned) = Len(stack)
         /\ Pending(Turned) \in Seq(Outs)
         /\ Top.grid => Pending(stack) = <<<<Product, <<>>>>>> \o Pending(Turned)
         /\ ~Top.grid => /\ Unrolled[MaxItemDepth - Depth][<<Callee, Top.via>>] \in Seq(Outs)
                         /\ Pending(stack) = Unrolled[MaxItemDepth - Depth][<<Callee, Top.via>>]
                                               \o Pending(Turned)
<1> DEFINE n == Len(stack)
           B == Pending(SubSeq(stack, 1, n - 1))
           t == Turned[n]
<1>1. WalkTyped /\ StackTyped /\ GoodCalls(stack)
  BY GoodCallsFacts DEF SymbolInv
<1>2. n \in Nat /\ n \in 1..n /\ stack \in Seq(Calls) /\ Top \in Calls /\ Depth \in 0..MaxItemDepth
  BY <1>1, SymbolBoundsAssumption DEF StackTyped, Top, Depth
<1>3. /\ Turned \in Seq(Calls) /\ Len(Turned) = n /\ Turned # <<>>
      /\ t.via = Top.via /\ t.grid = Top.grid /\ t.rest = Tail(Top.rest)
      /\ \A k \in 1..(n - 1) : Turned[k] = stack[k]
  BY <1>1, <1>2, TurnedFacts DEF Top
<1>4. GoodCalls(Turned)
  BY <1>1, <1>3, TurnedFacts DEF GoodCalls, StackTyped
<1>5. SubSeq(Turned, 1, n - 1) = SubSeq(stack, 1, n - 1)
  <2>1. \A k \in 1..(n - 1) : SubSeq(Turned, 1, n - 1)[k] = SubSeq(stack, 1, n - 1)[k]
    BY <1>2, <1>3, FrontFacts
  <2>2. /\ SubSeq(Turned, 1, n - 1) \in Seq(Calls) /\ Len(SubSeq(Turned, 1, n - 1)) = n - 1
        /\ SubSeq(stack, 1, n - 1) \in Seq(Calls) /\ Len(SubSeq(stack, 1, n - 1)) = n - 1
    BY <1>2, <1>3, FrontFacts, SMTT(20)
  <2>3. QED
    BY <2>1, <2>2, SeqEqual
<1>6. /\ Pending(stack) = CallOutput(Top, Depth) \o B /\ B \in Seq(Outs)
      /\ Pending(Turned) = CallOutput(t, Depth) \o B /\ Pending(Turned) \in Seq(Outs)
      /\ CallOutput(t, Depth) \in Seq(Outs)
  <2>1. Pending(stack) = CallOutput(Top, Depth) \o B /\ B \in Seq(Outs)
    BY <1>1, PendingCons DEF Top, Depth
  <2>2. /\ Pending(Turned) = CallOutput(t, Depth) \o Pending(SubSeq(Turned, 1, n - 1))
        /\ Pending(Turned) \in Seq(Outs) /\ CallOutput(t, Depth) \in Seq(Outs)
    BY <1>1, <1>3, <1>4, PendingCons DEF Depth
  <2>3. QED
    BY <1>5, <2>1, <2>2
<1> HIDE DEF B, t
<1>7. ASSUME Top.grid
      PROVE  Pending(stack) = <<<<Product, <<>>>>>> \o Pending(Turned)
  <2>1. Top.rest \in Seq(Nat)
    BY <1>1, <1>2, <1>7 DEF StackTyped, Top
  <2>2. CallOutput(Top, Depth) = <<<<Product, <<>>>>>> \o CallOutput(t, Depth)
    BY <1>3, <1>7, <2>1, GridOutputCons DEF CallOutput
  <2>3. <<<<Product, <<>>>>>> \in Seq(Outs)
    BY GridPrimitive
  <2>4. QED
    BY <1>6, <2>2, <2>3, ConcatAssociative
<1>8. ASSUME ~Top.grid
      PROVE  /\ Unrolled[MaxItemDepth - Depth][<<Callee, Top.via>>] \in Seq(Outs)
             /\ Pending(stack) = Unrolled[MaxItemDepth - Depth][<<Callee, Top.via>>] \o Pending(Turned)
  <2> DEFINE X == Unrolled[MaxItemDepth - Depth][<<Callee, Top.via>>]
  <2>1. Top.rest \in Seq(Nodes) /\ Top.via \in Seq(Nodes) /\ MaxItemDepth - Depth \in 0..MaxItemDepth
    BY <1>1, <1>2, <1>8, SymbolBoundsAssumption DEF StackTyped, Top, Calls
  <2>2. CallOutput(Top, Depth) = X \o CallOutput(t, Depth) /\ X \in Seq(Outs)
    BY <1>1, <1>3, <1>8, <2>1, ItemsOutputCons DEF CallOutput, Callee
  <2> HIDE DEF X
  <2>3. Pending(stack) = X \o Pending(Turned)
    BY <1>6, <2>2, ConcatAssociative
  <2>4. QED
    BY <2>2, <2>3 DEF X
<1>9. QED
  BY <1>3, <1>4, <1>6, <1>7, <1>8

\* A step that is done with the next item and emits what it comes to, if
\* nothing is reported.
LEMMA TurnAccounted ==
  ASSUME SymbolInv, SymbolInv', Accounted, UNCHANGED <<file, todo, extracted>>,
         stack # <<>>, Top.rest # <<>>, stack' = Turned,
         NEW x \in Seq(Outs), reason' = Nothing => Pending(stack) = x \o Pending(Turned),
         reason' = Nothing => reason = Nothing /\ emitted' = emitted \o x
  PROVE  Accounted'
<1>1. ~extracted
  BY DEF Accounted
<1>2. ASSUME reason' = Nothing
      PROVE  emitted' \o (Pending(stack') \o OutputOf(todo')) = FullOutput
  <2>1. Then(emitted, Then(Then(x, Pending(Turned)), OutputOf(todo))) = FullOutput
    BY <1>2, Zenon DEF Accounted, Then
  <2>2. emitted \in Seq(Outs) /\ Pending(Turned) \in Seq(Outs) /\ OutputOf(todo) \in Seq(Outs)
    BY GoodCallsFacts, TurnedPending
  <2>3. Then(Then(emitted, x), Then(Pending(Turned), OutputOf(todo))) = FullOutput
    BY <2>1, <2>2, Rejoin
  <2>4. Pending(stack') = Pending(Turned) /\ OutputOf(todo') = OutputOf(todo)
    OBVIOUS
  <2>5. QED
    BY <1>2, <2>3, <2>4, Zenon DEF Then
<1>3. QED
  BY <1>1, <1>2, AccountedThen

\* After a report there is a reason.
LEMMA NothingNeverReturns ==
  ASSUME NEW r \in Extraction \cup PerItem, Report(r)
  PROVE  reason' # Nothing
BY DEF Report, Extraction, PerItem, Nothing

\* A push emits its primitive or reports.
LEMMA TryPushAccounts ==
  ASSUME NEW payload, NEW x, NEW S, emitted \in Seq(S), x \in S, TryPush(payload, x)
  PROVE  reason' = Nothing => reason = Nothing /\ emitted' = emitted \o <<x>>
<1>1. CASE Report("element-count") \/ Report("output-bytes")
  BY <1>1, NothingNeverReturns DEF Extraction
<1>2. CASE UNCHANGED reason /\ emitted' = Append(emitted, x)
  BY <1>2, AppendIsConcat
<1>3. QED
  BY <1>1, <1>2 DEF TryPush

\* A payload of a grid is emitted or reported.
LEMMA GridPushAccounted ==
  ASSUME SymbolInv, SymbolInv', Accounted, GridPush
  PROVE  Accounted'
<1> DEFINE p == <<Product, <<>>>>
<1>1. /\ UNCHANGED <<file, todo, extracted>> /\ stack # <<>> /\ Top.rest # <<>> /\ stack' = Turned
      /\ Pending(stack) = <<p>> \o Pending(Turned) /\ p \in Outs /\ <<p>> \in Seq(Outs)
  BY TurnedPending, GridPrimitive DEF GridPush
<1>2. TryPush(Head(Top.rest), p)
  BY DEF GridPush
<1> HIDE DEF p
<1>3. reason' = Nothing => reason = Nothing /\ emitted' = emitted \o <<p>>
  BY <1>1, <1>2, TryPushAccounts, GoodCallsFacts
<1>4. QED
  BY <1>1, <1>3, TurnAccounted

\* A call that reports, or that a full accumulator ends.
LEMMA ReportAccounted ==
  ASSUME SymbolInv, SymbolInv', Accounted, TooDeep \/ Full \/ Spent \/ Cycle
  PROVE  Accounted'
<1>1. UNCHANGED <<file, todo, extracted>> /\ Calling /\ stack' = Turned
  BY DEF TooDeep, Full, Spent, Cycle, Enter, Walking
<1>2. reason' # Nothing
  <2>1. CASE Full
    BY <2>1, GoodCallsFacts DEF Full, accumulator
  <2>2. CASE ~Full
    BY <2>2, NothingNeverReturns DEF TooDeep, Spent, Cycle, PerItem
  <2>3. QED
    BY <2>1, <2>2
<1>3. <<>> \in Seq(Outs)
  OBVIOUS
<1>4. QED
  BY <1>1, <1>2, <1>3, TurnAccounted DEF Calling

\* What the next item comes to, by what it is.
LEMMA CalleeOutput ==
  ASSUME SymbolInv, Walking
  PROVE  LET below == Unrolled[MaxItemDepth - Depth - 1]
             next == Unrolled[MaxItemDepth - Depth][<<Callee, Top.via>>]
         IN  /\ file.kind[Callee] = "curve" => next = <<<<Callee, Top.via>>>>
             /\ file.kind[Callee] = "set" => next = Holds(below, Callee, Top.via)
             /\ file.kind[Callee] = "mapped" =>
                  next = Holds(below, file.rep[Callee], Append(Top.via, Callee))
             /\ file.kind[Callee] = "other" => next = <<>>
<1> DEFINE o == <<Callee, Top.via>>
<1>1. Calling /\ Callee \in Nodes /\ Top.via \in Seq(Nodes)
  BY CallFacts DEF Walking, Calls
<1>2. o \in Occurrences /\ o[1] = Callee /\ o[2] = Top.via
  BY <1>1 DEF Occurrences
<1>3. MaxItemDepth - Depth \in 1..MaxItemDepth
  <2>1. Len(stack) \in Nat /\ Len(stack) # 0
    BY DEF SymbolInv, StackTyped, Walking, Calling
  <2>2. QED
    BY <2>1, SymbolBoundsAssumption DEF Walking, Depth
<1>4. Unrolled[MaxItemDepth - Depth] = Level(Unrolled[MaxItemDepth - Depth - 1])
  BY <1>3, UnrolledIs
<1> DEFINE below == Unrolled[MaxItemDepth - Depth - 1]
<1> HIDE DEF o, below
<1>5. Level(below)[o] =
        CASE file.kind[o[1]] = "curve" -> <<o>>
          [] file.kind[o[1]] = "set" -> Holds(below, o[1], o[2])
          [] file.kind[o[1]] = "mapped" -> Holds(below, file.rep[o[1]], Append(o[2], o[1]))
          [] OTHER -> <<>>
  BY <1>2 DEF Level
<1>6. Unrolled[MaxItemDepth - Depth][o] = Level(below)[o]
  BY <1>4 DEF below
<1>7. /\ file.kind[Callee] = "curve" => Level(below)[o] = <<o>>
      /\ file.kind[Callee] = "set" => Level(below)[o] = Holds(below, Callee, Top.via)
      /\ file.kind[Callee] = "mapped" =>
           Level(below)[o] = Holds(below, file.rep[Callee], Append(Top.via, Callee))
      /\ file.kind[Callee] = "other" => Level(below)[o] = <<>>
  BY <1>2, <1>5
<1>8. QED
  BY <1>6, <1>7 DEF o, below

\* A curve is emitted, and an item that emits nothing has nothing to emit.
LEMMA LeafAccounted ==
  ASSUME SymbolInv, SymbolInv', Accounted, Emit \/ Skip
  PROVE  Accounted'
<1> DEFINE x == Unrolled[MaxItemDepth - Depth][<<Callee, Top.via>>]
           o == <<Callee, Top.via>>
<1>1. UNCHANGED <<file, todo, extracted>> /\ Walking /\ Calling /\ stack' = Turned
  BY DEF Emit, Skip, Enter, Walking
<1>2. x \in Seq(Outs) /\ Pending(stack) = x \o Pending(Turned)
  BY <1>1, TurnedPending DEF Calling
<1>3. reason' = Nothing => reason = Nothing /\ emitted' = emitted \o x
  <2>1. CASE Emit
    <3>1. x = <<o>>
      BY <1>1, <2>1, CalleeOutput DEF Emit
    <3>2. o \in Outs
      <4>1. Callee \in Nodes /\ Top.via \in Seq(Nodes)
        BY <1>1, CallFacts DEF Calls
      <4>2. QED
        BY <4>1 DEF Outs, Primitives
    <3>3. TryPush(file.payload[Callee], o)
      BY <2>1 DEF Emit
    <3> HIDE DEF o, x
    <3>4. QED
      BY <3>1, <3>2, <3>3, TryPushAccounts, GoodCallsFacts
  <2>2. CASE Skip
    <3>1. x = <<>> /\ UNCHANGED <<emitted, reason>>
      BY <1>1, <2>2, CalleeOutput DEF Skip, accumulator
    <3> HIDE DEF x
    <3>2. QED
      BY <3>1, GoodCallsFacts, ConcatEmptySeq
  <2>3. QED
    BY <2>1, <2>2
<1> HIDE DEF x
<1>4. QED
  BY <1>1, <1>2, <1>3, TurnAccounted DEF Calling

\* The call that an item descends into has to emit what the item comes to.
LEMMA DescendAccounted ==
  ASSUME SymbolInv, SymbolInv', Accounted, DescendSet \/ DescendMapped
  PROVE  Accounted'
<1> DEFINE n == Len(stack)
           x == Unrolled[MaxItemDepth - Depth][<<Callee, Top.via>>]
<1>1. UNCHANGED <<file, todo, extracted, emitted, reason>> /\ Walking /\ Calling
  BY DEF DescendSet, DescendMapped, Enter, Walking, accumulator
<1>2. /\ Turned \in Seq(Calls) /\ Len(Turned) = n
      /\ Pending(Turned) \in Seq(Outs) /\ Pending(stack) = x \o Pending(Turned)
  BY <1>1, TurnedPending DEF Calling
<1>3. n \in Nat /\ MaxItemDepth - n = MaxItemDepth - Depth - 1
  BY SymbolBoundsAssumption DEF SymbolInv, StackTyped, Depth
<1>4. PICK c : stack' = Append(Turned, c) /\ CallOutput(c, n) = x
  <2>1. CASE DescendSet
    <3> DEFINE c == [node |-> Callee, rep |-> NoNode, via |-> Top.via,
                     grid |-> FALSE, rest |-> file.elements[Callee]]
    <3>1. CallOutput(c, n) = Holds(Unrolled[MaxItemDepth - n], Callee, Top.via)
      BY DEF CallOutput, ItemsOutput, Holds
    <3>2. x = Holds(Unrolled[MaxItemDepth - Depth - 1], Callee, Top.via)
      BY <1>1, <2>1, CalleeOutput DEF DescendSet
    <3>3. stack' = Append(Turned, c)
      BY <2>1 DEF DescendSet
    <3> HIDE DEF c
    <3>4. QED
      BY <1>3, <3>1, <3>2, <3>3
  <2>2. CASE DescendMapped
    <3> DEFINE c == [node |-> Callee, rep |-> file.rep[Callee],
                     via |-> Append(Top.via, Callee), grid |-> FALSE,
                     rest |-> file.elements[file.rep[Callee]]]
    <3>1. CallOutput(c, n) =
            Holds(Unrolled[MaxItemDepth - n], file.rep[Callee], Append(Top.via, Callee))
      BY DEF CallOutput, ItemsOutput, Holds
    <3>2. x = Holds(Unrolled[MaxItemDepth - Depth - 1], file.rep[Callee], Append(Top.via, Callee))
      BY <1>1, <2>2, CalleeOutput DEF DescendMapped
    <3>3. stack' = Append(Turned, c)
      BY <2>2 DEF DescendMapped
    <3> HIDE DEF c
    <3>4. QED
      BY <1>3, <3>1, <3>2, <3>3
  <2>3. QED
    BY <2>1, <2>2
<1>5. Nodes' = Nodes /\ Calls' = Calls
  BY <1>1 DEF Nodes, Calls
<1>6. GoodCalls(stack') /\ Len(stack') = n + 1 /\ stack'[n + 1] = c /\ WalkTyped
  BY <1>2, <1>4, <1>5 DEF SymbolInv, StackTyped, GoodCalls
<1>7. SubSeq(stack', 1, n) = Turned
  <2>1. stack' \in Seq(Calls) /\ (n + 1) - 1 = n /\ stack' # <<>>
    BY <1>3, <1>6 DEF GoodCalls
  <2>2. \A k \in 1..n : stack'[k] = Turned[k]
    BY <1>2, <1>4
  <2>3. /\ SubSeq(stack', 1, n) \in Seq(Calls) /\ Len(SubSeq(stack', 1, n)) = n
        /\ \A k \in 1..n : SubSeq(stack', 1, n)[k] = stack'[k]
    <3>1. /\ SubSeq(stack', 1, Len(stack') - 1) \in Seq(Calls)
          /\ Len(SubSeq(stack', 1, Len(stack') - 1)) = Len(stack') - 1
          /\ \A k \in 1..(Len(stack') - 1) :
               k \in 1..Len(stack') /\ SubSeq(stack', 1, Len(stack') - 1)[k] = stack'[k]
      BY <2>1, FrontFacts
    <3>2. QED
      BY <1>6, <2>1, <3>1
  <2>4. QED
    BY <1>2, <2>2, <2>3, SeqEqual
<1> HIDE DEF x
<1>8. Pending(stack') = CallOutput(c, n) \o Pending(Turned)
  <2>1. stack' # <<>> /\ (n + 1) - 1 = n
    BY <1>3, <1>6
  <2>2. /\ stack'[Len(stack')] = c /\ Len(stack') - 1 = n
        /\ SubSeq(stack', 1, Len(stack') - 1) = Turned
    BY <1>6, <1>7, <2>1
  <2>3. Pending(stack') = CallOutput(stack'[Len(stack')], Len(stack') - 1)
                            \o Pending(SubSeq(stack', 1, Len(stack') - 1))
    BY <1>6, <2>1, PendingCons
  <2>4. QED
    BY <2>2, <2>3
<1>9. ~extracted /\ OutputOf(todo') = OutputOf(todo)
  BY <1>1 DEF Accounted, Calling
<1>10. reason' = Nothing => emitted' \o (Pending(stack') \o OutputOf(todo')) = FullOutput
  BY <1>1, <1>2, <1>4, <1>8, <1>9 DEF Accounted
<1>11. QED
  BY <1>1, <1>9, <1>10, AccountedThen

\* A call that ends has nothing left to emit.
LEMMA ReturnAccounted ==
  ASSUME SymbolInv, SymbolInv', Accounted, Return
  PROVE  Accounted'
<1> DEFINE n == Len(stack)
<1>1. /\ UNCHANGED <<file, todo, extracted, emitted, reason>> /\ stack # <<>> /\ Top.rest = <<>>
      /\ stack' = SubSeq(stack, 1, n - 1)
  BY DEF Return, accumulator
<1>2. GoodCalls(stack) /\ WalkTyped /\ n \in 1..n /\ Depth \in 0..MaxItemDepth /\ Top \in Calls
  BY <1>1, GoodCallsFacts, SymbolBoundsAssumption DEF SymbolInv, StackTyped, Depth, Top
<1>3. CallOutput(Top, Depth) = <<>>
  <2>1. IF Top.grid THEN Top.rest \in Seq(Nat) ELSE Top.rest \in Seq(Nodes)
    BY <1>2 DEF GoodCalls, Top
  <2>2. Top.via \in Seq(Nodes) /\ MaxItemDepth - Depth \in 0..MaxItemDepth
    BY <1>2, SymbolBoundsAssumption DEF Calls
  <2>3. QED
    BY <1>1, <1>2, <2>1, <2>2, ItemsOutputCons, GridOutputCons DEF CallOutput
<1>4. Pending(stack) = Pending(stack')
  <2>1. /\ Pending(SubSeq(stack, 1, n - 1)) \in Seq(Outs)
        /\ Pending(stack) = CallOutput(Top, Depth) \o Pending(SubSeq(stack, 1, n - 1))
    BY <1>1, <1>2, PendingCons DEF Top, Depth
  <2>2. QED
    BY <1>1, <1>3, <2>1, ConcatEmptySeq
<1>5. ~extracted
  BY <1>1 DEF Accounted
<1>6. QED
  BY <1>1, <1>4, <1>5, AccountedThen DEF Accounted

\* The call for a product has to emit what the product comes to.
LEMMA NextProductAccounted ==
  ASSUME SymbolInv, SymbolInv', Accounted, NextProduct
  PROVE  Accounted'
<1> DEFINE c == [node |-> Product, rep |-> NoNode, via |-> <<>>,
                 grid |-> Head(todo).grid, rest |-> Head(todo).items]
<1>1. /\ UNCHANGED <<file, extracted, emitted, reason>> /\ stack = <<>> /\ ~extracted
      /\ todo # <<>> /\ todo' = Tail(todo) /\ stack' = <<c>>
  BY DEF NextProduct, accumulator
<1>2. CallOutput(c, 0) = ProductOutput(Head(todo))
  <2>1. MaxItemDepth - 0 = MaxItemDepth
    BY SymbolBoundsAssumption
  <2>2. QED
    BY <2>1 DEF CallOutput, ProductOutput
<1> HIDE DEF c
<1>3. WalkTyped /\ GoodCalls(stack) /\ todo \in Seq(Products) /\ emitted \in Seq(Outs)
  BY GoodCallsFacts DEF SymbolInv
<1>4. /\ ProductOutput(Head(todo)) \in Seq(Outs) /\ OutputOf(todo) \in Seq(Outs)
      /\ OutputOf(todo) = ProductOutput(Head(todo)) \o OutputOf(todo')
      /\ Pending(stack) = <<>>
  BY <1>1, <1>3, OutputCons, PendingCons
<1>5. Pending(stack') = ProductOutput(Head(todo))
  <2>1. Nodes' = Nodes /\ Calls' = Calls
    BY <1>1 DEF Nodes, Calls
  <2>2. GoodCalls(stack') /\ Len(stack') = 1 /\ stack'[1] = c /\ stack' # <<>>
    BY <1>1, <2>1 DEF SymbolInv, StackTyped, GoodCalls
  <2>3. SubSeq(stack', 1, 0) = <<>>
    BY SubSeqEmpty
  <2>4. Pending(stack') = CallOutput(stack'[Len(stack')], Len(stack') - 1)
                            \o Pending(SubSeq(stack', 1, Len(stack') - 1))
    BY <1>3, <2>2, PendingCons
  <2>5. Pending(<<>>) = <<>>
    BY <1>1, <1>4
  <2>6. Pending(stack') = CallOutput(c, 0) \o <<>>
    <3>1. Len(stack') - 1 = 0
      BY <2>2
    <3>2. QED
      BY <2>2, <2>3, <2>4, <2>5, <3>1
  <2>7. QED
    BY <1>2, <1>4, <2>6, ConcatEmptySeq
<1>6. reason' = Nothing => emitted' \o (Pending(stack') \o OutputOf(todo')) = FullOutput
  <2>1. <<>> \o OutputOf(todo) = OutputOf(todo)
    BY <1>4, ConcatEmptySeq
  <2>2. QED
    BY <1>1, <1>4, <1>5, <2>1 DEF Accounted
<1>7. QED
  BY <1>1, <1>6, AccountedThen

\* An extraction ends with nothing left to emit, unless it was cut.
LEMMA EndAccounted ==
  ASSUME SymbolInv, SymbolInv', Accounted, EndExtraction
  PROVE  Accounted'
<1>1. UNCHANGED <<file, todo, stack, emitted, reason>> /\ stack = <<>> /\ (todo = <<>> \/ exhausted)
  BY DEF EndExtraction, accumulator
<1>2. QED
  BY <1>1, GoodCallsFacts, AccountedThen DEF Accounted

\* Everything is still to come, and nothing is on the path.
LEMMA InitAccounted == SymbolInit => Accounted /\ Linked /\ CycleIsReal
<1> SUFFICES ASSUME SymbolInit PROVE Accounted /\ Linked /\ CycleIsReal
  OBVIOUS
<1>1. SymbolInv /\ stack = <<>> /\ todo = file.products /\ emitted = <<>> /\ ~extracted /\ reason = Nothing
  BY InitHolds DEF SymbolInit
<1>2. Linked /\ CycleIsReal
  BY <1>1 DEF Linked, CycleIsReal, Nothing
<1>3. Pending(stack) = <<>> /\ OutputOf(todo) \in Seq(Outs)
  <2>1. WalkTyped
    BY <1>1 DEF SymbolInv
  <2>2. QED
    BY <1>1, <2>1, GoodCallsFacts, PendingCons
<1>4. <<>> \o (<<>> \o OutputOf(todo)) = OutputOf(todo)
  BY <1>3, ConcatEmptySeq
<1>5. Accounted
  BY <1>1, <1>3, <1>4 DEF Accounted, FullOutput
<1>6. QED
  BY <1>2, <1>5

OutputInv == SymbolInv /\ Linked /\ CycleIsReal /\ Accounted

\* Every step keeps the balance and the links of the path.
LEMMA OutputStep == OutputInv /\ [SymbolNext]_symbolVars => OutputInv'
<1> SUFFICES ASSUME OutputInv, [SymbolNext]_symbolVars PROVE OutputInv'
  OBVIOUS
<1> USE DEF OutputInv
<1>1. SymbolInv'
  BY StepHolds
<1>2. CASE UNCHANGED symbolVars
  <2>1. UNCHANGED <<file, todo, stack, emitted, reason, extracted>>
    BY <1>2 DEF symbolVars, accumulator
  <2>2. Accounted'
    BY <1>1, <2>1, AccountedThen DEF Accounted
  <2>3. Linked'
    BY <2>1 DEF Linked, Own, References, Closed, Nodes
  <2>4. CycleIsReal'
    BY <2>1 DEF CycleIsReal, References, Closed, OnCycle, Nodes
  <2>5. QED
    BY <1>1, <2>2, <2>3, <2>4
<1>3. CASE SymbolNext
  <2>1. Accounted'
    BY <1>1, <1>3, NextProductAccounted, GridPushAccounted, EndAccounted, ReportAccounted,
       LeafAccounted, DescendAccounted, ReturnAccounted DEF SymbolNext
  <2>2. UNCHANGED file
    BY <1>3 DEF SymbolNext, NextProduct, GridPush, EndExtraction, TooDeep, Full, Spent, Cycle,
                Emit, Skip, DescendSet, DescendMapped, Return
  <2>3. Linked'
    <3>1. CASE GridPush \/ TooDeep \/ Full \/ Spent \/ Cycle \/ Emit \/ Skip
      <4>1. stack # <<>> /\ Top.rest # <<>> /\ stack' = Turned
        BY <3>1 DEF GridPush, TooDeep, Full, Spent, Cycle, Emit, Skip, Enter, Walking, Calling
      <4>2. QED
        BY <2>2, <4>1, TurnKeepsLinked DEF SymbolInv
    <3>2. CASE EndExtraction
      BY <2>2, <3>2 DEF EndExtraction, Linked, Own, References, Closed, Nodes
    <3>3. QED
      BY <1>3, <3>1, <3>2, NextProductLinked, DescendKeepsLinked, ReturnKeepsLinked DEF SymbolNext
  <2>4. CycleIsReal'
    <3>1. (\E x \in Nodes : OnCycle(x)) => (\E x \in Nodes : OnCycle(x))'
      BY <2>2 DEF OnCycle, References, Closed, Nodes
    <3>2. CASE Cycle
      BY <3>1, <3>2, CycleFound DEF CycleIsReal
    <3>3. CASE ~Cycle
      <4>1. reason' = "item-cycle" => reason = "item-cycle"
        BY <1>3, <3>3
        DEF SymbolNext, NextProduct, GridPush, EndExtraction, TooDeep, Full, Spent, Emit, Skip,
            DescendSet, DescendMapped, Return, TryPush, Report, accumulator
      <4>2. QED
        BY <3>1, <4>1 DEF CycleIsReal
    <3>4. QED
      BY <3>2, <3>3
  <2>5. QED
    BY <1>1, <2>1, <2>3, <2>4
<1>4. QED
  BY <1>2, <1>3

\* The balance and the links of the path hold throughout.
LEMMA OutputHolds == SymbolSpec => []OutputInv
<1>1. SymbolInit => OutputInv
  BY InitHolds, InitAccounted DEF OutputInv
<1>2. QED
  BY <1>1, OutputStep, PTL DEF SymbolSpec

\* An extraction that reports nothing emitted every primitive of the file, once
\* for each path that leads to it, in order (SymbolicTruncationReason).
THEOREM SymbolNothingLost == SymbolSpec => []NothingLost
<1>1. OutputInv => NothingLost
  <2> SUFFICES ASSUME OutputInv, extracted, reason = Nothing PROVE emitted = FullOutput
    BY DEF NothingLost
  <2>1. stack = <<>> /\ todo = <<>> /\ emitted \o (Pending(<<>>) \o OutputOf(<<>>)) = FullOutput
    BY DEF OutputInv, Accounted
  <2>2. Pending(<<>>) = <<>> /\ OutputOf(<<>>) = <<>>
    BY DEF Pending, OutputOf, FlattenSeq
  <2>3. QED
    BY <2>1, <2>2, GoodCallsFacts, ConcatEmptySeq DEF OutputInv
<1>2. QED
  BY <1>1, OutputHolds, PTL

\* A file that is reported as cyclic has an item that its own references lead
\* back to (SymbolicTruncationReason::ItemCycle).
THEOREM SymbolCycleIsReal == SymbolSpec => []CycleIsReal
<1>1. OutputInv => CycleIsReal
  BY DEF OutputInv
<1>2. QED
  BY <1>1, OutputHolds, PTL
=============================================================================
