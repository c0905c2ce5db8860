------------------------- MODULE ElementPool_proofs -------------------------
(***************************************************************************)
(* For every scene, its caps included, and every number of workers: what the *)
(* shared cache of mapped sources serves is whole, and cut exactly unless    *)
(* there is a large brep in it, or the cap of an operation is below that of  *)
(* the element and a cheap cut can hide that a costly one tripped.          *)
(***************************************************************************)
EXTENDS ElementPool, SequenceTheorems, TLAPS

FrameSet(m) ==
    [of : DOMAIN m.items, at : Nat \ {0}, solids : SUBSET ((DOMAIN m.items) \X Nat),
     exact : BOOLEAN, short : BOOLEAN]

\* What a frame that says it is not short has merged of its first items.
MergedSoFar(m, f) ==
    ~f.short =>
        \A k \in 1..(f.at - 1) :
            IF m.items[f.of][k].kind = "mapped"
            THEN Whole(m, m.items[f.of][k].source) \subseteq f.solids
            ELSE m.items[f.of][k].kind # "broken" => <<f.of, k>> \in f.solids

\* And the sources it used are sources.
UsedSoFar(m, f) ==
    ~f.short =>
        \A k \in 1..(f.at - 1) :
            m.items[f.of][k].kind = "mapped" => m.items[f.of][k].source \in SourcesOf(m)

\* A cut of source s was given up: the account of the element still tells, or
\* that of the operation does until a cheap cut of s begins anew.
GivenUp(m, s, op, count) ==
    \/ ElementSpent(m, count)
    \/ OpTripsFirst(m) /\ Costly(m, s) /\ (OpSpent(m, op) \/ Cheap(m, s))

\* A cut that was given up is still on an account of the thread.
AccountedFor(m, f, op, count) ==
    f.of \notin m.elements => f.exact \/ Joins(m, f.of) \/ GivenUp(m, f.of, op, count)

FrameOK(m, f, op, count) ==
    /\ f.at <= Len(m.items[f.of]) + 1
    /\ MergedSoFar(m, f) /\ UsedSoFar(m, f) /\ AccountedFor(m, f, op, count)

\* Frame f waits for frame g, the mapped source it uses or an element at its join.
Waits(m, f, g) ==
    /\ f.at <= Len(m.items[f.of])
    /\ IF g.of \in m.elements
       THEN m.items[f.of][f.at].kind = "brep"
       ELSE m.items[f.of][f.at].kind = "mapped" /\ m.items[f.of][f.at].source = g.of

\* A source is made of all that is meshed on top of it, or a join lies between.
Under(m, f, g) ==
    f.of \notin m.elements => Joins(m, f.of) \/ g.of \in MadeOf(m, f.of)

StackOK(m, q, op, count) ==
    /\ q \in Seq(FrameSet(m)) /\ op \in Nat /\ count \in Nat
    /\ q # <<>> => q[1].of \in m.elements
    /\ \A k \in 1..Len(q) : FrameOK(m, q[k], op, count)
    /\ \A k \in 1..(Len(q) - 1) : Waits(m, q[k], q[k + 1])
    /\ \A j, k \in 1..Len(q) : j < k => Under(m, q[j], q[k])

\* A step meshes in x and brings the accounts from op and c to p and d: the one
\* of the operation tells as much as before, or a cheap cut of x began anew.
Onward(m, x, op, c, p, d) ==
    /\ c <= d
    /\ \/ p = op \/ OpSpent(m, p) \/ ElementSpent(m, d)
       \/ x \notin m.elements => Cheap(m, x)

MeshSet(m) == [solids : SUBSET ((DOMAIN m.items) \X Nat), exact : BOOLEAN]

SharedOK(m, c) ==
    /\ DOMAIN c \subseteq SourcesOf(m)
    /\ \A s \in DOMAIN c :
         /\ c[s] \in MeshSet(m)
         /\ Whole(m, s) \subseteq c[s].solids
         /\ c[s].exact \/ Joins(m, s) \/ Masks(m, s)

PoolInv ==
    /\ scene \in Scenes /\ waiting \subseteq scene.elements
    /\ frames \in [PoolWorkers -> Seq(FrameSet(scene))]
    /\ opCount \in [PoolWorkers -> Nat] /\ elemCount \in [PoolWorkers -> Nat]
    /\ \A w \in PoolWorkers : StackOK(scene, frames[w], opCount[w], elemCount[w])
    /\ SharedOK(scene, shared)
-----------------------------------------------------------------------------
(* Scenes *)

LEMMA SceneFacts ==
  ASSUME NEW m \in Scenes
  PROVE  /\ m.caps.op \in Nat /\ m.caps.element \in Nat
         /\ m.elements \subseteq DOMAIN m.items
         /\ \A x \in DOMAIN m.items :
              /\ Len(m.items[x]) \in Nat /\ DOMAIN m.items[x] = 1..Len(m.items[x])
              /\ \A k \in 1..Len(m.items[x]) :
                   m.items[x][k].kind \in Kinds /\ m.items[x][k].cost \in Nat
<1>1. \A x \in DOMAIN m.items :
        m.items[x] \in Seq({m.items[x][k] : k \in DOMAIN m.items[x]})
  BY ScenesAssumption
<1>2. \A x \in DOMAIN m.items :
        Len(m.items[x]) \in Nat /\ DOMAIN m.items[x] = 1..Len(m.items[x])
  BY <1>1
<1>. QED
  BY <1>2, ScenesAssumption

LEMMA MadeOfItself ==
  ASSUME NEW m, NEW s \in SourcesOf(m)
  PROVE  s \in MadeOf(m, s)
BY DEF MadeOf

LEMMA MadeOfClosed ==
  ASSUME NEW m, NEW s
  PROVE  MadeOf(m, s) \subseteq SourcesOf(m) /\ UseClosed(m, MadeOf(m, s))
BY DEF MadeOf, UseClosed

\* What s is made of is made of nothing else.
LEMMA MadeOfWithin ==
  ASSUME NEW m, NEW s, NEW x \in MadeOf(m, s)
  PROVE  MadeOf(m, x) \subseteq MadeOf(m, s)
<1>1. MadeOf(m, s) \in SUBSET SourcesOf(m) /\ UseClosed(m, MadeOf(m, s))
  BY MadeOfClosed
<1>. QED
  BY <1>1 DEF MadeOf

LEMMA MadeOfUsed ==
  ASSUME NEW m, NEW s \in SourcesOf(m), NEW k \in DOMAIN m.items[s],
         m.items[s][k].kind = "mapped", m.items[s][k].source \in SourcesOf(m)
  PROVE  m.items[s][k].source \in MadeOf(m, s)
BY MadeOfItself, MadeOfClosed DEF UseClosed

\* A source is made of itself and of what the sources it uses are made of.
LEMMA MadeOfUnfolds ==
  ASSUME NEW m, NEW s \in SourcesOf(m), NEW x \in MadeOf(m, s), x # s
  PROVE  \E k \in DOMAIN m.items[s] :
            /\ m.items[s][k].kind = "mapped" /\ m.items[s][k].source \in SourcesOf(m)
            /\ x \in MadeOf(m, m.items[s][k].source)
<1>. DEFINE Used == {k \in DOMAIN m.items[s] :
                       m.items[s][k].kind = "mapped" /\ m.items[s][k].source \in SourcesOf(m)}
            R == {s} \cup UNION {MadeOf(m, m.items[s][k].source) : k \in Used}
<1>1. R \in SUBSET SourcesOf(m)
  BY MadeOfClosed
<1>2. UseClosed(m, R)
  <2> SUFFICES ASSUME NEW y \in R, NEW k \in DOMAIN m.items[y],
                      m.items[y][k].kind = "mapped", m.items[y][k].source \in SourcesOf(m)
               PROVE  m.items[y][k].source \in R
    BY DEF UseClosed
  <2>1. CASE y = s
    BY <2>1, MadeOfItself
  <2>2. CASE y # s
    <3>1. PICK j \in Used : y \in MadeOf(m, m.items[s][j].source)
      BY <2>2
    <3>. QED
      BY <3>1, MadeOfClosed DEF UseClosed
  <2>. QED
    BY <2>1, <2>2
<1>3. x \in R
  BY <1>1, <1>2 DEF MadeOf
<1>. QED
  BY <1>3

LEMMA JoinsWithin ==
  ASSUME NEW m, NEW s, NEW x \in MadeOf(m, s), Joins(m, x)
  PROVE  Joins(m, s)
BY MadeOfWithin DEF Joins

LEMMA CostsWithin ==
  ASSUME NEW m, NEW s, NEW x \in MadeOf(m, s)
  PROVE  (Costly(m, x) => Costly(m, s)) /\ (Cheap(m, x) => Cheap(m, s))
<1>1. MadeOf(m, x) \subseteq MadeOf(m, s)
  BY MadeOfWithin
<1>2. CutCosts(m, x) \subseteq CutCosts(m, s)
  BY <1>1 DEF CutCosts
<1>. QED
  BY <1>2 DEF Costly, Cheap

LEMMA CostHere ==
  ASSUME NEW m, NEW s \in SourcesOf(m), NEW k \in DOMAIN m.items[s], m.items[s][k].kind = "cut"
  PROVE  m.items[s][k].cost \in CutCosts(m, s)
BY MadeOfItself DEF CutCosts

\* What was given up in a part of s was given up in s.
LEMMA GivenUpWithin ==
  ASSUME NEW m, NEW s, NEW x \in MadeOf(m, s), NEW op, NEW c, GivenUp(m, x, op, c)
  PROVE  GivenUp(m, s, op, c)
BY CostsWithin DEF GivenUp

\* And the accounts go on to tell.
LEMMA GivenUpStays ==
  ASSUME NEW m \in Scenes, NEW s, NEW x \in MadeOf(m, s),
         NEW op \in Nat, NEW c \in Nat, NEW p \in Nat, NEW d \in Nat,
         Onward(m, x, op, c, p, d), GivenUp(m, s, op, c)
  PROVE  GivenUp(m, s, p, d)
<1>1. m.caps.element \in Nat /\ c <= d /\ x \notin m.elements
  BY SceneFacts, MadeOfClosed DEF Onward, SourcesOf
<1>2. ElementSpent(m, c) => ElementSpent(m, d)
  BY <1>1 DEF ElementSpent
<1>3. p = op \/ OpSpent(m, p) \/ ElementSpent(m, d) \/ Cheap(m, s)
  BY <1>1, CostsWithin DEF Onward
<1>. QED
  BY <1>2, <1>3 DEF GivenUp

LEMMA SameAccounts ==
  ASSUME NEW m, NEW x, NEW op, NEW c \in Nat
  PROVE  Onward(m, x, op, c, op, c)
BY DEF Onward

LEMMA JoinsHere ==
  ASSUME NEW m, NEW s \in SourcesOf(m), NEW k \in DOMAIN m.items[s], m.items[s][k].kind = "brep"
  PROVE  Joins(m, s)
BY MadeOfItself DEF Joins

\* A source that has been meshed to its end and is not short is whole.
LEMMA WholeAtTheEnd ==
  ASSUME NEW m \in Scenes, NEW f \in FrameSet(m), f.of \in SourcesOf(m),
         MergedSoFar(m, f), UsedSoFar(m, f), ~f.short, f.at = Len(m.items[f.of]) + 1
  PROVE  Whole(m, f.of) \subseteq f.solids
<1>. DEFINE s == f.of
<1>1. DOMAIN m.items[s] = 1..(f.at - 1)
  BY SceneFacts DEF SourcesOf, FrameSet
<1>. SUFFICES ASSUME NEW x \in MadeOf(m, s), NEW k \in DOMAIN m.items[x],
                     m.items[x][k].kind \notin {"mapped", "broken"}
              PROVE  <<x, k>> \in f.solids
  BY DEF Whole
<1>2. CASE x = s
  BY <1>1, <1>2 DEF MergedSoFar
<1>3. CASE x # s
  <2>1. PICK j \in DOMAIN m.items[s] :
          /\ m.items[s][j].kind = "mapped" /\ m.items[s][j].source \in SourcesOf(m)
          /\ x \in MadeOf(m, m.items[s][j].source)
    BY <1>3, MadeOfUnfolds
  <2>2. <<x, k>> \in Whole(m, m.items[s][j].source)
    BY <2>1 DEF Whole
  <2>. QED
    BY <1>1, <2>1, <2>2 DEF MergedSoFar
<1>. QED
  BY <1>2, <1>3
-----------------------------------------------------------------------------
(* Frames and stacks *)

\* A frame goes past one item and stays what it should be.
LEMMA FrameStep ==
  ASSUME NEW m \in Scenes, NEW f \in FrameSet(m), NEW g \in FrameSet(m),
         NEW op \in Nat, NEW c \in Nat, NEW p \in Nat, NEW d \in Nat,
         Onward(m, f.of, op, c, p, d), FrameOK(m, f, op, c), f.at <= Len(m.items[f.of]),
         g.of = f.of, g.at = f.at + 1, f.solids \subseteq g.solids,
         f.short => g.short,
         ~g.short => IF m.items[f.of][f.at].kind = "mapped"
                     THEN /\ m.items[f.of][f.at].source \in SourcesOf(m)
                          /\ Whole(m, m.items[f.of][f.at].source) \subseteq g.solids
                     ELSE m.items[f.of][f.at].kind # "broken" => <<f.of, f.at>> \in g.solids,
         f.of \notin m.elements /\ f.exact =>
            g.exact \/ Joins(m, f.of) \/ GivenUp(m, f.of, p, d)
  PROVE  FrameOK(m, g, p, d)
<1>. f.at \in Nat \ {0} /\ Len(m.items[f.of]) \in Nat
  BY SceneFacts DEF FrameSet
<1>1. g.at <= Len(m.items[g.of]) + 1
  OBVIOUS
<1>2. 1..(g.at - 1) = 1..(f.at - 1) \cup {f.at}
  OBVIOUS
<1>3. MergedSoFar(m, g)
  BY <1>2 DEF FrameOK, MergedSoFar
<1>4. UsedSoFar(m, g)
  BY <1>2 DEF FrameOK, UsedSoFar
<1>5. AccountedFor(m, g, p, d)
  <2>. SUFFICES ASSUME f.of \notin m.elements PROVE g.exact \/ Joins(m, f.of) \/ GivenUp(m, f.of, p, d)
    BY DEF AccountedFor
  <2>1. f.of \in MadeOf(m, f.of)
    BY MadeOfItself DEF FrameSet, SourcesOf
  <2>2. f.exact \/ Joins(m, f.of) \/ GivenUp(m, f.of, op, c)
    BY DEF FrameOK, AccountedFor
  <2>3. CASE GivenUp(m, f.of, op, c)
    BY <2>1, <2>3, GivenUpStays
  <2>. QED
    BY <2>2, <2>3
<1>. QED
  BY <1>1, <1>3, <1>4, <1>5 DEF FrameOK

LEMMA Front ==
  ASSUME NEW S, NEW q \in Seq(S), NEW k \in 1..Len(q)
  PROVE  /\ SubSeq(q, 1, k - 1) \in Seq(S) /\ Len(SubSeq(q, 1, k - 1)) = k - 1
         /\ \A j \in 1..(k - 1) : SubSeq(q, 1, k - 1)[j] = q[j]
<1>1. SubSeq(q, 1, k - 1) \in Seq(S) /\ Len(SubSeq(q, 1, k - 1)) = k - 1
  OBVIOUS
<1>2. \A j \in 1..(k - 1) : SubSeq(q, 1, k - 1)[j] = q[j]
  OBVIOUS
<1>. QED
  BY <1>1, <1>2

LEMMA FrontOfFront ==
  ASSUME NEW S, NEW q \in Seq(S), NEW k \in Nat \ {0}, k + 1 = Len(q)
  PROVE  SubSeq(SubSeq(q, 1, k), 1, k - 1) = SubSeq(q, 1, k - 1)
<1>. DEFINE p == SubSeq(q, 1, k)
            a == SubSeq(p, 1, k - 1)
            b == SubSeq(q, 1, k - 1)
<1>1. p \in Seq(S) /\ Len(p) = k /\ \A j \in 1..k : p[j] = q[j]
  <2>1. k + 1 \in 1..Len(q) /\ (k + 1) - 1 = k
    OBVIOUS
  <2>. QED
    BY <2>1, Front
<1>2. b \in Seq(S) /\ Len(b) = k - 1 /\ \A j \in 1..(k - 1) : b[j] = q[j]
  <2>1. k \in 1..Len(q)
    OBVIOUS
  <2>. QED
    BY <2>1, Front
<1>. HIDE DEF p, b
<1>3. a \in Seq(S) /\ Len(a) = k - 1 /\ \A j \in 1..(k - 1) : a[j] = p[j]
  <2>1. k \in 1..Len(p)
    BY <1>1
  <2>. QED
    BY <1>1, <2>1, Front
<1>. HIDE DEF a
<1>4. \A j \in 1..Len(a) : a[j] = b[j]
  BY <1>1, <1>2, <1>3
<1>5. a = b
  BY <1>2, <1>3, <1>4, SeqEqual
<1>. QED
  BY <1>5 DEF a, b, p

\* Sequence q up to k, with f there.
CutTo(q, k, f) == Append(SubSeq(q, 1, k - 1), f)

LEMMA Replaced ==
  ASSUME NEW S, NEW q \in Seq(S), NEW k \in 1..Len(q), NEW f \in S
  PROVE  /\ CutTo(q, k, f) \in Seq(S) /\ Len(CutTo(q, k, f)) = k /\ CutTo(q, k, f)[k] = f
         /\ \A j \in 1..(k - 1) : CutTo(q, k, f)[j] = q[j]
<1>. DEFINE r == SubSeq(q, 1, k - 1)
<1>1. r \in Seq(S) /\ Len(r) = k - 1 /\ \A j \in 1..(k - 1) : r[j] = q[j]
  BY Front
<1>. HIDE DEF r
<1>2. /\ Append(r, f) \in Seq(S) /\ Len(Append(r, f)) = k /\ Append(r, f)[k] = f
      /\ \A j \in 1..(k - 1) : Append(r, f)[j] = r[j]
  BY <1>1
<1>. QED
  BY <1>1, <1>2 DEF r, CutTo

\* The innermost frame goes on, and the accounts of the thread with it.
LEMMA StackAdvances ==
  ASSUME NEW m \in Scenes, NEW q, NEW op, NEW c, StackOK(m, q, op, c), q # <<>>,
         NEW p \in Nat, NEW d \in Nat, Onward(m, q[Len(q)].of, op, c, p, d),
         NEW f \in FrameSet(m), f.of = q[Len(q)].of, FrameOK(m, f, p, d)
  PROVE  StackOK(m, CutTo(q, Len(q), f), p, d)
<1>. DEFINE n == Len(q)
            r == CutTo(q, n, f)
<1>1. q \in Seq(FrameSet(m)) /\ op \in Nat /\ c \in Nat /\ n \in 1..n
  BY DEF StackOK
<1>2. /\ r \in Seq(FrameSet(m)) /\ Len(r) = n /\ r[n] = f
      /\ \A j \in 1..(n - 1) : r[j] = q[j]
  <2>1. q \in Seq(FrameSet(m)) /\ n \in 1..Len(q) /\ f \in FrameSet(m)
    BY <1>1
  <2>2. \A k \in 1..Len(q) : \A j \in 1..(k - 1) : CutTo(q, k, f)[j] = q[j]
    BY <2>1, Replaced
  <2>3. r \in Seq(FrameSet(m)) /\ Len(r) = n /\ r[n] = f
    BY <2>1, Replaced
  <2>. QED
    BY <2>1, <2>2, <2>3
<1>. HIDE DEF r
<1>3. \A k \in 1..n : r[k].of = q[k].of
  BY <1>1, <1>2
<1>4. r[1].of \in m.elements
  BY <1>1, <1>3 DEF StackOK
<1>5. ASSUME NEW k \in 1..n PROVE FrameOK(m, r[k], p, d)
  <2>1. CASE k = n
    BY <1>2, <2>1
  <2>2. CASE k # n
    <3>1. r[k] = q[k] /\ FrameOK(m, q[k], op, c) /\ k < n
      BY <1>1, <1>2, <2>2 DEF StackOK
    <3>2. q[k].of \notin m.elements => Joins(m, q[k].of) \/ q[n].of \in MadeOf(m, q[k].of)
      BY <1>1, <3>1 DEF StackOK, Under
    <3>3. q[k].of \notin m.elements /\ GivenUp(m, q[k].of, op, c) =>
            Joins(m, q[k].of) \/ GivenUp(m, q[k].of, p, d)
      BY <1>1, <3>2, GivenUpStays
    <3>. QED
      BY <3>1, <3>3 DEF FrameOK, AccountedFor
  <2>. QED
    BY <2>1, <2>2
<1>6. ASSUME NEW k \in 1..(n - 1) PROVE Waits(m, r[k], r[k + 1])
  <2>1. Waits(m, q[k], q[k + 1]) /\ r[k] = q[k] /\ r[k + 1].of = q[k + 1].of
    BY <1>1, <1>2, <1>3 DEF StackOK
  <2>. QED
    BY <2>1 DEF Waits
<1>7. ASSUME NEW j \in 1..n, NEW k \in 1..n, j < k PROVE Under(m, r[j], r[k])
  BY <1>1, <1>3, <1>7 DEF StackOK, Under
<1>. QED
  BY <1>1, <1>2, <1>4, <1>5, <1>6, <1>7 DEF StackOK, r

LEMMA StackPops ==
  ASSUME NEW m \in Scenes, NEW q, NEW op, NEW c, StackOK(m, q, op, c), q # <<>>
  PROVE  LET r == SubSeq(q, 1, Len(q) - 1)
         IN  StackOK(m, r, op, c) /\ Len(r) = Len(q) - 1 /\ \A j \in 1..Len(r) : r[j] = q[j]
<1>. DEFINE r == SubSeq(q, 1, Len(q) - 1)
<1>1. q \in Seq(FrameSet(m)) /\ Len(q) \in Nat \ {0}
  BY DEF StackOK
<1>2. r \in Seq(FrameSet(m)) /\ Len(r) = Len(q) - 1 /\ \A j \in 1..(Len(q) - 1) : r[j] = q[j]
  <2>1. Len(q) \in 1..Len(q)
    BY <1>1
  <2>. QED
    BY <1>1, <2>1, Front
<1>3. \A j \in 1..Len(r) : r[j] = q[j]
  BY <1>2
<1>. HIDE DEF r
<1>4. r # <<>> => r[1].of \in m.elements
  BY <1>1, <1>2, <1>3 DEF StackOK
<1>5. \A k \in 1..Len(r) : FrameOK(m, r[k], op, c)
  BY <1>1, <1>2, <1>3 DEF StackOK
<1>6. \A k \in 1..(Len(r) - 1) : Waits(m, r[k], r[k + 1])
  <2>. SUFFICES ASSUME NEW k \in 1..(Len(r) - 1) PROVE Waits(m, r[k], r[k + 1])
    OBVIOUS
  <2>1. Waits(m, q[k], q[k + 1])
    BY <1>1, <1>2 DEF StackOK
  <2>2. r[k] = q[k] /\ r[k + 1] = q[k + 1]
    BY <1>1, <1>2, <1>3
  <2>. QED
    BY <2>1, <2>2
<1>7. \A j, k \in 1..Len(r) : j < k => Under(m, r[j], r[k])
  <2>. SUFFICES ASSUME NEW j \in 1..Len(r), NEW k \in 1..Len(r), j < k PROVE Under(m, r[j], r[k])
    OBVIOUS
  <2>1. j \in 1..Len(q) /\ k \in 1..Len(q)
    BY <1>1, <1>2
  <2>2. Under(m, q[j], q[k])
    BY <2>1 DEF StackOK
  <2>. QED
    BY <1>3, <2>2
<1>8. StackOK(m, r, op, c)
  BY <1>2, <1>4, <1>5, <1>6, <1>7 DEF StackOK
<1>. QED
  BY <1>2, <1>3, <1>8 DEF r

LEMMA FreshFrame ==
  ASSUME NEW m \in Scenes, NEW x \in DOMAIN m.items, NEW op, NEW c
  PROVE  NewFrame(x) \in FrameSet(m) /\ FrameOK(m, NewFrame(x), op, c)
<1>1. NewFrame(x) \in FrameSet(m)
  BY DEF NewFrame, FrameSet
<1>2. Len(m.items[x]) \in Nat /\ 1..(NewFrame(x).at - 1) = {}
  BY SceneFacts DEF NewFrame
<1>. QED
  BY <1>1, <1>2 DEF NewFrame, FrameOK, MergedSoFar, UsedSoFar, AccountedFor

\* A mapped source or a stolen element is meshed on top of the innermost frame.
\* An element starts the count anew: what lies below it has a join.
LEMMA StackPushes ==
  ASSUME NEW m \in Scenes, NEW q, NEW op, NEW c, StackOK(m, q, op, c), q # <<>>,
         NEW x \in DOMAIN m.items, Waits(m, q[Len(q)], NewFrame(x)),
         NEW d, IF x \in m.elements THEN d = 0 ELSE d = c
  PROVE  StackOK(m, Append(q, NewFrame(x)), op, d)
<1>. DEFINE n == Len(q)
            g == NewFrame(x)
            r == Append(q, g)
<1>1. q \in Seq(FrameSet(m)) /\ op \in Nat /\ c \in Nat /\ n \in Nat \ {0} /\ d \in Nat
  BY DEF StackOK
<1>2. g \in FrameSet(m) /\ FrameOK(m, g, op, d) /\ g.of = x
  BY FreshFrame DEF NewFrame
<1>. HIDE DEF g
<1>3. /\ r \in Seq(FrameSet(m)) /\ Len(r) = n + 1 /\ r[n + 1] = g
      /\ \A j \in 1..n : r[j] = q[j]
  BY <1>1, <1>2
<1>. HIDE DEF r
<1>4. Waits(m, q[n], g) /\ q[n] \in FrameSet(m)
  BY <1>1 DEF g
<1>5. q[n].of \in DOMAIN m.items /\ q[n].at \in DOMAIN m.items[q[n].of]
  BY <1>4, SceneFacts, SMTT(20) DEF FrameSet, Waits
<1>6. q[n].of \notin m.elements =>
        IF x \in m.elements THEN Joins(m, q[n].of) ELSE x \in MadeOf(m, q[n].of)
  BY <1>2, <1>4, <1>5, JoinsHere, MadeOfUsed DEF Waits, SourcesOf
<1>7. ASSUME NEW j \in 1..n
      PROVE  q[j].of \notin m.elements =>
               Joins(m, q[j].of) \/ (x \notin m.elements /\ x \in MadeOf(m, q[j].of))
  <2>1. CASE j = n
    BY <1>6, <2>1
  <2>2. CASE j # n
    <3>1. q[j].of \notin m.elements => Joins(m, q[j].of) \/ q[n].of \in MadeOf(m, q[j].of)
      BY <1>1, <2>2 DEF StackOK, Under
    <3>2. q[j].of \notin m.elements /\ q[n].of \in MadeOf(m, q[j].of) => q[n].of \notin m.elements
      BY MadeOfClosed DEF SourcesOf
    <3>. QED
      BY <1>6, <3>1, <3>2, JoinsWithin, MadeOfWithin
  <2>. QED
    BY <2>1, <2>2
<1>8. ASSUME NEW k \in 1..(n + 1) PROVE FrameOK(m, r[k], op, d)
  <2>1. CASE k = n + 1
    BY <1>2, <1>3, <2>1
  <2>2. CASE k # n + 1
    <3>1. r[k] = q[k] /\ FrameOK(m, q[k], op, c) /\ k \in 1..n
      BY <1>1, <1>3, <2>2 DEF StackOK
    <3>2. AccountedFor(m, q[k], op, d)
      BY <1>7, <3>1 DEF FrameOK, AccountedFor
    <3>. QED
      BY <3>1, <3>2 DEF FrameOK
  <2>. QED
    BY <2>1, <2>2
<1>9. ASSUME NEW k \in 1..n PROVE Waits(m, r[k], r[k + 1])
  <2>1. CASE k = n
    BY <1>1, <1>3, <1>4, <2>1
  <2>2. CASE k # n
    <3>1. k \in 1..(n - 1) /\ r[k] = q[k] /\ r[k + 1] = q[k + 1]
      BY <1>1, <1>3, <2>2
    <3>. QED
      BY <3>1 DEF StackOK
  <2>. QED
    BY <2>1, <2>2
<1>10. ASSUME NEW j \in 1..(n + 1), NEW k \in 1..(n + 1), j < k PROVE Under(m, r[j], r[k])
  <2>1. CASE k = n + 1
    BY <1>1, <1>2, <1>3, <1>7, <1>10, <2>1 DEF Under
  <2>2. CASE k # n + 1
    <3>1. j \in 1..n /\ k \in 1..n
      BY <1>1, <1>10, <2>2
    <3>2. Under(m, q[j], q[k])
      BY <1>10, <3>1 DEF StackOK
    <3>. QED
      BY <1>3, <3>1, <3>2
  <2>. QED
    BY <2>1, <2>2
<1>11. r[1].of \in m.elements
  BY <1>1, <1>3 DEF StackOK
<1>. QED
  BY <1>1, <1>3, <1>8, <1>9, <1>10, <1>11 DEF StackOK, r, g
-----------------------------------------------------------------------------
(* Steps *)

LEMMA InnermostFacts ==
  ASSUME PoolInv, NEW w \in PoolWorkers, frames[w] # <<>>
  PROVE  /\ Innermost(w) = frames[w][Len(frames[w])] /\ Innermost(w) \in FrameSet(scene)
         /\ FrameOK(scene, Innermost(w), opCount[w], elemCount[w])
         /\ Innermost(w).of \in DOMAIN scene.items /\ Innermost(w).at \in Nat \ {0}
         /\ Len(frames[w]) \in Nat \ {0} /\ opCount[w] \in Nat /\ elemCount[w] \in Nat
<1>1. StackOK(scene, frames[w], opCount[w], elemCount[w]) /\ frames[w] \in Seq(FrameSet(scene))
  BY DEF PoolInv
<1>2. Len(frames[w]) \in Nat \ {0}
  BY <1>1
<1>3. Innermost(w) = frames[w][Len(frames[w])] /\ Innermost(w) \in FrameSet(scene)
  BY <1>1, <1>2 DEF Innermost
<1>4. Innermost(w).of \in DOMAIN scene.items /\ Innermost(w).at \in Nat \ {0}
  BY <1>3 DEF FrameSet
<1>5. /\ opCount[w] \in Nat /\ elemCount[w] \in Nat
      /\ \A k \in 1..Len(frames[w]) : FrameOK(scene, frames[w][k], opCount[w], elemCount[w])
  BY <1>1 DEF StackOK
<1>. QED
  BY <1>2, <1>3, <1>4, <1>5

LEMMA NextItemFacts ==
  ASSUME PoolInv, NEW w \in PoolWorkers, ItemsLeft(w)
  PROVE  /\ frames[w] # <<>> /\ Innermost(w).at <= Len(scene.items[Innermost(w).of])
         /\ Innermost(w).at \in DOMAIN scene.items[Innermost(w).of]
         /\ NextItem(w) = scene.items[Innermost(w).of][Innermost(w).at]
         /\ NextItem(w).cost \in Nat
<1>1. frames[w] # <<>> /\ Innermost(w).at <= Len(scene.items[Innermost(w).of])
  BY DEF ItemsLeft
<1>2. Innermost(w).of \in DOMAIN scene.items /\ Innermost(w).at \in Nat \ {0}
  BY <1>1, InnermostFacts
<1>3. scene \in Scenes
  BY DEF PoolInv
<1>4. Innermost(w).at \in 1..Len(scene.items[Innermost(w).of])
  BY <1>1, <1>2, <1>3, SceneFacts
<1>. QED
  BY <1>1, <1>2, <1>3, <1>4, SceneFacts DEF NextItem

\* A step of one worker changes its stack and its counts only.
LEMMA OneWorker ==
  ASSUME PoolInv, NEW w \in PoolWorkers, NEW q, NEW a \in Nat, NEW b \in Nat,
         scene' = scene, waiting' \subseteq waiting,
         frames' = [frames EXCEPT ![w] = q],
         opCount' = [opCount EXCEPT ![w] = a], elemCount' = [elemCount EXCEPT ![w] = b],
         StackOK(scene, q, a, b), SharedOK(scene, shared')
  PROVE  PoolInv'
<1>1. q \in Seq(FrameSet(scene))
  BY DEF StackOK
<1>2. frames' \in [PoolWorkers -> Seq(FrameSet(scene))]
  BY <1>1 DEF PoolInv
<1>3. opCount' \in [PoolWorkers -> Nat] /\ elemCount' \in [PoolWorkers -> Nat]
  BY DEF PoolInv
<1>4. \A v \in PoolWorkers : StackOK(scene, frames'[v], opCount'[v], elemCount'[v])
  <2>. SUFFICES ASSUME NEW v \in PoolWorkers PROVE StackOK(scene, frames'[v], opCount'[v], elemCount'[v])
    OBVIOUS
  <2>1. CASE v = w
    <3>1. frames'[v] = q /\ opCount'[v] = a /\ elemCount'[v] = b
      BY <2>1 DEF PoolInv
    <3>. QED
      BY <3>1
  <2>2. CASE v # w
    <3>1. frames'[v] = frames[v] /\ opCount'[v] = opCount[v] /\ elemCount'[v] = elemCount[v]
      BY <2>2 DEF PoolInv
    <3>. QED
      BY <3>1 DEF PoolInv
  <2>. QED
    BY <2>1, <2>2
<1>. QED
  BY <1>2, <1>3, <1>4 DEF PoolInv

\* The innermost frame of a worker goes past one item.
LEMMA OneItem ==
  ASSUME PoolInv, NEW w \in PoolWorkers, ItemsLeft(w), NEW f \in FrameSet(scene),
         NEW a \in Nat, NEW d \in Nat,
         Onward(scene, Innermost(w).of, opCount[w], elemCount[w], a, d),
         f.of = Innermost(w).of, FrameOK(scene, f, a, d), Advance(w, f),
         opCount' = [opCount EXCEPT ![w] = a], elemCount' = [elemCount EXCEPT ![w] = d],
         UNCHANGED <<scene, waiting, shared>>
  PROVE  PoolInv'
<1>. DEFINE q == CutTo(frames[w], Len(frames[w]), f)
<1>1. frames[w] # <<>>
  BY DEF ItemsLeft
<1>2. StackOK(scene, frames[w], opCount[w], elemCount[w]) /\ scene \in Scenes
  BY DEF PoolInv
<1>3. StackOK(scene, q, a, d)
  BY <1>1, <1>2, InnermostFacts, StackAdvances
<1>4. frames' = [frames EXCEPT ![w] = q]
  BY DEF Advance, Becomes, CutTo, PoolInv
<1>5. SharedOK(scene, shared') /\ waiting' \subseteq waiting /\ d \in Nat
  BY DEF PoolInv
<1>. HIDE DEF q
<1>. QED
  BY <1>3, <1>4, <1>5, OneWorker

LEMMA SameCounts ==
  ASSUME PoolInv, NEW w \in PoolWorkers, UNCHANGED <<opCount, elemCount>>
  PROVE  /\ opCount' = [opCount EXCEPT ![w] = opCount[w]]
         /\ elemCount' = [elemCount EXCEPT ![w] = elemCount[w]]
         /\ opCount[w] \in Nat /\ elemCount[w] \in Nat
BY DEF PoolInv

LEMMA MergedFacts ==
  ASSUME NEW m, NEW f \in FrameSet(m), NEW mesh \in MeshSet(m)
  PROVE  /\ Merged(f, mesh) \in FrameSet(m)
         /\ Merged(f, mesh).of = f.of /\ Merged(f, mesh).at = f.at + 1
         /\ Merged(f, mesh).solids = f.solids \cup mesh.solids
         /\ f.exact /\ mesh.exact => Merged(f, mesh).exact
         /\ Merged(f, mesh).short = f.short
<1>. DEFINE g == Merged(f, mesh)
<1>1. g = [f EXCEPT !.at = @ + 1, !.solids = @ \cup mesh.solids, !.exact = @ /\ mesh.exact]
  BY DEF Merged
<1>2. /\ f.of \in DOMAIN m.items /\ f.at \in Nat \ {0} /\ f.solids \subseteq (DOMAIN m.items) \X Nat
      /\ f.exact \in BOOLEAN /\ f.short \in BOOLEAN
      /\ mesh.solids \subseteq (DOMAIN m.items) \X Nat /\ mesh.exact \in BOOLEAN
  BY DEF FrameSet, MeshSet
<1>3. g = [of |-> f.of, at |-> f.at + 1, solids |-> f.solids \cup mesh.solids,
           exact |-> f.exact /\ mesh.exact, short |-> f.short]
  BY <1>1 DEF FrameSet
<1>. HIDE DEF g
<1>4. g.of = f.of /\ g.at = f.at + 1 /\ g.solids = f.solids \cup mesh.solids /\ g.short = f.short
  BY <1>3
<1>5. g.exact = (f.exact /\ mesh.exact)
  BY <1>3, Zenon
<1>6. (f.exact /\ mesh.exact) \in BOOLEAN
  BY <1>2
<1>7. f.at + 1 \in Nat \ {0} /\ f.solids \cup mesh.solids \in SUBSET ((DOMAIN m.items) \X Nat)
  BY <1>2
<1>8. g \in FrameSet(m)
  BY <1>2, <1>3, <1>6, <1>7, Zenon DEF FrameSet
<1>. QED
  BY <1>4, <1>5, <1>8 DEF g

LEMMA OwnFacts ==
  ASSUME PoolInv, NEW w \in PoolWorkers, frames[w] # <<>>, NEW e \in BOOLEAN
  PROVE  /\ Own(w, e) \in MeshSet(scene) /\ Own(w, e).exact = e
         /\ <<Innermost(w).of, Innermost(w).at>> \in Own(w, e).solids
<1>1. <<Innermost(w).of, Innermost(w).at>> \in (DOMAIN scene.items) \X Nat
  <2>1. Innermost(w).of \in DOMAIN scene.items /\ Innermost(w).at \in Nat
    BY InnermostFacts
  <2>. QED
    BY <2>1
<1>. QED
  BY <1>1 DEF Own, MeshSet

\* The innermost frame merges the mesh of its next item.
LEMMA ItemMerged ==
  ASSUME PoolInv, NEW w \in PoolWorkers, ItemsLeft(w), NEW mesh \in MeshSet(scene),
         NEW a \in Nat, NEW d \in Nat,
         Onward(scene, Innermost(w).of, opCount[w], elemCount[w], a, d),
         IF NextItem(w).kind = "mapped"
         THEN /\ NextItem(w).source \in SourcesOf(scene)
              /\ Whole(scene, NextItem(w).source) \subseteq mesh.solids
         ELSE <<Innermost(w).of, Innermost(w).at>> \in mesh.solids,
         Innermost(w).of \notin scene.elements =>
            mesh.exact \/ Joins(scene, Innermost(w).of) \/ GivenUp(scene, Innermost(w).of, a, d)
  PROVE  LET g == Merged(Innermost(w), mesh)
         IN  g \in FrameSet(scene) /\ g.of = Innermost(w).of /\ FrameOK(scene, g, a, d)
<1>. DEFINE f == Innermost(w)
            g == Merged(f, mesh)
<1>1. /\ f \in FrameSet(scene) /\ FrameOK(scene, f, opCount[w], elemCount[w])
      /\ opCount[w] \in Nat /\ elemCount[w] \in Nat
      /\ Onward(scene, f.of, opCount[w], elemCount[w], a, d)
      /\ scene \in Scenes /\ f.at <= Len(scene.items[f.of])
      /\ NextItem(w) = scene.items[f.of][f.at]
  BY NextItemFacts, InnermostFacts DEF PoolInv
<1>2. /\ g \in FrameSet(scene) /\ g.of = f.of /\ g.at = f.at + 1
      /\ f.solids \subseteq g.solids /\ mesh.solids \subseteq g.solids
      /\ (f.short => g.short) /\ (f.exact /\ mesh.exact => g.exact)
  <2>. HIDE DEF f
  <2>. QED
    BY <1>1, MergedFacts
<1>3. IF scene.items[f.of][f.at].kind = "mapped"
      THEN /\ scene.items[f.of][f.at].source \in SourcesOf(scene)
           /\ Whole(scene, scene.items[f.of][f.at].source) \subseteq g.solids
      ELSE <<f.of, f.at>> \in g.solids
  BY <1>1, <1>2
<1>4. f.of \notin scene.elements /\ f.exact =>
        g.exact \/ Joins(scene, f.of) \/ GivenUp(scene, f.of, a, d)
  BY <1>2
<1>. HIDE DEF f, g
<1>5. FrameOK(scene, g, a, d)
  BY <1>1, <1>2, <1>3, <1>4, FrameStep
<1>. QED
  BY <1>2, <1>5 DEF f, g

LEMMA MeshItemKeeps ==
  ASSUME PoolInv, NEW w \in PoolWorkers, MeshItem(w)
  PROVE  PoolInv'
<1>. DEFINE mesh == Own(w, TRUE)
            g == Merged(Innermost(w), mesh)
<1>1. ItemsLeft(w) /\ NextItem(w).kind # "mapped" /\ Advance(w, g)
  BY DEF MeshItem
<1>2. /\ opCount[w] \in Nat /\ elemCount[w] \in Nat
      /\ Onward(scene, Innermost(w).of, opCount[w], elemCount[w], opCount[w], elemCount[w])
      /\ mesh \in MeshSet(scene) /\ mesh.exact
      /\ <<Innermost(w).of, Innermost(w).at>> \in mesh.solids
  <2>1. frames[w] # <<>> /\ opCount[w] \in Nat /\ elemCount[w] \in Nat
    BY <1>1, NextItemFacts, InnermostFacts
  <2>2. mesh \in MeshSet(scene) /\ mesh.exact = TRUE
    BY <2>1, OwnFacts
  <2>3. <<Innermost(w).of, Innermost(w).at>> \in mesh.solids
    BY <2>1, OwnFacts
  <2>4. mesh.exact
    BY <2>2, Zenon
  <2>5. Onward(scene, Innermost(w).of, opCount[w], elemCount[w], opCount[w], elemCount[w])
    BY <2>1, SameAccounts
  <2>. HIDE DEF mesh
  <2>. QED
    BY <2>1, <2>2, <2>3, <2>4, <2>5
<1>. HIDE DEF mesh
<1>3. g \in FrameSet(scene) /\ g.of = Innermost(w).of /\ FrameOK(scene, g, opCount[w], elemCount[w])
  BY <1>1, <1>2, ItemMerged
<1>4. UNCHANGED <<scene, waiting, shared, opCount, elemCount>>
  BY DEF MeshItem
<1>. HIDE DEF g
<1>. QED
  BY <1>1, <1>2, <1>3, <1>4, SameCounts, OneItem

\* An item that is left out is no part of a whole mesh.
LEMMA SkipItemKeeps ==
  ASSUME PoolInv, NEW w \in PoolWorkers, SkipItem(w)
  PROVE  PoolInv'
<1>. DEFINE f == Innermost(w)
            g == [f EXCEPT !.at = @ + 1]
<1>1. /\ ItemsLeft(w) /\ NextItem(w).kind = "broken" /\ Advance(w, g)
      /\ UNCHANGED <<scene, waiting, shared, opCount, elemCount>>
  BY DEF SkipItem
<1>2. /\ f \in FrameSet(scene) /\ FrameOK(scene, f, opCount[w], elemCount[w])
      /\ opCount[w] \in Nat /\ elemCount[w] \in Nat /\ scene \in Scenes
      /\ f.at <= Len(scene.items[f.of]) /\ scene.items[f.of][f.at].kind = "broken"
  BY <1>1, NextItemFacts, InnermostFacts DEF PoolInv
<1>3. Onward(scene, f.of, opCount[w], elemCount[w], opCount[w], elemCount[w])
  BY <1>2, SameAccounts
<1>. HIDE DEF f
<1>4. /\ g \in FrameSet(scene) /\ g.of = f.of /\ g.at = f.at + 1 /\ g.solids = f.solids
      /\ g.exact = f.exact /\ g.short = f.short
  BY <1>2 DEF FrameSet
<1>. HIDE DEF g
<1>5. (f.short => g.short) /\ (f.exact => g.exact)
  BY <1>4, Zenon
<1>6. FrameOK(scene, g, opCount[w], elemCount[w])
  BY <1>2, <1>3, <1>4, <1>5, FrameStep
<1>7. /\ opCount' = [opCount EXCEPT ![w] = opCount[w]]
      /\ elemCount' = [elemCount EXCEPT ![w] = elemCount[w]]
  BY <1>1, SameCounts
<1>. QED
  BY <1>1, <1>2, <1>3, <1>4, <1>6, <1>7, OneItem DEF f

\* The operation bails when an account is spent: the element's goes on to tell,
\* and if only the operation's is spent it is the one that can trip first.
LEMMA BailsOnAccount ==
  ASSUME NEW m \in Scenes, NEW s \in SourcesOf(m), NEW cost \in CutCosts(m, s), cost \in Nat,
         NEW c \in Nat, NEW n \in 0..cost, BudgetSpent(m, n, c + n)
  PROVE  GivenUp(m, s, n, c + n)
<1>1. m.caps.op \in Nat /\ m.caps.element \in Nat
  BY SceneFacts
<1>. SUFFICES ASSUME OpSpent(m, n), ~ElementSpent(m, c + n)
              PROVE  OpTripsFirst(m) /\ Costly(m, s)
  BY DEF GivenUp, BudgetSpent
<1>2. OpSpent(m, cost)
  BY <1>1 DEF OpSpent
<1>3. OpTripsFirst(m)
  BY <1>1 DEF OpTripsFirst, OpSpent, ElementSpent
<1>. QED
  BY <1>2, <1>3 DEF Costly

LEMMA CutItemKeeps ==
  ASSUME PoolInv, NEW w \in PoolWorkers, CutItem(w)
  PROVE  PoolInv'
<1>. DEFINE f == Innermost(w)
            cost == NextItem(w).cost
            op == opCount[w]
            c == elemCount[w]
<1>1. /\ ItemsLeft(w) /\ NextItem(w).kind = "cut" /\ UNCHANGED <<scene, waiting, shared>>
      /\ cost \in Nat /\ op \in Nat /\ c \in Nat /\ scene \in Scenes
  BY NextItemFacts, InnermostFacts DEF CutItem, PoolInv
<1>2. PICK n \in 0..cost :
        LET spent == BudgetSpent(scene, n, c + n)
        IN  /\ n = cost \/ spent
            /\ opCount' = [opCount EXCEPT ![w] = n] /\ elemCount' = [elemCount EXCEPT ![w] = c + n]
            /\ Advance(w, Merged(f, Own(w, ~spent)))
  BY DEF CutItem, PoolInv
<1>. DEFINE d == c + n
            e == ~BudgetSpent(scene, n, d)
            mesh == Own(w, e)
            g == Merged(f, mesh)
<1>3. n \in Nat /\ d \in Nat /\ c <= d /\ n <= cost
  BY <1>1, <1>2
<1>4. f.of \notin scene.elements => f.of \in SourcesOf(scene) /\ cost \in CutCosts(scene, f.of)
  BY <1>1, NextItemFacts, InnermostFacts, CostHere DEF SourcesOf
<1>5. f.of \notin scene.elements => e \/ GivenUp(scene, f.of, n, d)
  <2>. HIDE DEF f, cost, op, c
  <2>. QED
    BY <1>1, <1>2, <1>4, BailsOnAccount
<1>6. Onward(scene, f.of, op, c, n, d)
  <2>1. n = cost \/ OpSpent(scene, n) \/ ElementSpent(scene, d)
    BY <1>2 DEF BudgetSpent
  <2>2. f.of \notin scene.elements /\ ~OpSpent(scene, cost) => Cheap(scene, f.of)
    BY <1>4 DEF Cheap
  <2>. HIDE DEF f, cost, op, c, d
  <2>. QED
    BY <1>3, <2>1, <2>2 DEF Onward
<1>7. mesh \in MeshSet(scene) /\ mesh.exact = e /\ <<f.of, f.at>> \in mesh.solids
  <2>1. e \in BOOLEAN
    BY DEF BudgetSpent, OpSpent, ElementSpent
  <2>. HIDE DEF e
  <2>. QED
    BY <1>1, <2>1, NextItemFacts, OwnFacts
<1>8. f.of \notin scene.elements => mesh.exact \/ GivenUp(scene, f.of, n, d)
  <2>. HIDE DEF f, mesh, e, d
  <2>. QED
    BY <1>5, <1>7, Zenon
<1>. HIDE DEF mesh, e, d
<1>9. g \in FrameSet(scene) /\ g.of = f.of /\ FrameOK(scene, g, n, d)
  BY <1>1, <1>3, <1>6, <1>7, <1>8, ItemMerged
<1>10. Advance(w, g) /\ opCount' = [opCount EXCEPT ![w] = n] /\ elemCount' = [elemCount EXCEPT ![w] = d]
  BY <1>2 DEF mesh, e, d
<1>. HIDE DEF g
<1>. QED
  BY <1>1, <1>3, <1>6, <1>9, <1>10, OneItem

LEMMA HitMappedKeeps ==
  ASSUME PoolInv, NEW w \in PoolWorkers, HitMapped(w)
  PROVE  PoolInv'
<1>. DEFINE s == NextItem(w).source
            mesh == shared[s]
            g == Merged(Innermost(w), mesh)
<1>1. /\ ItemsLeft(w) /\ NextItem(w).kind = "mapped" /\ s \in SourcesOf(scene) /\ s \in DOMAIN shared
      /\ Advance(w, g)
  BY DEF HitMapped, AtMapped, Allowed, MappedSources
<1>2. /\ mesh \in MeshSet(scene) /\ Whole(scene, s) \subseteq mesh.solids
      /\ mesh.exact \/ Joins(scene, s) \/ Masks(scene, s)
  BY <1>1 DEF PoolInv, SharedOK
<1>3. /\ opCount[w] \in Nat /\ elemCount[w] \in Nat
      /\ Onward(scene, Innermost(w).of, opCount[w], elemCount[w], opCount[w], elemCount[w])
  BY <1>1, NextItemFacts, InnermostFacts, SameAccounts
<1>4. Innermost(w).of \notin scene.elements =>
        \/ mesh.exact \/ Joins(scene, Innermost(w).of)
        \/ GivenUp(scene, Innermost(w).of, opCount[w], elemCount[w])
  <2>. SUFFICES ASSUME Innermost(w).of \notin scene.elements, Joins(scene, s) \/ Masks(scene, s)
                PROVE  \/ Joins(scene, Innermost(w).of)
                       \/ GivenUp(scene, Innermost(w).of, opCount[w], elemCount[w])
    BY <1>2
  <2>1. Innermost(w).of \in SourcesOf(scene) /\ Innermost(w).at \in DOMAIN scene.items[Innermost(w).of]
    BY <1>1, NextItemFacts, InnermostFacts DEF SourcesOf
  <2>2. s \in MadeOf(scene, Innermost(w).of)
    BY <1>1, <2>1, NextItemFacts, MadeOfUsed
  <2>. QED
    BY <2>2, JoinsWithin, CostsWithin DEF Masks, GivenUp
<1>. HIDE DEF mesh
<1>5. g \in FrameSet(scene) /\ g.of = Innermost(w).of /\ FrameOK(scene, g, opCount[w], elemCount[w])
  BY <1>1, <1>2, <1>3, <1>4, ItemMerged
<1>6. UNCHANGED <<scene, waiting, shared, opCount, elemCount>>
  BY DEF HitMapped
<1>. HIDE DEF g
<1>. QED
  BY <1>1, <1>3, <1>5, <1>6, SameCounts, OneItem

\* Nothing is claimed of a frame that is short.
LEMMA MissingKeeps ==
  ASSUME NEW m \in Scenes, NEW f \in FrameSet(m), NEW op \in Nat, NEW c \in Nat,
         FrameOK(m, f, op, c), f.at <= Len(m.items[f.of])
  PROVE  /\ Missing(f) \in FrameSet(m) /\ Missing(f).of = f.of
         /\ FrameOK(m, Missing(f), op, c)
<1>. DEFINE g == Missing(f)
<1>1. /\ f.of \in DOMAIN m.items /\ f.at \in Nat \ {0} /\ f.solids \in SUBSET ((DOMAIN m.items) \X Nat)
      /\ f.exact \in BOOLEAN
      /\ f = [of |-> f.of, at |-> f.at, solids |-> f.solids, exact |-> f.exact, short |-> f.short]
  BY DEF FrameSet
<1>2. g = [f EXCEPT !.at = @ + 1, !.short = TRUE]
  BY DEF Missing
<1>3. g = [of |-> f.of, at |-> f.at + 1, solids |-> f.solids, exact |-> f.exact, short |-> TRUE]
  BY <1>2 DEF FrameSet
<1>. HIDE DEF g
<1>4. f.at + 1 \in Nat \ {0}
  BY <1>1
<1>5. g \in FrameSet(m)
  BY <1>1, <1>3, <1>4, Zenon DEF FrameSet
<1>6. g.of = f.of /\ g.at = f.at + 1 /\ g.solids = f.solids
  BY <1>3
<1>7. g.short /\ (f.exact => g.exact)
  BY <1>3, Zenon
<1>8. Onward(m, f.of, op, c, op, c) /\ f.solids \subseteq g.solids
  BY <1>6, SameAccounts
<1>9. FrameOK(m, g, op, c)
  BY <1>5, <1>6, <1>7, <1>8, FrameStep
<1>. QED
  BY <1>5, <1>6, <1>9 DEF g

LEMMA RefuseMappedKeeps ==
  ASSUME PoolInv, NEW w \in PoolWorkers, RefuseMapped(w)
  PROVE  PoolInv'
<1>. DEFINE g == Missing(Innermost(w))
<1>1. ItemsLeft(w) /\ Advance(w, g)
  BY DEF RefuseMapped, AtMapped
<1>2. /\ opCount[w] \in Nat /\ elemCount[w] \in Nat
      /\ Onward(scene, Innermost(w).of, opCount[w], elemCount[w], opCount[w], elemCount[w])
  BY <1>1, NextItemFacts, InnermostFacts, SameAccounts
<1>3. g \in FrameSet(scene) /\ g.of = Innermost(w).of /\ FrameOK(scene, g, opCount[w], elemCount[w])
  BY <1>1, <1>2, NextItemFacts, InnermostFacts, MissingKeeps DEF PoolInv
<1>4. UNCHANGED <<scene, waiting, shared, opCount, elemCount>>
  BY DEF RefuseMapped
<1>. HIDE DEF g
<1>. QED
  BY <1>1, <1>2, <1>3, <1>4, SameCounts, OneItem

LEMMA EnterMappedKeeps ==
  ASSUME PoolInv, NEW w \in PoolWorkers, EnterMapped(w)
  PROVE  PoolInv'
<1>. DEFINE s == NextItem(w).source
            q == Append(frames[w], NewFrame(s))
<1>1. /\ ItemsLeft(w) /\ NextItem(w).kind = "mapped" /\ s \in SourcesOf(scene)
      /\ frames' = [frames EXCEPT ![w] = q]
      /\ UNCHANGED <<scene, waiting, opCount, elemCount, shared>>
  BY DEF EnterMapped, AtMapped, Allowed, MappedSources, PoolInv
<1>2. s \in DOMAIN scene.items /\ s \notin scene.elements
  BY <1>1 DEF SourcesOf
<1>3. Waits(scene, frames[w][Len(frames[w])], NewFrame(s))
  BY <1>1, <1>2, NextItemFacts, InnermostFacts DEF Waits, NewFrame
<1>4. StackOK(scene, q, opCount[w], elemCount[w])
  <2>1. scene \in Scenes /\ StackOK(scene, frames[w], opCount[w], elemCount[w]) /\ frames[w] # <<>>
    BY <1>1, NextItemFacts DEF PoolInv
  <2>. HIDE DEF s
  <2>. QED
    BY <1>2, <1>3, <2>1, StackPushes
<1>5. SharedOK(scene, shared') /\ waiting' \subseteq waiting
  BY <1>1 DEF PoolInv
<1>6. /\ opCount' = [opCount EXCEPT ![w] = opCount[w]] /\ opCount[w] \in Nat
      /\ elemCount' = [elemCount EXCEPT ![w] = elemCount[w]] /\ elemCount[w] \in Nat
  BY <1>1, SameCounts
<1>7. scene' = scene /\ frames' = [frames EXCEPT ![w] = q]
  BY <1>1
<1>. HIDE DEF q
<1>. QED
  BY <1>4, <1>5, <1>6, <1>7, OneWorker

LEMMA BeginElementKeeps ==
  ASSUME PoolInv, NEW w \in PoolWorkers, NEW e, BeginElement(w, e),
         frames[w] # <<>> => ItemsLeft(w) /\ NextItem(w).kind = "brep"
  PROVE  PoolInv'
<1>. DEFINE q == Append(frames[w], NewFrame(e))
<1>1. /\ e \in waiting /\ waiting' \subseteq waiting
      /\ frames' = [frames EXCEPT ![w] = q] /\ elemCount' = [elemCount EXCEPT ![w] = 0]
      /\ UNCHANGED <<scene, opCount, shared>>
  BY DEF BeginElement, PoolInv
<1>2. /\ scene \in Scenes /\ StackOK(scene, frames[w], opCount[w], elemCount[w])
      /\ e \in scene.elements /\ e \in DOMAIN scene.items
  BY <1>1, SceneFacts DEF PoolInv
<1>3. CASE frames[w] = <<>>
  <2>1. /\ NewFrame(e) \in FrameSet(scene) /\ FrameOK(scene, NewFrame(e), opCount[w], 0)
        /\ NewFrame(e).of = e
    BY <1>2, FreshFrame DEF NewFrame
  <2>2. q = <<NewFrame(e)>>
    BY <1>3
  <2>3. q \in Seq(FrameSet(scene)) /\ Len(q) = 1 /\ q[1] = NewFrame(e) /\ opCount[w] \in Nat
    BY <2>1, <2>2 DEF PoolInv
  <2>. HIDE DEF q
  <2>. QED
    <3>1. StackOK(scene, q, opCount[w], 0)
      BY <1>2, <2>1, <2>3 DEF StackOK
    <3>2. SharedOK(scene, shared') /\ opCount[w] \in Nat /\ opCount' = [opCount EXCEPT ![w] = opCount[w]]
      BY <1>1 DEF PoolInv
    <3>. QED
      BY <1>1, <3>1, <3>2, OneWorker
<1>4. CASE frames[w] # <<>>
  <2>1. Waits(scene, frames[w][Len(frames[w])], NewFrame(e))
    BY <1>2, <1>4, NextItemFacts, InnermostFacts DEF Waits, NewFrame
  <2>2. StackOK(scene, q, opCount[w], 0)
    BY <1>2, <1>4, <2>1, StackPushes
  <2>3. SharedOK(scene, shared') /\ opCount[w] \in Nat /\ opCount' = [opCount EXCEPT ![w] = opCount[w]]
    BY <1>1 DEF PoolInv
  <2>. HIDE DEF q
  <2>. QED
    BY <1>1, <2>2, <2>3, OneWorker
<1>. QED
  BY <1>3, <1>4

LEMMA FinishElementKeeps ==
  ASSUME PoolInv, NEW w \in PoolWorkers, FinishElement(w)
  PROVE  PoolInv'
<1>. DEFINE q == SubSeq(frames[w], 1, Len(frames[w]) - 1)
<1>1. /\ frames[w] # <<>> /\ frames' = [frames EXCEPT ![w] = q]
      /\ UNCHANGED <<scene, waiting, opCount, elemCount, shared>>
  BY DEF FinishElement, AllMeshed, ItemsLeft, PoolInv
<1>2. StackOK(scene, q, opCount[w], elemCount[w])
  BY <1>1, StackPops DEF PoolInv
<1>3. SharedOK(scene, shared') /\ waiting' \subseteq waiting
  BY <1>1 DEF PoolInv
<1>. HIDE DEF q
<1>. QED
  BY <1>1, <1>2, <1>3, SameCounts, OneWorker
LEMMA ReturnedFacts ==
  ASSUME NEW m, NEW h \in FrameSet(m), NEW f \in FrameSet(m)
  PROVE  /\ Returned(h, f) \in FrameSet(m)
         /\ Returned(h, f).of = h.of /\ Returned(h, f).at = h.at + 1
         /\ Returned(h, f).solids = h.solids \cup f.solids
         /\ (h.exact /\ f.exact => Returned(h, f).exact)
         /\ (h.short \/ f.short => Returned(h, f).short)
<1>. DEFINE mesh == [solids |-> f.solids, exact |-> f.exact]
            k == Merged(h, mesh)
            g == Returned(h, f)
<1>1. /\ f.solids \in SUBSET ((DOMAIN m.items) \X Nat) /\ f.exact \in BOOLEAN
      /\ f.short \in BOOLEAN
  BY DEF FrameSet
<1>2. mesh \in MeshSet(m) /\ mesh.solids = f.solids /\ mesh.exact = f.exact
  BY <1>1 DEF MeshSet
<1>3. g = [k EXCEPT !.short = @ \/ f.short]
  BY DEF Returned
<1>. HIDE DEF g, mesh
<1>4. /\ k \in FrameSet(m) /\ k.of = h.of /\ k.at = h.at + 1 /\ k.solids = h.solids \cup f.solids
      /\ (h.exact /\ f.exact => k.exact) /\ k.short = h.short
  BY <1>2, MergedFacts
<1>. HIDE DEF k
<1>5. g = [of |-> k.of, at |-> k.at, solids |-> k.solids, exact |-> k.exact,
           short |-> k.short \/ f.short]
  BY <1>3, <1>4 DEF FrameSet
<1>6. /\ k.of \in DOMAIN m.items /\ k.at \in Nat \ {0}
      /\ k.solids \in SUBSET ((DOMAIN m.items) \X Nat) /\ k.exact \in BOOLEAN
  BY <1>4 DEF FrameSet
<1>7. g \in FrameSet(m)
  <2>1. (k.short \/ f.short) \in BOOLEAN
    BY Zenon
  <2>. QED
    BY <1>5, <1>6, <2>1, Zenon DEF FrameSet
<1>8. g.of = h.of /\ g.at = h.at + 1 /\ g.solids = h.solids \cup f.solids
  BY <1>4, <1>5
<1>9. (h.exact /\ f.exact => g.exact) /\ (h.short \/ f.short => g.short)
  BY <1>4, <1>5, Zenon
<1>. QED
  BY <1>7, <1>8, <1>9 DEF g

\* What is left of the stack when a mapped source is done: its holder is next.
LEMMA HolderFacts ==
  ASSUME PoolInv, NEW w \in PoolWorkers, AllMeshed(w), Innermost(w).of \notin scene.elements
  PROVE  LET n == Len(frames[w])
             f == Innermost(w)
             h == frames[w][n - 1]
         IN  /\ n - 1 \in Nat \ {0} /\ f.of \in SourcesOf(scene)
             /\ f.at = Len(scene.items[f.of]) + 1
             /\ h \in FrameSet(scene) /\ FrameOK(scene, h, opCount[w], elemCount[w])
             /\ h.at <= Len(scene.items[h.of])
             /\ scene.items[h.of][h.at].kind = "mapped"
             /\ scene.items[h.of][h.at].source = f.of
<1>. DEFINE n == Len(frames[w])
            f == Innermost(w)
            h == frames[w][n - 1]
<1>1. /\ frames[w] # <<>> /\ scene \in Scenes /\ StackOK(scene, frames[w], opCount[w], elemCount[w])
      /\ f.at > Len(scene.items[f.of])
  BY DEF AllMeshed, PoolInv
<1>2. /\ f = frames[w][n] /\ f \in FrameSet(scene) /\ FrameOK(scene, f, opCount[w], elemCount[w])
      /\ f.of \in DOMAIN scene.items /\ f.at \in Nat \ {0} /\ n \in Nat \ {0}
  BY <1>1, InnermostFacts
<1>3. f.at = Len(scene.items[f.of]) + 1
  <2>1. Len(scene.items[f.of]) \in Nat
    BY <1>1, <1>2, SceneFacts
  <2>2. f.at <= Len(scene.items[f.of]) + 1 /\ f.at \in Nat
    BY <1>2 DEF FrameOK
  <2>. HIDE DEF f
  <2>. QED
    BY <1>1, <2>1, <2>2
<1>4. n # 1 /\ n \in Nat \ {0}
  BY <1>1, <1>2 DEF StackOK
<1>5. n - 1 \in 1..(n - 1) /\ n - 1 \in 1..n /\ n - 1 \in Nat \ {0} /\ (n - 1) + 1 = n
  <2>. HIDE DEF n
  <2>. QED
    BY <1>4
<1>6. h \in FrameSet(scene) /\ FrameOK(scene, h, opCount[w], elemCount[w])
  BY <1>1, <1>5 DEF StackOK
<1>7. Waits(scene, h, frames[w][(n - 1) + 1])
  BY <1>1, <1>5 DEF StackOK
<1>8. Waits(scene, h, f)
  BY <1>2, <1>5, <1>7
<1>. HIDE DEF n, f, h
<1>9. /\ h.at <= Len(scene.items[h.of])
      /\ scene.items[h.of][h.at].kind = "mapped" /\ scene.items[h.of][h.at].source = f.of
  BY <1>8 DEF Waits, f
<1>. QED
  BY <1>2, <1>3, <1>5, <1>6, <1>9 DEF SourcesOf, n, f, h

LEMMA LeaveMappedKeeps ==
  ASSUME PoolInv, NEW w \in PoolWorkers, LeaveMapped(w)
  PROVE  PoolInv'
<1>. DEFINE q == frames[w]
            n == Len(q)
            op == opCount[w]
            c == elemCount[w]
            f == Innermost(w)
            h == q[n - 1]
            g == Returned(h, f)
            p == SubSeq(q, 1, n - 1)
            r == CutTo(p, n - 1, g)
<1>1. /\ AllMeshed(w) /\ f.of \notin scene.elements /\ q # <<>>
      /\ Becomes(w, n - 1, g) /\ UNCHANGED <<scene, waiting, opCount, elemCount>>
  BY DEF LeaveMapped, AllMeshed
<1>2. /\ n - 1 \in Nat \ {0} /\ f.of \in SourcesOf(scene) /\ f.at = Len(scene.items[f.of]) + 1
      /\ h \in FrameSet(scene) /\ FrameOK(scene, h, op, c) /\ h.at <= Len(scene.items[h.of])
      /\ scene.items[h.of][h.at].kind = "mapped" /\ scene.items[h.of][h.at].source = f.of
  BY <1>1, HolderFacts
<1>3. /\ scene \in Scenes /\ StackOK(scene, q, op, c) /\ f \in FrameSet(scene)
      /\ FrameOK(scene, f, op, c) /\ op \in Nat /\ c \in Nat
      /\ Onward(scene, h.of, op, c, op, c)
  <2>1. op \in Nat /\ c \in Nat
    BY <1>1, InnermostFacts
  <2>. QED
    BY <1>1, <2>1, InnermostFacts, SameAccounts DEF PoolInv
<1>4. ~f.short => Whole(scene, f.of) \subseteq f.solids
  <2>. HIDE DEF f
  <2>. QED
    BY <1>2, <1>3, WholeAtTheEnd DEF FrameOK
<1>5. f.exact \/ Joins(scene, f.of) \/ GivenUp(scene, f.of, op, c)
  BY <1>1, <1>3 DEF FrameOK, AccountedFor
<1>6. SharedOK(scene, shared')
  <2>1. CASE ~Keepable(w, f)
    <3>1. shared' = shared
      BY <2>1 DEF LeaveMapped
    <3>. QED
      BY <3>1 DEF PoolInv
  <2>2. CASE Keepable(w, f)
    <3>. DEFINE mesh == [solids |-> f.solids, exact |-> f.exact]
    <3>1. shared' = [s \in DOMAIN shared \cup {f.of} |-> IF s = f.of THEN mesh ELSE shared[s]]
      BY <2>2 DEF LeaveMapped
    <3>2. ~f.short /\ ~OpSpent(scene, op) /\ ~ElementSpent(scene, c)
      BY <2>2 DEF Keepable, Tripped, BudgetSpent
    <3>3. mesh \in MeshSet(scene)
      BY <1>3 DEF FrameSet, MeshSet
    <3>4. mesh.solids = f.solids /\ mesh.exact = f.exact
      OBVIOUS
    <3>5. mesh.exact \/ Joins(scene, f.of) \/ Masks(scene, f.of)
      <4>1. GivenUp(scene, f.of, op, c) => Masks(scene, f.of)
        BY <3>2 DEF GivenUp, Masks
      <4>. HIDE DEF f, op, c, mesh
      <4>. QED
        BY <1>5, <3>4, <4>1, Zenon
    <3>6. Whole(scene, f.of) \subseteq mesh.solids
      BY <1>4, <3>2, <3>4
    <3>7. SharedOK(scene, shared)
      BY DEF PoolInv
    <3>8. DOMAIN shared' = DOMAIN shared \cup {f.of}
      BY <3>1
    <3>. HIDE DEF mesh, f
    <3>9. ASSUME NEW s \in DOMAIN shared'
          PROVE  /\ shared'[s] \in MeshSet(scene) /\ Whole(scene, s) \subseteq shared'[s].solids
                 /\ shared'[s].exact \/ Joins(scene, s) \/ Masks(scene, s)
      <4>1. CASE s = f.of
        <5>1. shared'[s] = mesh
          BY <3>1, <3>8, <4>1
        <5>. QED
          BY <3>3, <3>5, <3>6, <4>1, <5>1
      <4>2. CASE s # f.of
        <5>1. shared'[s] = shared[s] /\ s \in DOMAIN shared
          BY <3>1, <3>8, <4>2
        <5>. QED
          BY <3>7, <5>1 DEF SharedOK
      <4>. QED
        BY <4>1, <4>2
    <3>10. DOMAIN shared' \subseteq SourcesOf(scene)
      BY <1>2, <3>7, <3>8 DEF SharedOK
    <3>. QED
      BY <3>9, <3>10 DEF SharedOK
  <2>. QED
    BY <2>1, <2>2
<1>7. /\ g \in FrameSet(scene) /\ g.of = h.of /\ g.at = h.at + 1 /\ g.solids = h.solids \cup f.solids
      /\ (h.exact /\ f.exact => g.exact) /\ (h.short \/ f.short => g.short)
  <2>. HIDE DEF f, h
  <2>. QED
    BY <1>2, <1>3, ReturnedFacts
<1>8. h.of \notin scene.elements =>
        /\ Joins(scene, f.of) => Joins(scene, h.of)
        /\ GivenUp(scene, f.of, op, c) => GivenUp(scene, h.of, op, c)
  <2>. HIDE DEF f, h
  <2>1. h.of \in DOMAIN scene.items /\ h.at \in DOMAIN scene.items[h.of]
    BY <1>2, <1>3, SceneFacts DEF FrameSet
  <2>. QED
    BY <1>2, <2>1, MadeOfUsed, JoinsWithin, GivenUpWithin DEF SourcesOf
<1>9. FrameOK(scene, g, op, c)
  <2>. HIDE DEF f, h, g, op, c
  <2>1. h.solids \subseteq g.solids /\ (h.short => g.short)
    BY <1>7
  <2>2. ~g.short => Whole(scene, f.of) \subseteq g.solids
    BY <1>4, <1>7
  <2>3. h.of \notin scene.elements /\ h.exact =>
          g.exact \/ Joins(scene, h.of) \/ GivenUp(scene, h.of, op, c)
    BY <1>5, <1>7, <1>8
  <2>. QED
    BY <1>2, <1>3, <1>7, <2>1, <2>2, <2>3, FrameStep
<1>10. StackOK(scene, p, op, c) /\ Len(p) = n - 1 /\ p # <<>> /\ p[Len(p)] = h
  <2>1. StackOK(scene, p, op, c) /\ Len(p) = n - 1 /\ \A j \in 1..Len(p) : p[j] = q[j]
    BY <1>1, <1>3, StackPops
  <2>2. n - 1 \in 1..Len(p)
    <3>1. n \in Nat /\ n - 1 \in Nat \ {0} /\ Len(p) = n - 1
      BY <1>1, <1>2, <2>1, InnermostFacts
    <3>. HIDE DEF n, p
    <3>. QED
      BY <3>1
  <2>. QED
    BY <1>2, <2>1, <2>2
<1>11. StackOK(scene, r, op, c)
  <2>. HIDE DEF f, h, g, op, c, p, n
  <2>. QED
    BY <1>3, <1>7, <1>9, <1>10, StackAdvances
<1>12. frames' = [frames EXCEPT ![w] = r]
  <2>1. q \in Seq(FrameSet(scene))
    BY <1>3 DEF StackOK
  <2>2. SubSeq(p, 1, (n - 1) - 1) = SubSeq(q, 1, (n - 1) - 1)
    <3>1. n \in Nat /\ Len(q) = n /\ n - 1 \in Nat \ {0}
      BY <1>1, <1>2, InnermostFacts
    <3>2. (n - 1) + 1 = Len(q)
      BY <3>1
    <3>. HIDE DEF n, q
    <3>. QED
      BY <2>1, <3>1, <3>2, FrontOfFront
  <2>3. frames' = [frames EXCEPT ![w] = Append(SubSeq(q, 1, (n - 1) - 1), g)]
    BY <1>1 DEF Becomes, PoolInv
  <2>. QED
    BY <2>2, <2>3 DEF CutTo
<1>13. /\ waiting' \subseteq waiting /\ scene' = scene
       /\ opCount' = [opCount EXCEPT ![w] = op] /\ op \in Nat
       /\ elemCount' = [elemCount EXCEPT ![w] = c] /\ c \in Nat
  BY <1>1, SameCounts
<1>. HIDE DEF r, op, c
<1>. QED
  BY <1>6, <1>11, <1>12, <1>13, OneWorker
-----------------------------------------------------------------------------
LEMMA PoolInvInit ==
  PoolInit => PoolInv
<1>. SUFFICES ASSUME PoolInit PROVE PoolInv
  OBVIOUS
<1>1. \A w \in PoolWorkers : StackOK(scene, frames[w], opCount[w], elemCount[w])
  <2>1. <<>> \in Seq(FrameSet(scene)) /\ Len(<<>>) = 0
    OBVIOUS
  <2>2. StackOK(scene, <<>>, 0, 0)
    BY <2>1 DEF StackOK
  <2>. QED
    BY <2>2 DEF PoolInit
<1>2. SharedOK(scene, shared)
  BY DEF PoolInit, SharedOK
<1>3. frames \in [PoolWorkers -> Seq(FrameSet(scene))]
  BY DEF PoolInit
<1>. QED
  BY <1>1, <1>2, <1>3 DEF PoolInit, PoolInv

LEMMA PoolInvStep ==
  PoolInv /\ [PoolNext]_poolVars => PoolInv'
<1>. SUFFICES ASSUME PoolInv, [PoolNext]_poolVars PROVE PoolInv'
  OBVIOUS
<1>1. CASE UNCHANGED poolVars
  BY <1>1 DEF PoolInv, poolVars
<1>2. ASSUME NEW w \in PoolWorkers, Mesher(w) PROVE PoolInv'
  <2>1. ASSUME NEW e \in waiting, TakeElement(w, e) PROVE PoolInv'
    BY <2>1, BeginElementKeeps DEF TakeElement
  <2>2. ASSUME NEW e \in waiting, StealElement(w, e) PROVE PoolInv'
    BY <2>2, BeginElementKeeps DEF StealElement
  <2>3. CASE FinishElement(w)
    BY <2>3, FinishElementKeeps
  <2>4. CASE MeshItem(w)
    BY <2>4, MeshItemKeeps
  <2>5. CASE CutItem(w)
    BY <2>5, CutItemKeeps
  <2>10. CASE SkipItem(w)
    BY <2>10, SkipItemKeeps
  <2>6. CASE RefuseMapped(w)
    BY <2>6, RefuseMappedKeeps
  <2>7. CASE HitMapped(w)
    BY <2>7, HitMappedKeeps
  <2>8. CASE EnterMapped(w)
    BY <2>8, EnterMappedKeeps
  <2>9. CASE LeaveMapped(w)
    BY <2>9, LeaveMappedKeeps
  <2>. QED
    BY <1>2, <2>1, <2>2, <2>3, <2>4, <2>5, <2>6, <2>7, <2>8, <2>9, <2>10 DEF Mesher
<1>. QED
  BY <1>1, <1>2 DEF PoolNext

LEMMA PoolInvHolds ==
  PoolSpec => []PoolInv
BY PoolInvInit, PoolInvStep, PTL DEF PoolSpec

\* What the shared cache of mapped sources serves is whole, for every scene,
\* however deeply its sources are nested, and every number of workers.
THEOREM PoolServesWhole ==
  PoolSpec => []ServedWhole
<1>1. PoolInv => ServedWhole
  BY DEF PoolInv, SharedOK, ServedWhole
<1>. QED
  BY <1>1, PoolInvHolds, PTL

\* And it was cut with the exact predicates, whatever the caps and whichever
\* elements are stolen at the joins, unless there is a large brep in it, or the
\* cap of an operation is the lower one and it has both a cut that costs as much
\* and one that costs less.
THEOREM PoolServesExact ==
  PoolSpec => []ServedExact
<1>1. PoolInv => ServedExact
  BY DEF PoolInv, SharedOK, ServedExact
<1>. QED
  BY <1>1, PoolInvHolds, PTL
=============================================================================
