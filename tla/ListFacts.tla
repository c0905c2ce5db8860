----------------------------- MODULE ListFacts -----------------------------
(***************************************************************************)
(* What the proofs about lists of the code share: induction over their       *)
(* lengths, the operators that take a list apart, and FlattenSeq.           *)
(***************************************************************************)
EXTENDS Integers, Sequences, FiniteSets, SequencesExt, FiniteSetTheorems, SequenceTheorems,
        WellFoundedInduction, TLAPS

\* Induction over the natural numbers, in the form of a set.
LEMMA NatInductive ==
  ASSUME NEW T, 0 \in T, \A n \in Nat : n \in T => n + 1 \in T
  PROVE  Nat \subseteq T
<1>1. SUFFICES ASSUME Nat \ T # {} PROVE FALSE
  OBVIOUS
<1>2. \E n \in Nat \ T : \A m \in Nat \ T : ~(<<m, n>> \in OpToRel(<, Nat))
  BY <1>1, NatLessThanWellFounded, WFMin
<1>3. PICK n \in Nat \ T : \A m \in Nat \ T : ~(m < n)
  BY <1>2 DEF OpToRel
<1>4. n # 0 /\ n - 1 \in Nat /\ n - 1 < n
  OBVIOUS
<1>5. n - 1 \in T
  BY <1>3, <1>4
<1>6. QED
  BY <1>4, <1>5

\* FlattenSeq, prefix by prefix of its argument.
FlattenedBy(s, f) == f = [i \in 1..Len(s) |-> IF i = 1 THEN s[i] ELSE f[i - 1] \o s[i]]

\* The recursion that FlattenSeq is made of has a solution.
LEMMA FlattenedByExists ==
  ASSUME NEW V, NEW s \in Seq(Seq(V))
  PROVE  \E f : FlattenedBy(s, f)
<1> DEFINE Q(n) == \E f : f = [i \in 1..n |-> IF i = 1 THEN s[i] ELSE f[i - 1] \o s[i]]
           T == {n \in Nat : Q(n)}
<1>1. Q(0)
  <2> DEFINE f == [i \in 1..0 |-> s[i]]
  <2>1. f = [i \in 1..0 |-> IF i = 1 THEN s[i] ELSE f[i - 1] \o s[i]]
    OBVIOUS
  <2>2. QED
    BY <2>1
<1>2. ASSUME NEW n \in Nat, Q(n) PROVE Q(n + 1)
  <2>1. PICK f : f = [i \in 1..n |-> IF i = 1 THEN s[i] ELSE f[i - 1] \o s[i]]
    BY <1>2
  <2> DEFINE g == [i \in 1..(n + 1) |-> IF i = 1 THEN s[i] ELSE f[i - 1] \o s[i]]
  <2>2. \A i \in 1..n : i \in 1..(n + 1) /\ g[i] = f[i]
    <3>1. \A i \in 1..n : f[i] = IF i = 1 THEN s[i] ELSE f[i - 1] \o s[i]
      BY <2>1
    <3>2. \A i \in 1..n : i \in 1..(n + 1)
      OBVIOUS
    <3>3. QED
      BY <3>1, <3>2
  <2>3. \A i \in 1..(n + 1) : i # 1 => i - 1 \in 1..n
    OBVIOUS
  <2>4. g = [i \in 1..(n + 1) |-> IF i = 1 THEN s[i] ELSE g[i - 1] \o s[i]]
    BY <2>2, <2>3
  <2> HIDE DEF g
  <2>5. QED
    BY <2>4
<1>3. Nat \subseteq T
  <2> HIDE DEF Q
  <2>1. 0 \in T /\ \A n \in Nat : n \in T => n + 1 \in T
    BY <1>1, <1>2
  <2> HIDE DEF T
  <2>2. QED
    BY <2>1, NatInductive
<1>4. Q(Len(s))
  <2> HIDE DEF Q
  <2>1. QED
    BY <1>3
<1>5. QED
  BY <1>4 DEF FlattenedBy

\* FlattenSeq is the last value of that recursion.
LEMMA FlattenIs ==
  ASSUME NEW V, NEW s \in Seq(Seq(V)), s # <<>>
  PROVE  \E f : FlattenedBy(s, f) /\ FlattenSeq(s) = f[Len(s)]
<1>1. Len(s) # 0
  OBVIOUS
<1> DEFINE F == CHOOSE f : f = [i \in 1..Len(s) |-> IF i = 1 THEN s[i] ELSE f[i - 1] \o s[i]]
<1>2. FlattenedBy(s, CHOOSE f : FlattenedBy(s, f))
  BY FlattenedByExists
<1>3. F = CHOOSE f : FlattenedBy(s, f)
  BY Zenon DEF FlattenedBy
<1>4. FlattenSeq(s) = F[Len(s)]
  BY <1>1, Zenon DEF FlattenSeq
<1>5. QED
  BY <1>2, <1>3, <1>4, Zenon

\* Nothing flattens to nothing.
LEMMA FlattenEmpty == FlattenSeq(<<>>) = <<>>
BY DEF FlattenSeq

\* FlattenSeq takes the first sequence off its argument and goes on with the
\* others.
LEMMA FlattenCons ==
  ASSUME NEW V, NEW s \in Seq(Seq(V)), s # <<>>
  PROVE  /\ FlattenSeq(s) \in Seq(V) /\ FlattenSeq(Tail(s)) \in Seq(V)
         /\ FlattenSeq(s) = Head(s) \o FlattenSeq(Tail(s))
<1> DEFINE n == Len(s)
           t == Tail(s)
<1>1. /\ n \in Nat /\ n >= 1 /\ Head(s) = s[1] /\ \A i \in 1..n : s[i] \in Seq(V)
      /\ t \in Seq(Seq(V)) /\ Len(t) = n - 1 /\ \A i \in 1..(n - 1) : t[i] = s[i + 1]
  OBVIOUS
<1>2. PICK f : FlattenedBy(s, f) /\ FlattenSeq(s) = f[n]
  BY FlattenIs
<1> HIDE DEF n, t
<1>3. f[1] = s[1]
  BY <1>1, <1>2 DEF FlattenedBy, n
<1>4. CASE n = 1
  <2>1. t = <<>>
    BY <1>1, <1>4, EmptySeq
  <2>2. FlattenSeq(t) = <<>>
    BY <2>1, FlattenEmpty
  <2>3. s[1] \in Seq(V) /\ s[1] \o <<>> = s[1] /\ <<>> \in Seq(V)
    BY <1>1
  <2>4. QED
    BY <1>1, <1>2, <1>3, <1>4, <2>2, <2>3 DEF t
<1>5. CASE n # 1
  <2>1. t # <<>>
    BY <1>1, <1>5, EmptySeq
  <2>2. PICK g : FlattenedBy(t, g) /\ FlattenSeq(t) = g[n - 1]
    BY <1>1, <2>1, FlattenIs
  <2> DEFINE Q(i) == g[i] \in Seq(V) /\ f[i + 1] = s[1] \o g[i]
             T == {i \in Nat : i \in 1..(n - 1) => Q(i)}
  <2>3. \A i \in 1..n : f[i] = IF i = 1 THEN s[i] ELSE f[i - 1] \o s[i]
    BY <1>2 DEF FlattenedBy, n
  <2>4. \A i \in 1..(n - 1) : g[i] = IF i = 1 THEN t[i] ELSE g[i - 1] \o t[i]
    BY <1>1, <2>2 DEF FlattenedBy
  <2>5. 0 \in T
    OBVIOUS
  <2>6. ASSUME NEW i \in Nat, i \in T PROVE i + 1 \in T
    <3> SUFFICES ASSUME i + 1 \in 1..(n - 1) PROVE Q(i + 1)
      <4> HIDE DEF Q
      <4>1. QED
        OBVIOUS
    <3>1. /\ t[i + 1] = s[i + 2] /\ s[i + 2] \in Seq(V)
          /\ i + 2 \in 1..n /\ i + 2 # 1 /\ (i + 1) + 1 = i + 2
          /\ (i + 2) - 1 = i + 1 /\ (i + 1) - 1 = i
      BY <1>1
    <3>2. f[i + 2] = f[i + 1] \o s[i + 2]
      BY <2>3, <3>1
    <3>3. s[1] \in Seq(V)
      BY <1>1
    <3>4. CASE i = 0
      <4>1. i + 1 = 1 /\ i + 2 = 2
        BY <3>4
      <4>2. g[1] = s[2] /\ s[2] \in Seq(V)
        BY <2>4, <3>1, <4>1
      <4>3. f[2] = s[1] \o s[2]
        BY <1>3, <3>2, <4>1
      <4>4. QED
        BY <3>1, <4>1, <4>2, <4>3
    <3>5. CASE i # 0
      <4>1. i \in 1..(n - 1)
        BY <1>1, <3>5
      <4>2. Q(i)
        <5> HIDE DEF Q
        <5>1. QED
          BY <2>6, <4>1
      <4>3. g[i + 1] = g[i] \o s[i + 2]
        <5>1. i + 1 # 1
          BY <3>5
        <5>2. QED
          BY <2>4, <3>1, <5>1
      <4>4. g[i + 1] \in Seq(V)
        BY <3>1, <4>2, <4>3
      <4>5. (s[1] \o g[i]) \o s[i + 2] = s[1] \o (g[i] \o s[i + 2])
        <5> DEFINE a == s[1]
                   b == g[i]
                   c == s[i + 2]
        <5>1. a \in Seq(V) /\ b \in Seq(V) /\ c \in Seq(V)
          BY <3>1, <3>3, <4>2
        <5> HIDE DEF a, b, c
        <5>2. (a \o b) \o c = a \o (b \o c)
          BY <5>1, ConcatAssociative, SMTT(60)
        <5>3. QED
          BY <5>2 DEF a, b, c
      <4>6. QED
        BY <3>1, <3>2, <4>2, <4>3, <4>4, <4>5
    <3>6. QED
      BY <3>4, <3>5
  <2>7. n - 1 \in T
    <3> HIDE DEF T
    <3>1. Nat \subseteq T
      BY <2>5, <2>6, NatInductive
    <3>2. QED
      BY <1>1, <3>1
  <2>8. Q(n - 1) /\ (n - 1) + 1 = n
    <3>1. n - 1 \in 1..(n - 1) /\ (n - 1) + 1 = n
      BY <1>1, <1>5
    <3> HIDE DEF Q
    <3>2. QED
      BY <2>7, <3>1
  <2>9. s[1] \o g[n - 1] \in Seq(V)
    BY <1>1, <2>8
  <2>10. QED
    BY <1>1, <1>2, <2>2, <2>8, <2>9 DEF n, t
<1>6. QED
  BY <1>4, <1>5

\* Flattening sequences over a set gives a sequence over it.
LEMMA FlattenType ==
  ASSUME NEW V, NEW s \in Seq(Seq(V))
  PROVE  FlattenSeq(s) \in Seq(V)
<1>1. <<>> \in Seq(V)
  OBVIOUS
<1>2. QED
  BY <1>1, FlattenEmpty, FlattenCons

\* Head and Tail, by index.
LEMMA TailIs ==
  ASSUME NEW S, NEW s \in Seq(S), Len(s) >= 1
  PROVE  s # <<>> /\ Head(s) = s[1] /\ Tail(s) = [i \in 1..(Len(s) - 1) |-> s[i + 1]]
<1>1. s # <<>>
  OBVIOUS
<1>2. Head(s) = s[1]
  BY <1>1
<1> DEFINE t == [i \in 1..(Len(s) - 1) |-> s[i + 1]]
<1>3. t \in Seq(S) /\ Len(t) = Len(s) - 1
  <2>1. \A i \in 1..(Len(s) - 1) : s[i + 1] \in S
    OBVIOUS
  <2>2. Len(s) - 1 \in Nat
    OBVIOUS
  <2> QED
    BY <2>1, <2>2
<1>4. Tail(s) \in Seq(S) /\ Len(Tail(s)) = Len(s) - 1
      /\ \A i \in 1..(Len(s) - 1) : Tail(s)[i] = s[i + 1] /\ t[i] = s[i + 1]
  BY <1>1
<1>5. Tail(s) = t
  <2> HIDE DEF t
  <2>1. QED
    BY <1>3, <1>4, SeqEqual
<1>6. QED
  BY <1>1, <1>2, <1>5

\* What is below the top of a stack.
LEMMA FrontFacts ==
  ASSUME NEW S, NEW s \in Seq(S), s # <<>>
  PROVE  /\ SubSeq(s, 1, Len(s) - 1) \in Seq(S) /\ Len(SubSeq(s, 1, Len(s) - 1)) = Len(s) - 1
         /\ \A k \in 1..(Len(s) - 1) : k \in 1..Len(s) /\ SubSeq(s, 1, Len(s) - 1)[k] = s[k]
<1> DEFINE n == Len(s)
<1>1. n \in Nat /\ n >= 1 /\ \A k \in 1..(n - 1) : k \in 1..n /\ s[k] \in S
  OBVIOUS
<1>2. n - 1 \in Int /\ 1 \in Int
  BY <1>1
<1> HIDE DEF n
<1>3. /\ SubSeq(s, 1, n - 1) \in Seq(S)
      /\ Len(SubSeq(s, 1, n - 1)) = IF 1 <= n - 1 THEN (n - 1) - 1 + 1 ELSE 0
      /\ \A k \in 1..((n - 1) - 1 + 1) : SubSeq(s, 1, n - 1)[k] = s[1 + k - 1]
  BY <1>1, <1>2, SubSeqProperties
<1>4. \A k \in 1..(n - 1) : k \in 1..((n - 1) - 1 + 1) /\ 1 + k - 1 = k
  BY <1>1
<1>5. \A k \in 1..(n - 1) : SubSeq(s, 1, n - 1)[k] = s[k]
  BY <1>3, <1>4
<1>6. Len(SubSeq(s, 1, n - 1)) = n - 1
  BY <1>1, <1>3
<1>7. QED
  BY <1>1, <1>3, <1>5, <1>6, Zenon DEF n

\* Concatenation, for proofs that only rearrange it.
Then(a, b) == a \o b

\* What is emitted next is the first of what was still to come.
LEMMA Rejoin ==
  ASSUME NEW V
  PROVE  \A e, x, p, o \in Seq(V) : Then(e, Then(Then(x, p), o)) = Then(Then(e, x), Then(p, o))
<1> SUFFICES ASSUME NEW e \in Seq(V), NEW x \in Seq(V), NEW p \in Seq(V), NEW o \in Seq(V)
             PROVE  e \o ((x \o p) \o o) = (e \o x) \o (p \o o)
  BY Zenon DEF Then
<1> DEFINE q == p \o o
<1>1. (x \o p) \o o = x \o q /\ q \in Seq(V)
  BY ConcatAssociative, ConcatProperties, SMTT(60)
<1> HIDE DEF q
<1>2. (e \o x) \o q = e \o (x \o q)
  BY <1>1, ConcatAssociative, SMTT(60)
<1>3. QED
  BY <1>1, <1>2 DEF q

\* The least of some natural numbers is one of them.
LEMMA MinIn ==
  ASSUME NEW S \in SUBSET Nat, S # {}
  PROVE  Min(S) \in S
<1>1. \E n \in S : \A m \in S : ~(<<m, n>> \in OpToRel(<, Nat))
  BY NatLessThanWellFounded, WFMin
<1>2. PICK n \in S : \A m \in S : ~(m < n)
  BY <1>1 DEF OpToRel
<1>3. \E k \in S : \A m \in S : k <= m
  BY <1>2
<1>4. QED
  BY <1>3 DEF Min

\* A map that reaches every element, each once, keeps the size of its domain.
LEMMA SameSize ==
  ASSUME NEW S, NEW T, IsFiniteSet(S), NEW f \in [S -> T],
         \A x, y \in S : f[x] = f[y] => x = y, \A y \in T : \E x \in S : f[x] = y
  PROVE  IsFiniteSet(T) /\ Cardinality(T) = Cardinality(S)
<1>1. f \in Injection(S, T) /\ f \in Surjection(S, T)
  BY DEF Injection, IsInjective, Surjection
<1>2. QED
  BY <1>1, FS_Surjection

\* One element of a set, and no other.
LEMMA OneOf ==
  ASSUME NEW S, NEW x \in S, \A y \in S : y = x
  PROVE  Cardinality(S) = 1
<1>1. S = {x}
  OBVIOUS
<1>2. QED
  BY <1>1, FS_Singleton

\* The greatest of some bounded natural numbers is one of them, and no other is
\* greater.
LEMMA MaxIn ==
  ASSUME NEW n \in Nat, NEW S \in SUBSET (0..n), S # {}
  PROVE  Max(S) \in S /\ \A m \in S : m <= Max(S)
<1> DEFINE T == {n - m : m \in S}
<1>1. T \in SUBSET Nat /\ T # {}
  OBVIOUS
<1>2. \E t \in T : \A u \in T : ~(<<u, t>> \in OpToRel(<, Nat))
  BY <1>1, NatLessThanWellFounded, WFMin
<1>3. PICK t \in T : \A u \in T : ~(u < t)
  BY <1>1, <1>2 DEF OpToRel
<1>4. PICK m \in S : t = n - m
  OBVIOUS
<1>5. ASSUME NEW k \in S PROVE k <= m
  <2>1. n - k \in T
    OBVIOUS
  <2>2. ~(n - k < n - m)
    BY <1>3, <1>4, <2>1
  <2>3. QED
    BY <2>2
<1>6. \E x \in S : \A y \in S : x >= y
  BY <1>5
<1>7. Max(S) = CHOOSE x \in S : \A y \in S : x >= y
  BY DEF Max
<1>8. QED
  BY <1>6, <1>7

\* Two more elements.
LEMMA AppendTwo ==
  ASSUME NEW V, NEW s \in Seq(V), NEW x \in V, NEW y \in V
  PROVE  s \o <<x, y>> = Append(Append(s, x), y)
<1>1. /\ s \o <<x, y>> \in Seq(V) /\ Append(Append(s, x), y) \in Seq(V)
      /\ Len(s \o <<x, y>>) = Len(Append(Append(s, x), y))
      /\ \A i \in 1..Len(s \o <<x, y>>) : (s \o <<x, y>>)[i] = Append(Append(s, x), y)[i]
  OBVIOUS
<1>2. QED
  BY <1>1, SeqEqual

\* The first element of a list moves to the end of the one before it.
LEMMA MoveOne ==
  ASSUME NEW V, NEW a \in Seq(V), NEW b \in Seq(V), b # <<>>
  PROVE  Append(a, Head(b)) \o Tail(b) = a \o b
<1> DEFINE l == Append(a, Head(b)) \o Tail(b)
           r == a \o b
<1>1. Head(b) \in V /\ Head(b) = b[1] /\ Tail(b) \in Seq(V) /\ Len(Tail(b)) = Len(b) - 1 /\ Len(b) >= 1
      /\ \A i \in 1..(Len(b) - 1) : Tail(b)[i] = b[i + 1]
  OBVIOUS
<1>2. Append(a, Head(b)) \in Seq(V) /\ Len(Append(a, Head(b))) = Len(a) + 1
      /\ Append(a, Head(b))[Len(a) + 1] = b[1]
      /\ \A i \in 1..Len(a) : Append(a, Head(b))[i] = a[i]
  BY <1>1
<1>3. l \in Seq(V) /\ r \in Seq(V) /\ Len(l) = Len(a) + Len(b) /\ Len(r) = Len(a) + Len(b)
  BY <1>1, <1>2
<1>4. ASSUME NEW i \in 1..Len(l) PROVE l[i] = r[i]
  <2>1. CASE i \in 1..Len(a)
    BY <1>1, <1>2, <2>1
  <2>2. CASE i = Len(a) + 1
    BY <1>1, <1>2, <2>2
  <2>3. CASE i > Len(a) + 1
    <3>1. i - (Len(a) + 1) \in 1..(Len(b) - 1) /\ i - Len(a) \in 1..Len(b)
          /\ (i - (Len(a) + 1)) + 1 = i - Len(a)
      BY <1>1, <1>3, <2>3
    <3>2. l[i] = Tail(b)[i - (Len(a) + 1)]
      BY <1>1, <1>2, <1>3, <2>3, <3>1
    <3>3. r[i] = b[i - Len(a)]
      BY <1>3, <2>3, <3>1
    <3>4. QED
      BY <1>1, <3>1, <3>2, <3>3
  <2>4. QED
    BY <1>3, <2>1, <2>2, <2>3
<1>5. QED
  <2> HIDE DEF l, r
  <2>1. l = r
    BY <1>3, <1>4, SeqEqual
  <2>2. QED
    BY <2>1 DEF l, r

\* One more element of the second list.
LEMMA AppendThrough ==
  ASSUME NEW V, NEW a \in Seq(V), NEW b \in Seq(V), NEW e \in V
  PROVE  a \o Append(b, e) = Append(a \o b, e)
<1>1. /\ a \o Append(b, e) \in Seq(V) /\ Append(a \o b, e) \in Seq(V)
      /\ Len(a \o Append(b, e)) = Len(Append(a \o b, e))
      /\ \A i \in 1..Len(a \o Append(b, e)) : (a \o Append(b, e))[i] = Append(a \o b, e)[i]
  OBVIOUS
<1>2. QED
  BY <1>1, SeqEqual
=============================================================================
