-------------------------- MODULE Admission_proofs --------------------------
(***************************************************************************)
(* Admission is correct for every number of requests, every size of both    *)
(* semaphores and of the queue, and every reservation.                     *)
(*                                                                         *)
(* None of the invariants of Admission is inductive by itself.  IInv adds   *)
(* what ties a request's place in acquire to its permits: what it asked     *)
(* each semaphore for (Asked), where it can be parked, and which outcome it *)
(* can have (Decided).                                                     *)
(***************************************************************************)
EXTENDS Admission, ListFacts

\* Where the CPU semaphore counts r as a customer, and for how much.
CpuAsked(r) ==
    IF \/ pc[r] \in {"cpuWait", "cpuAbandon", "pollMem", "memWait",
                     "memAbandon", "admit", "held", "dropCpu"}
       \/ pc[r] = "leaveQueue" /\ outcome[r] = "none"
      THEN 1 ELSE 0

MemAsked(r) ==
    IF /\ MemBudgetBytes # 0
       /\ \/ pc[r] \in {"memWait", "memAbandon", "admit", "held", "dropMem"}
          \/ pc[r] = "dropCpu" /\ outcome[r] = "admitted"
      THEN Want(r) ELSE 0

Asked ==
    \A r \in Requests :
      /\ cpu.need[r] = CpuAsked(r)
      /\ mem.need[r] = MemAsked(r)
      /\ r \in Parked(cpu) => pc[r] \in {"cpuWait", "cpuAbandon"}
      /\ r \in Parked(mem) => pc[r] \in {"memWait", "memAbandon"}

Decided ==
    \A r \in Requests :
      /\ pc[r] \in {"idle", "tryCpu", "loadQueued", "reserveSlot", "pollCpu",
                    "cpuWait", "pollMem", "memWait", "admit"} => outcome[r] = "none"
      /\ pc[r] \in {"cpuAbandon", "memAbandon"} => outcome[r] \in {"overloaded", "cancelled"}
      /\ pc[r] = "leaveQueue" => outcome[r] \in {"none", "overloaded", "cancelled"}
      /\ pc[r] = "dropCpu" => outcome[r] \in {"admitted", "overloaded", "cancelled"}
      /\ pc[r] \in {"held", "dropMem"} => outcome[r] = "admitted"
      /\ pc[r] = "done" => outcome[r] # "none"

Gauges ==
    /\ inFlight = Cardinality(Admitted)
    /\ queued = Cardinality(HoldsQueuePlace)
    /\ queued <= QueueDepth

IInv == TypeOK /\ SemaphoresSound /\ Asked /\ Decided /\ Gauges
-----------------------------------------------------------------------------
(* The semaphore: its operations keep SemaphoreInv, for any set of permits   *)
(* and any number of tasks                                                  *)

\* A new semaphore is sound: no permit is out and nobody waits.
LEMMA NewSemaphoreSound ==
  ASSUME NEW P
  PROVE  SemaphoreInv(NewSemaphore(P), P)
<1> DEFINE s == NewSemaphore(P)
<1>1. s \in Semaphores(P)
  BY DEF NewSemaphore, Semaphores
<1>2. PermitsPartitioned(s, P)
  BY DEF NewSemaphore, PermitsPartitioned
<1>3. QueueJustified(s)
  BY FS_EmptySet DEF NewSemaphore, QueueJustified, Parked
<1>4. QED
  BY <1>1, <1>2, <1>3 DEF SemaphoreInv

\* Permits that leave the counter for a task that has none are in one place.
LEMMA TakePartition ==
  ASSUME NEW P, NEW s \in Semaphores(P), PermitsPartitioned(s, P),
         NEW t \in Tasks, s.got[t] = {}, NEW n \in Nat, NEW g \in SUBSET s.free
  PROVE  /\ Take(s, t, n, g) \in Semaphores(P)
         /\ PermitsPartitioned(Take(s, t, n, g), P)
         /\ Take(s, t, n, g).queue = s.queue
         /\ Take(s, t, n, g).free = s.free \ g
         /\ Take(s, t, n, g).need = [s.need EXCEPT ![t] = n]
         /\ Take(s, t, n, g).got = [s.got EXCEPT ![t] = g]
<1> DEFINE s2 == Take(s, t, n, g)
<1>1. /\ s2.free = s.free \ g
      /\ s2.queue = s.queue
      /\ s2.got = [s.got EXCEPT ![t] = g]
      /\ s2.need = [s.need EXCEPT ![t] = n]
      /\ s2 \in Semaphores(P)
  BY DEF Take, Semaphores
<1>2. \A u \in Tasks : s2.got[u] = IF u = t THEN g ELSE s.got[u]
  BY <1>1 DEF Semaphores
<1>3. P = s2.free \cup UNION {s2.got[u] : u \in Tasks}
  BY <1>1, <1>2 DEF PermitsPartitioned
<1>4. \A u \in Tasks : s2.free \cap s2.got[u] = {}
  BY <1>1, <1>2 DEF PermitsPartitioned
<1>5. \A u, v \in Tasks : u # v => s2.got[u] \cap s2.got[v] = {}
  BY <1>1, <1>2 DEF PermitsPartitioned
<1>6. QED
  BY <1>1, <1>3, <1>4, <1>5 DEF PermitsPartitioned

\* A task that asked for nothing is neither parked nor does it own a permit.
LEMMA IdleOwnsNothing ==
  ASSUME NEW P, IsFiniteSet(P), NEW s, SemaphoreInv(s, P),
         NEW t \in Tasks, s.need[t] = 0
  PROVE  t \notin Parked(s) /\ s.got[t] = {}
<1>1. s \in Semaphores(P) /\ QueueJustified(s)
  BY DEF SemaphoreInv
<1>2. IsFiniteSet(s.got[t])
  BY <1>1, FS_Subset DEF Semaphores
<1>3. Cardinality(s.got[t]) \in Nat
  BY <1>2, FS_CardinalityType
<1>4. t \notin Parked(s)
  BY <1>1, <1>3 DEF QueueJustified, Parked
<1>5. Cardinality(s.got[t]) = 0
  BY <1>1, <1>4 DEF QueueJustified
<1>6. QED
  BY <1>2, <1>4, <1>5, FS_EmptySet

\* A task that owned nothing is given all it asked for out of the counter.
LEMMA TakeAllSound ==
  ASSUME NEW P, IsFiniteSet(P), NEW s, SemaphoreInv(s, P),
         NEW t \in Tasks, s.need[t] = 0, NEW n \in Nat,
         NEW g \in SUBSET s.free, Cardinality(g) = n
  PROVE  /\ SemaphoreInv(Take(s, t, n, g), P)
         /\ t \notin Parked(Take(s, t, n, g))
<1> DEFINE s2 == Take(s, t, n, g)
<1>1. /\ s \in Semaphores(P) /\ PermitsPartitioned(s, P) /\ QueueJustified(s)
      /\ t \notin Parked(s) /\ s.got[t] = {}
  BY IdleOwnsNothing DEF SemaphoreInv
<1>2. /\ s2 \in Semaphores(P) /\ PermitsPartitioned(s2, P)
      /\ s2.queue = s.queue /\ s2.free = s.free \ g
      /\ s2.need = [s.need EXCEPT ![t] = n]
      /\ s2.got = [s.got EXCEPT ![t] = g]
  BY <1>1, TakePartition
<1>3. Parked(s2) = Parked(s)
  BY <1>2 DEF Parked
<1>4. \A u \in Tasks \ Parked(s2) : Cardinality(s2.got[u]) = s2.need[u]
  BY <1>1, <1>2, <1>3 DEF QueueJustified, Semaphores
<1>5. \A i \in 1..Len(s.queue) : s.queue[i] # t /\ s.queue[i] \in Tasks
  BY <1>1 DEF Parked, Semaphores
<1>6. \A i \in 1..Len(s.queue) :
         s2.got[s.queue[i]] = s.got[s.queue[i]] /\ s2.need[s.queue[i]] = s.need[s.queue[i]]
  BY <1>1, <1>2, <1>5 DEF Semaphores
<1>7. QueueJustified(s2)
  BY <1>1, <1>2, <1>4, <1>6 DEF QueueJustified
<1>8. QED
  BY <1>1, <1>2, <1>3, <1>7 DEF SemaphoreInv

\* try_acquire: the task gets one permit and was not parked.
LEMMA TryAcquireSound ==
  ASSUME NEW P, IsFiniteSet(P), NEW s, SemaphoreInv(s, P),
         NEW t \in Tasks, s.need[t] = 0, NEW s2 \in TryAcquire(s, t)
  PROVE  /\ SemaphoreInv(s2, P)
         /\ t \notin Parked(s2)
         /\ Parked(s2) = Parked(s)
         /\ s2.need = [s.need EXCEPT ![t] = 1]
         /\ \A u \in Tasks \ {t} : s.got[u] \subseteq s2.got[u]
<1>1. PICK g \in Subsets(s.free, 1) : s2 = Take(s, t, 1, g)
  BY DEF TryAcquire
<1>2. g \in SUBSET s.free /\ Cardinality(g) = 1
  BY DEF Subsets
<1>3. SemaphoreInv(s2, P) /\ t \notin Parked(s2)
  BY <1>1, <1>2, TakeAllSound
<1>4. s \in Semaphores(P) /\ PermitsPartitioned(s, P) /\ s.got[t] = {}
  BY IdleOwnsNothing DEF SemaphoreInv
<1>5. /\ s2.need = [s.need EXCEPT ![t] = 1] /\ s2.queue = s.queue
      /\ s2.got = [s.got EXCEPT ![t] = g]
  BY <1>1, <1>2, <1>4, TakePartition
<1>6. QED
  BY <1>3, <1>4, <1>5 DEF Semaphores, Parked

\* The first poll of acquire: all permits, or the end of the queue with part.
LEMMA AcquireSound ==
  ASSUME NEW P, IsFiniteSet(P), NEW s, SemaphoreInv(s, P),
         NEW t \in Tasks, s.need[t] = 0, NEW n \in Nat, NEW s2 \in Acquire(s, t, n)
  PROVE  /\ SemaphoreInv(s2, P)
         /\ Parked(s2) \subseteq Parked(s) \cup {t}
         /\ s2.need = [s.need EXCEPT ![t] = n]
         /\ \A u \in Tasks \ {t} : s.got[u] \subseteq s2.got[u]
<1>1. /\ s \in Semaphores(P) /\ PermitsPartitioned(s, P) /\ QueueJustified(s)
      /\ t \notin Parked(s) /\ s.got[t] = {}
  BY IdleOwnsNothing DEF SemaphoreInv
<1>2. CASE Cardinality(s.free) >= n
  <2>1. PICK g \in Subsets(s.free, n) : s2 = Take(s, t, n, g)
    BY <1>2 DEF Acquire
  <2>2. g \in SUBSET s.free /\ Cardinality(g) = n
    BY DEF Subsets
  <2>3. SemaphoreInv(s2, P)
    BY <2>1, <2>2, TakeAllSound
  <2>4. /\ s2.need = [s.need EXCEPT ![t] = n] /\ s2.queue = s.queue
        /\ s2.got = [s.got EXCEPT ![t] = g]
    BY <1>1, <2>1, <2>2, TakePartition
  <2>5. QED
    BY <1>1, <2>3, <2>4 DEF Semaphores, Parked
<1>3. CASE ~(Cardinality(s.free) >= n)
  <2> DEFINE ln == Len(s.queue)
  <2>1. /\ s2.free = {}
        /\ s2.queue = Append(s.queue, t)
        /\ s2.got = [s.got EXCEPT ![t] = s.free]
        /\ s2.need = [s.need EXCEPT ![t] = n]
        /\ s2 = [free |-> s2.free, queue |-> s2.queue, got |-> s2.got, need |-> s2.need]
    BY <1>3 DEF Acquire
  <2>2. /\ s.queue \in Seq(Tasks) /\ s.free \in SUBSET P
        /\ s.got \in [Tasks -> SUBSET P] /\ s.need \in [Tasks -> Nat]
    BY <1>1 DEF Semaphores
  <2>3. s2 \in Semaphores(P)
    <3>1. Append(s.queue, t) \in Seq(Tasks)
      BY <2>2
    <3>2. /\ s2.got \in [Tasks -> SUBSET P]
          /\ s2.need \in [Tasks -> Nat]
          /\ s2.free \in SUBSET P
      BY <2>1, <2>2
    <3>3. QED
      BY <2>1, <3>1, <3>2, Zenon DEF Semaphores
  <2>4. PermitsPartitioned(s2, P)
    <3>1. \A u \in Tasks : s2.got[u] = IF u = t THEN s.free ELSE s.got[u]
      BY <2>1, <2>2
    <3>2. P = s2.free \cup UNION {s2.got[u] : u \in Tasks}
      BY <1>1, <2>1, <3>1 DEF PermitsPartitioned
    <3>3. \A u \in Tasks : s2.free \cap s2.got[u] = {}
      BY <2>1
    <3>4. \A u, v \in Tasks : u # v => s2.got[u] \cap s2.got[v] = {}
      BY <1>1, <3>1 DEF PermitsPartitioned
    <3>5. QED
      BY <3>2, <3>3, <3>4 DEF PermitsPartitioned
  <2>5. /\ ln \in Nat /\ Len(s2.queue) = ln + 1
        /\ s2.queue[ln + 1] = t
        /\ \A i \in 1..ln : s2.queue[i] = s.queue[i] /\ s.queue[i] \in Tasks \ {t}
    BY <1>1, <2>1, <2>2 DEF Parked
  <2>6. Parked(s2) = Parked(s) \cup {t}
    BY <2>5, SMTT(20) DEF Parked
  <2>7. Cardinality(s.free) \in Nat /\ (ln > 0 => s.free = {})
    <3>1. IsFiniteSet(s.free)
      BY <1>1, FS_Subset DEF Semaphores
    <3>2. ln > 0 => s.free = {}
      BY <1>1, <2>5 DEF QueueJustified
    <3>3. QED
      BY <3>1, <3>2, FS_CardinalityType
  <2>8. ASSUME NEW i \in 1..Len(s2.queue), NEW j \in 1..Len(s2.queue),
               s2.queue[i] = s2.queue[j]
        PROVE  i = j
    <3>1. \A a, b \in 1..ln : s.queue[a] = s.queue[b] => a = b
      BY <1>1 DEF QueueJustified
    <3> HIDE DEF ln
    <3>2. (i \in 1..ln \/ i = ln + 1) /\ (j \in 1..ln \/ j = ln + 1)
      BY <2>5
    <3>3. QED
      BY <2>5, <2>8, <3>1, <3>2
  <2>9. \A u \in Tasks \ Parked(s2) : Cardinality(s2.got[u]) = s2.need[u]
    BY <1>1, <2>1, <2>2, <2>6 DEF QueueJustified
  <2>10. ASSUME NEW i \in 1..Len(s2.queue)
         PROVE  /\ Cardinality(s2.got[s2.queue[i]]) < s2.need[s2.queue[i]]
                /\ i > 1 => s2.got[s2.queue[i]] = {}
    <3>1. CASE i = ln + 1
      <4>1. s2.got[t] = s.free /\ s2.need[t] = n /\ s2.queue[i] = t
        BY <2>1, <2>2, <2>5, <3>1
      <4>2. i > 1 => s.free = {}
        BY <2>5, <2>7, <3>1
      <4>3. QED
        BY <1>3, <2>7, <4>1, <4>2
    <3>2. CASE i \in 1..ln
      <4>1. /\ s2.queue[i] = s.queue[i]
            /\ s2.got[s.queue[i]] = s.got[s.queue[i]]
            /\ s2.need[s.queue[i]] = s.need[s.queue[i]]
        BY <2>1, <2>2, <2>5, <3>2
      <4>2. QED
        BY <1>1, <3>2, <4>1 DEF QueueJustified
    <3>3. QED
      BY <2>5, <3>1, <3>2
  <2>11. QueueJustified(s2)
    BY <2>1, <2>8, <2>9, <2>10 DEF QueueJustified
  <2>12. QED
    BY <2>1, <2>2, <2>3, <2>4, <2>6, <2>11 DEF SemaphoreInv
<1>4. QED
  BY <1>2, <1>3

\* Unlinking a task from the queue leaves the others in their order; a task
\* that is not at the head afterwards was not at the head before.
LEMMA UnlinkedSound ==
  ASSUME NEW P, NEW s \in Semaphores(P), NEW t \in Tasks,
         \A i, j \in 1..Len(s.queue) : s.queue[i] = s.queue[j] => i = j
  PROVE  LET q == Unlinked(s, t)
         IN  /\ q \in Seq(Tasks)
             /\ \A i, j \in 1..Len(q) : q[i] = q[j] => i = j
             /\ {q[i] : i \in 1..Len(q)} = Parked(s) \ {t}
             /\ \A i \in 1..Len(q) : \E j \in 1..Len(s.queue) :
                  q[i] = s.queue[j] /\ (i > 1 => j > 1)
<1> DEFINE q == Unlinked(s, t)
           w == s.queue
           n == Len(w)
<1>1. w \in Seq(Tasks) /\ n \in Nat
  BY DEF Semaphores
<1>2. CASE t \notin Parked(s)
  <2>1. q = w
    BY <1>2 DEF Unlinked
  <2>2. \A i \in 1..n : w[i] \in Tasks
    BY <1>1
  <2>3. QED
    BY <1>1, <1>2, <2>1 DEF Parked
<1>3. CASE t \in Parked(s)
  <2>1. PICK m \in 1..n : w[m] = t /\ q = SubSeq(w, 1, m - 1) \o SubSeq(w, m + 1, n)
    BY <1>3 DEF Unlinked, Parked
  <2> DEFINE a == SubSeq(w, 1, m - 1)
             b == SubSeq(w, m + 1, n)
  <2>2. /\ a \in Seq(Tasks) /\ Len(a) = m - 1
        /\ \A i \in 1..(m - 1) : a[i] = w[i]
    BY <1>1, <2>1, SubSeqProperties
  <2>3. /\ b \in Seq(Tasks) /\ Len(b) = n - m
        /\ \A i \in 1..(n - m) : b[i] = w[m + i]
    BY <1>1, <2>1, SubSeqProperties
  <2>4. /\ q \in Seq(Tasks) /\ Len(q) = n - 1
        /\ \A i \in 1..(n - 1) : q[i] = IF i < m THEN w[i] ELSE w[i + 1]
    <3>1. q = a \o b
      BY <2>1
    <3> HIDE DEF q, a, b, w, n
    <3>2. /\ q \in Seq(Tasks) /\ Len(q) = Len(a) + Len(b)
          /\ \A i \in 1..(Len(a) + Len(b)) :
               q[i] = IF i <= Len(a) THEN a[i] ELSE b[i - Len(a)]
      BY <2>2, <2>3, <3>1, ConcatProperties
    <3>3. ASSUME NEW i \in 1..(n - 1)
          PROVE  q[i] = IF i < m THEN w[i] ELSE w[i + 1]
      <4>1. CASE i < m
        BY <1>1, <2>2, <2>3, <3>2, <4>1
      <4>2. CASE i >= m
        <5>1. q[i] = b[i - (m - 1)]
          BY <1>1, <2>2, <2>3, <3>2, <4>2
        <5>2. i - (m - 1) \in 1..(n - m) /\ m + (i - (m - 1)) = i + 1
          BY <1>1, <4>2
        <5>3. b[i - (m - 1)] = w[m + (i - (m - 1))]
          BY <2>3, <5>2
        <5>4. ~(i < m)
          BY <1>1, <4>2
        <5>5. QED
          BY <5>1, <5>2, <5>3, <5>4
      <4>3. QED
        BY <1>1, <2>1, <4>1, <4>2
    <3>4. Len(a) + Len(b) = n - 1
      BY <1>1, <2>1, <2>2, <2>3
    <3>5. QED
      BY <3>2, <3>3, <3>4
  <2> HIDE DEF q, a, b, w, n
  <2>5. \A i, j \in 1..n : w[i] = w[j] => i = j
    BY DEF w, n
  <2>6. ASSUME NEW i \in 1..Len(q), NEW j \in 1..Len(q), q[i] = q[j]
        PROVE  i = j
    <3> DEFINE at(k) == IF k < m THEN k ELSE k + 1
    <3>1. \A k \in 1..(n - 1) : at(k) \in 1..n /\ q[k] = w[at(k)]
      <4>1. \A k \in 1..(n - 1) : q[k] = IF k < m THEN w[k] ELSE w[k + 1]
        BY <2>4
      <4>2. \A k \in 1..(n - 1) : at(k) \in 1..n
        BY <1>1, <2>1
      <4>3. QED
        BY <4>1, <4>2
    <3>2. i \in 1..(n - 1) /\ j \in 1..(n - 1)
      BY <2>4
    <3>3. at(i) = at(j)
      <4> HIDE DEF at
      <4>1. QED
        BY <2>5, <2>6, <3>1, <3>2
    <3>4. QED
      BY <1>1, <3>2, <3>3
  <2>7. ASSUME NEW i \in 1..Len(q)
        PROVE  \E j \in 1..n : q[i] = w[j] /\ (i > 1 => j > 1) /\ j # m
    <3>1. i \in 1..(n - 1)
      BY <2>4
    <3>2. CASE i < m
      <4>1. i \in 1..n /\ q[i] = w[i] /\ i # m
        BY <1>1, <2>1, <2>4, <3>1, <3>2
      <4>2. QED
        BY <4>1
    <3>3. CASE ~(i < m)
      <4>1. i + 1 \in 1..n /\ i + 1 # m /\ i + 1 > 1
        BY <1>1, <3>1, <3>3
      <4>2. q[i] = w[i + 1]
        BY <2>4, <3>1, <3>3
      <4>3. QED
        BY <4>1, <4>2
    <3>4. QED
      BY <3>2, <3>3
  <2>8. ASSUME NEW j \in 1..n, j # m
        PROVE  \E i \in 1..Len(q) : q[i] = w[j]
    <3>1. CASE j < m
      <4>1. j \in 1..(n - 1) /\ q[j] = w[j]
        BY <1>1, <2>1, <2>4, <3>1, SMTT(20)
      <4>2. QED
        BY <2>4, <4>1
    <3>2. CASE j > m
      <4>1. j - 1 \in 1..(n - 1) /\ (j - 1) + 1 = j /\ ~(j - 1 < m)
        BY <1>1, <2>1, <3>2
      <4>2. QED
        BY <2>4, <4>1
    <3>3. j < m \/ j > m
      BY <1>1, <2>1, <2>8
    <3>4. QED
      BY <3>1, <3>2, <3>3
  <2>9. {q[i] : i \in 1..Len(q)} = {w[i] : i \in 1..n} \ {t}
    <3>1. ASSUME NEW i \in 1..Len(q)
          PROVE  q[i] \in {w[j] : j \in 1..n} \ {t}
      <4>1. PICK j \in 1..n : q[i] = w[j] /\ j # m
        BY <2>7
      <4>2. w[j] # t
        BY <2>1, <2>5, <4>1
      <4>3. QED
        BY <4>1, <4>2
    <3>2. ASSUME NEW j \in 1..n, w[j] # t
          PROVE  w[j] \in {q[i] : i \in 1..Len(q)}
      BY <2>1, <2>8, <3>2
    <3>3. QED
      BY <3>1, <3>2
  <2>10. QED
    BY <2>4, <2>6, <2>7, <2>9 DEF w, n, q, Parked
<1>4. QED
  BY <1>2, <1>3

\* Whatever t returns goes to the queue in order, and what the queue cannot use
\* to the counter; t keeps nothing and nobody else loses anything.
LEMMA ReleaseSound ==
  ASSUME NEW P, IsFiniteSet(P), NEW s, SemaphoreInv(s, P),
         NEW t \in Tasks, NEW s2 \in Release(s, t)
  PROVE  /\ SemaphoreInv(s2, P)
         /\ s2.need = [s.need EXCEPT ![t] = 0]
         /\ Parked(s2) \subseteq Parked(s) \ {t}
         /\ s2.got[t] = {}
         /\ \A u \in Tasks \ {t} : s.got[u] \subseteq s2.got[u]
<1> DEFINE pool == s.got[t]
           q    == Unlinked(s, t)
           left == [s EXCEPT !.got[t] = {}, !.need[t] = 0]
<1>1. s \in Semaphores(P) /\ PermitsPartitioned(s, P) /\ QueueJustified(s)
  BY DEF SemaphoreInv
<1>2. PICK k \in 0..Len(q), give \in [pool -> Tasks \cup {Nobody}] :
         /\ FirstServed(left, q, pool, k, give)
         /\ s2 = [free  |-> s.free \cup {p \in pool : give[p] = Nobody},
                  queue |-> SubSeq(q, k + 1, Len(q)),
                  got   |-> [u \in Tasks |-> Given(left, pool, give, u)],
                  need  |-> left.need]
  <2>1. PICK h \in (0..Len(q)) \X [pool -> Tasks \cup {Nobody}] :
           /\ FirstServed(left, q, pool, h[1], h[2])
           /\ s2 = [free  |-> s.free \cup {p \in pool : h[2][p] = Nobody},
                    queue |-> SubSeq(q, h[1] + 1, Len(q)),
                    got   |-> [u \in Tasks |-> Given(left, pool, h[2], u)],
                    need  |-> left.need]
    BY DEF Release
  <2>2. h[1] \in 0..Len(q) /\ h[2] \in [pool -> Tasks \cup {Nobody}]
    OBVIOUS
  <2>3. QED
    BY <2>1, <2>2
<1>3. /\ s.queue \in Seq(Tasks) /\ s.free \in SUBSET P
      /\ s.got \in [Tasks -> SUBSET P] /\ s.need \in [Tasks -> Nat]
  BY <1>1 DEF Semaphores
<1>4. /\ left.got = [s.got EXCEPT ![t] = {}]
      /\ left.need = [s.need EXCEPT ![t] = 0]
  BY <1>1 DEF Semaphores
<1>5. /\ q \in Seq(Tasks)
      /\ \A i, j \in 1..Len(q) : q[i] = q[j] => i = j
      /\ {q[i] : i \in 1..Len(q)} = Parked(s) \ {t}
      /\ \A i \in 1..Len(q) : \E j \in 1..Len(s.queue) :
           q[i] = s.queue[j] /\ (i > 1 => j > 1)
  BY <1>1, UnlinkedSound DEF QueueJustified
<1> HIDE DEF pool, q, left
<1>6. /\ s2.free = s.free \cup {p \in pool : give[p] = Nobody}
      /\ s2.queue = SubSeq(q, k + 1, Len(q))
      /\ s2.got = [u \in Tasks |-> Given(left, pool, give, u)]
      /\ s2.need = left.need
      /\ s2 = [free |-> s2.free, queue |-> s2.queue, got |-> s2.got, need |-> s2.need]
  BY <1>2
<1>7. \A u \in Tasks :
         s2.got[u] = (IF u = t THEN {} ELSE s.got[u]) \cup {p \in pool : give[p] = u}
  BY <1>3, <1>4, <1>6 DEF Given
<1>8. \A u \in Tasks : s2.need[u] = IF u = t THEN 0 ELSE s.need[u]
  BY <1>3, <1>4, <1>6
<1>9. /\ Len(q) \in Nat /\ k \in Nat /\ k <= Len(q)
      /\ s2.queue \in Seq(Tasks) /\ Len(s2.queue) = Len(q) - k
      /\ \A i \in 1..(Len(q) - k) : s2.queue[i] = q[k + i]
  <2>1. Len(q) \in Nat /\ k \in Nat /\ k <= Len(q)
    BY <1>5
  <2>2. \A i \in (k + 1)..Len(q) : q[i] \in Tasks
    BY <1>5, <2>1
  <2>3. /\ s2.queue \in Seq(Tasks)
        /\ Len(s2.queue) = IF k + 1 <= Len(q) THEN Len(q) - (k + 1) + 1 ELSE 0
        /\ \A i \in 1..(Len(q) - (k + 1) + 1) : s2.queue[i] = q[(k + 1) + i - 1]
    BY <1>6, <2>1, <2>2, SubSeqProperties
  <2>4. QED
    BY <2>1, <2>3
<1>10. \A i \in 1..Len(q) : q[i] \in Tasks /\ q[i] # t /\ q[i] \in Parked(s)
  BY <1>5
<1>11. \A p \in pool, u \in Tasks : give[p] = u =>
          \E i \in 1..Len(q) : i <= k + 1 /\ u = q[i]
  BY <1>2 DEF FirstServed
<1>12. s2.got[t] = {}
  BY <1>7, <1>10, <1>11
<1>13. \A u \in Tasks \ {t} : s.got[u] \subseteq s2.got[u]
  BY <1>7
<1>14. Parked(s2) \subseteq Parked(s) \ {t}
  <2>1. \A i \in 1..(Len(q) - k) : k + i \in 1..Len(q)
    BY <1>9
  <2>2. ASSUME NEW i \in 1..Len(s2.queue)
        PROVE  s2.queue[i] \in Parked(s) \ {t}
    <3>1. i \in 1..(Len(q) - k) /\ s2.queue[i] = q[k + i]
      BY <1>9
    <3>2. QED
      BY <1>10, <2>1, <3>1
  <2>3. QED
    BY <2>2 DEF Parked
<1>15. s2.need = [s.need EXCEPT ![t] = 0]
  BY <1>4, <1>6
<1>16. pool \in SUBSET P /\ pool = s.got[t]
  BY <1>3 DEF pool
<1>17. s2 \in Semaphores(P)
  <2>1. s2.got \in [Tasks -> SUBSET P]
    BY <1>3, <1>6, <1>7, <1>16
  <2>2. s2.need \in [Tasks -> Nat]
    BY <1>3, <1>15
  <2>3. s2.free \in SUBSET P
    BY <1>3, <1>6, <1>16
  <2>4. QED
    BY <1>6, <1>9, <2>1, <2>2, <2>3, Zenon DEF Semaphores
<1>18. PermitsPartitioned(s2, P)
  <2>1. /\ P = s.free \cup UNION {s.got[u] : u \in Tasks}
        /\ \A u \in Tasks : s.free \cap s.got[u] = {}
        /\ \A u, v \in Tasks : u # v => s.got[u] \cap s.got[v] = {}
    BY <1>1 DEF PermitsPartitioned
  <2>2. ASSUME NEW p \in P
        PROVE  p \in s2.free \cup UNION {s2.got[u] : u \in Tasks}
    <3>1. CASE p \in pool
      <4>1. give[p] = Nobody \/ give[p] \in Tasks
        BY <1>2, <3>1
      <4>2. QED
        BY <1>6, <1>7, <3>1, <4>1
    <3>2. CASE p \notin pool
      <4>1. p \in s.free \/ \E u \in Tasks : u # t /\ p \in s.got[u]
        BY <1>16, <2>1, <3>2
      <4>2. QED
        BY <1>6, <1>7, <4>1
    <3>3. QED
      BY <3>1, <3>2
  <2>3. s2.free \cup UNION {s2.got[u] : u \in Tasks} \subseteq P
    BY <1>17 DEF Semaphores
  <2>4. \A u \in Tasks : s2.free \cap s2.got[u] = {}
    BY <1>6, <1>7, <1>16, <2>1, NobodyIsNoTask
  <2>5. \A u, v \in Tasks : u # v => s2.got[u] \cap s2.got[v] = {}
    BY <1>7, <1>16, <2>1
  <2>6. P = s2.free \cup UNION {s2.got[u] : u \in Tasks}
    BY <2>2, <2>3
  <2>7. QED
    BY <2>4, <2>5, <2>6 DEF PermitsPartitioned
<1>19. QueueJustified(s2)
  <2>1. \A i, j \in 1..Len(s2.queue) : s2.queue[i] = s2.queue[j] => i = j
    <3>1. \A i \in 1..(Len(q) - k) : k + i \in 1..Len(q)
      BY <1>9
    <3>2. QED
      BY <1>5, <1>9, <3>1
  <2>2. s2.queue # <<>> => s2.free = {}
    <3>1. SUFFICES ASSUME k < Len(q)
                   PROVE  s2.free = {}
      BY <1>9
    <3>2. \A p \in pool : give[p] # Nobody
      BY <1>2, <3>1 DEF FirstServed
    <3>3. s.queue # <<>>
      BY <1>3, <1>5, <1>9, <3>1, SMTT(20)
    <3>4. QED
      BY <1>1, <1>6, <3>2, <3>3 DEF QueueJustified
  <2>3. ASSUME NEW u \in Tasks \ Parked(s2)
        PROVE  Cardinality(s2.got[u]) = s2.need[u]
    <3>1. CASE u = t
      BY <1>8, <1>12, <3>1, FS_EmptySet
    <3>2. CASE u # t /\ u \notin Parked(s)
      <4>1. {p \in pool : give[p] = u} = {}
        BY <1>10, <1>11, <3>2
      <4>2. s2.got[u] = s.got[u] \cup {}
        BY <1>7, <3>2, <4>1
      <4>3. s2.need[u] = s.need[u]
        BY <1>8, <3>2
      <4>4. QED
        BY <1>1, <3>2, <4>2, <4>3 DEF QueueJustified
    <3>3. CASE u # t /\ u \in Parked(s)
      <4>1. PICK i \in 1..Len(q) : u = q[i]
        BY <1>5, <3>3
      <4>2. i \in 1..k
        <5>1. ASSUME i > k
              PROVE  u \in Parked(s2)
          <6>1. i - k \in 1..(Len(q) - k) /\ k + (i - k) = i
            BY <1>9, <5>1
          <6>2. s2.queue[i - k] = u
            BY <1>9, <4>1, <6>1
          <6>3. QED
            BY <1>9, <6>1, <6>2 DEF Parked
        <5>2. QED
          BY <1>9, <5>1
      <4>3. Cardinality(Given(left, pool, give, u)) = left.need[u]
        BY <1>2, <4>1, <4>2 DEF FirstServed
      <4>4. QED
        BY <1>6, <4>3
    <3>4. QED
      BY <3>1, <3>2, <3>3
  <2>4. ASSUME NEW i \in 1..Len(s2.queue)
        PROVE  /\ Cardinality(s2.got[s2.queue[i]]) < s2.need[s2.queue[i]]
               /\ i > 1 => s2.got[s2.queue[i]] = {}
    <3> DEFINE u == s2.queue[i]
    <3>1. /\ k + i \in 1..Len(q) /\ u = q[k + i] /\ u \in Tasks /\ u # t
          /\ k < Len(q)
      BY <1>9, <1>10
    <3>2. CASE i = 1
      <4>1. Cardinality(Given(left, pool, give, u)) < left.need[u]
        BY <1>2, <3>1, <3>2 DEF FirstServed
      <4>2. QED
        BY <1>6, <3>1, <3>2, <4>1
    <3>3. CASE i > 1
      <4>1. PICK j \in 1..Len(s.queue) : u = s.queue[j] /\ j > 1
        <5>1. k + i > 1
          BY <1>9, <3>3
        <5>2. QED
          BY <1>5, <3>1, <5>1
      <4>2. s.got[u] = {} /\ Cardinality(s.got[u]) < s.need[u]
        BY <1>1, <4>1 DEF QueueJustified
      <4>3. \A p \in pool : give[p] # u
        <5>1. \A m \in 1..Len(q) : m <= k + 1 => m # k + i
          BY <1>9, <3>3
        <5>2. QED
          BY <1>5, <1>11, <3>1, <5>1
      <4>4. {p \in pool : give[p] = u} = {}
        BY <4>3
      <4>5. s2.got[u] = s.got[u] \cup {}
        BY <1>7, <3>1, <4>4
      <4>6. s2.need[u] = s.need[u]
        BY <1>8, <3>1
      <4>7. QED
        BY <4>2, <4>5, <4>6
    <3>4. QED
      BY <1>9, <3>2, <3>3
  <2>5. QED
    BY <2>1, <2>2, <2>3, <2>4 DEF QueueJustified
<1>20. QED
  BY <1>12, <1>13, <1>14, <1>15, <1>17, <1>18, <1>19 DEF SemaphoreInv

\* As many tasks own a permit as there are permits, at most.
LEMMA OwnersBounded ==
  ASSUME NEW P, IsFiniteSet(P), NEW s, SemaphoreInv(s, P),
         NEW S \in SUBSET Tasks, \A t \in S : s.got[t] # {}
  PROVE  IsFiniteSet(S) /\ Cardinality(S) <= Cardinality(P)
<1> DEFINE f == [t \in S |-> CHOOSE p \in P : p \in s.got[t]]
<1>1. \A t \in S : f[t] \in P /\ f[t] \in s.got[t]
  BY DEF SemaphoreInv, Semaphores
<1>2. f \in [S -> P]
  BY <1>1
<1>3. ASSUME NEW t \in S, NEW u \in S, f[t] = f[u]
      PROVE  t = u
  BY <1>1, <1>3 DEF SemaphoreInv, PermitsPartitioned
<1>4. f \in Injection(S, P)
  <2> HIDE DEF f
  <2>1. QED
    BY <1>2, <1>3 DEF Injection, IsInjective
<1>5. QED
  BY <1>4, FS_Injection

\* With nobody asking, the semaphore is as it was made: nothing leaked.
LEMMA IdleIsNew ==
  ASSUME NEW P, IsFiniteSet(P), NEW s, SemaphoreInv(s, P),
         \A t \in Tasks : s.need[t] = 0
  PROVE  s = NewSemaphore(P)
<1>1. \A t \in Tasks : t \notin Parked(s) /\ s.got[t] = {}
  BY IdleOwnsNothing
<1>2. /\ s.queue \in Seq(Tasks) /\ s.free \in SUBSET P
      /\ s.got \in [Tasks -> SUBSET P] /\ s.need \in [Tasks -> Nat]
      /\ s = [free |-> s.free, queue |-> s.queue, got |-> s.got, need |-> s.need]
  BY DEF SemaphoreInv, Semaphores
<1>3. s.queue = <<>>
  <2>1. Len(s.queue) = 0
    <3>1. SUFFICES ASSUME Len(s.queue) # 0 PROVE FALSE
      OBVIOUS
    <3>2. 1 \in 1..Len(s.queue)
      BY <1>2, <3>1
    <3>3. s.queue[1] \in Tasks /\ s.queue[1] \in Parked(s)
      BY <1>2, <3>2 DEF Parked
    <3>4. QED
      BY <1>1, <3>3
  <2>2. QED
    BY <1>2, <2>1
<1>4. s.free = P
  BY <1>1 DEF SemaphoreInv, PermitsPartitioned
<1>5. s.got = [t \in Tasks |-> {}] /\ s.need = [t \in Tasks |-> 0]
  BY <1>1, <1>2
<1>6. QED
  BY <1>2, <1>3, <1>4, <1>5 DEF NewSemaphore
-----------------------------------------------------------------------------
(* The requests *)

\* The reservation in permits is a number, and not 0.
LEMMA WantType ==
  ASSUME TypeOK, NEW r \in Requests
  PROVE  Want(r) \in Nat /\ Want(r) > 0 /\ BudgetPermits \in Nat
<1>1. \A a \in Nat : a \div BytesPerPermit \in Nat
  BY ConfigAssumption
<1>2. reserve[r] + BytesPerPermit - 1 \in Nat
  BY ConfigAssumption DEF TypeOK
<1>3. BudgetPermits \in Nat /\ BudgetPermits > 0
  BY <1>1, ConfigAssumption DEF BudgetPermits, AtLeastOne
<1>4. QED
  BY <1>1, <1>2, <1>3 DEF Want, AtLeastOne

\* How a step of one request changes the number of requests in some places.
LEMMA CountStep ==
  ASSUME TypeOK, NEW r \in Requests, NEW to \in PCs, NEW S,
         pc' = [pc EXCEPT ![r] = to]
  PROVE  Cardinality(At(S))' =
           Cardinality(At(S)) + (IF to \in S THEN 1 ELSE 0)
                              - (IF pc[r] \in S THEN 1 ELSE 0)
<1>1. IsFiniteSet(At(S)) /\ Cardinality(At(S)) \in Nat
  BY TasksFinite, FS_Subset, FS_CardinalityType DEF At, Requests
<1>2. At(S)' = IF to \in S THEN At(S) \cup {r} ELSE At(S) \ {r}
  BY DEF At, TypeOK, PCs
<1>3. r \in At(S) <=> pc[r] \in S
  BY DEF At
<1>4. Cardinality(At(S) \cup {r}) =
        Cardinality(At(S)) + (IF pc[r] \in S THEN 0 ELSE 1)
  <2>1. Cardinality(At(S) \cup {r}) =
          IF r \in At(S) THEN Cardinality(At(S)) ELSE Cardinality(At(S)) + 1
    BY <1>1, FS_AddElement
  <2>2. QED
    BY <1>1, <1>3, <2>1
<1>5. Cardinality(At(S) \ {r}) =
        Cardinality(At(S)) - (IF pc[r] \in S THEN 1 ELSE 0)
  <2>1. Cardinality(At(S) \ {r}) =
          IF r \in At(S) THEN Cardinality(At(S)) - 1 ELSE Cardinality(At(S))
    BY <1>1, FS_RemoveElement
  <2>2. QED
    BY <1>1, <1>3, <2>1
<1>6. CASE to \in S
  <2>1. Cardinality(At(S)') = Cardinality(At(S) \cup {r})
    BY <1>2, <1>6
  <2>2. QED
    BY <1>1, <1>4, <1>6, <2>1
<1>7. CASE to \notin S
  <2>1. Cardinality(At(S)') = Cardinality(At(S) \ {r})
    BY <1>2, <1>7
  <2>2. QED
    BY <1>1, <1>5, <1>7, <2>1
<1>8. QED
  BY <1>6, <1>7

\* A queue place is held by whoever is between ReserveSlot and LeaveQueue.
LEMMA CountPositive ==
  ASSUME TypeOK, NEW r \in Requests, NEW S, pc[r] \in S
  PROVE  Cardinality(At(S)) \in Nat /\ Cardinality(At(S)) > 0
<1>1. IsFiniteSet(At(S)) /\ Cardinality(At(S)) \in Nat
  BY TasksFinite, FS_Subset, FS_CardinalityType DEF At, Requests
<1>2. At(S) # {}
  BY DEF At
<1>3. QED
  BY <1>1, <1>2, FS_EmptySet
-----------------------------------------------------------------------------
LEMMA InitIInv == Init => IInv
<1> SUFFICES ASSUME Init PROVE IInv
  OBVIOUS
<1>1. SemaphoresSound
  BY NewSemaphoreSound DEF Init, SemaphoresSound
<1>2. TypeOK
  BY <1>1 DEF Init, TypeOK, SemaphoresSound, SemaphoreInv, Reasons, PCs, Outcomes, Requests
<1>3. Asked
  BY DEF Init, Asked, CpuAsked, MemAsked, NewSemaphore, Parked, Requests
<1>4. Decided
  BY DEF Init, Decided
<1>5. Gauges
  <2>1. Admitted = {} /\ HoldsQueuePlace = {}
    BY DEF Init, Admitted, HoldsQueuePlace, At
  <2>2. QED
    BY <2>1, FS_EmptySet, ConfigAssumption DEF Init, Gauges
<1>6. QED
  BY <1>1, <1>2, <1>3, <1>4, <1>5 DEF IInv

\* An outcome is decided once, at the step that ends the wait for it.
LEMMA DecidedStep ==
  ASSUME IInv, [Next]_vars
  PROVE  Decided'
<1> USE DEF IInv, TypeOK, Decided, Step, Goto, Decide, PCs, Requests
<1>1. ASSUME NEW r \in Requests, NEW n \in ReserveSizes, Arrive(r, n)
      PROVE  Decided'
  BY <1>1 DEF Arrive
<1>2. ASSUME NEW r \in Requests, CpuBusy(r)
      PROVE  Decided'
  BY <1>2 DEF CpuBusy
<1>3. ASSUME NEW r \in Requests, LoadQueued(r)
      PROVE  Decided'
  BY <1>3 DEF LoadQueued
<1>4. ASSUME NEW r \in Requests, QueueFull(r)
      PROVE  Decided'
  BY <1>4 DEF QueueFull
<1>5. ASSUME NEW r \in Requests, ReserveSlot(r)
      PROVE  Decided'
  BY <1>5 DEF ReserveSlot
<1>6. ASSUME NEW r \in Requests, ReserveRetry(r)
      PROVE  Decided'
  BY <1>6 DEF ReserveRetry
<1>7. ASSUME NEW r \in Requests, CpuGranted(r)
      PROVE  Decided'
  BY <1>7 DEF CpuGranted
<1>8. ASSUME NEW r \in Requests, CpuExpire(r)
      PROVE  Decided'
  BY <1>8 DEF CpuExpire
<1>9. ASSUME NEW r \in Requests, LeaveQueue(r)
      PROVE  Decided'
  BY <1>9 DEF LeaveQueue
<1>10. ASSUME NEW r \in Requests, MemGranted(r)
      PROVE  Decided'
  BY <1>10 DEF MemGranted
<1>11. ASSUME NEW r \in Requests, MemExpire(r)
      PROVE  Decided'
  BY <1>11 DEF MemExpire
<1>12. ASSUME NEW r \in Requests, Admit(r)
      PROVE  Decided'
  BY <1>12 DEF Admit
<1>13. ASSUME NEW r \in Requests, DropGuard(r)
      PROVE  Decided'
  BY <1>13 DEF DropGuard
<1>14. ASSUME NEW r \in Requests, Cancel(r)
      PROVE  Decided'
  BY <1>14 DEF Cancel
<1>15. ASSUME NEW r \in Requests, TryCpu(r)
      PROVE  Decided'
  BY <1>15 DEF TryCpu
<1>16. ASSUME NEW r \in Requests, PollCpu(r)
      PROVE  Decided'
  BY <1>16 DEF PollCpu
<1>17. ASSUME NEW r \in Requests, CpuAbandon(r)
      PROVE  Decided'
  BY <1>17 DEF CpuAbandon
<1>18. ASSUME NEW r \in Requests, PollMem(r)
      PROVE  Decided'
  BY <1>18 DEF PollMem
<1>19. ASSUME NEW r \in Requests, MemAbandon(r)
      PROVE  Decided'
  BY <1>19 DEF MemAbandon
<1>20. ASSUME NEW r \in Requests, DropCpu(r)
      PROVE  Decided'
  BY <1>20 DEF DropCpu
<1>21. ASSUME NEW r \in Requests, DropMem(r)
      PROVE  Decided'
  BY <1>21 DEF DropMem
<1>22. ASSUME NEW b \in RssSamples, Sample(b)
      PROVE  Decided'
  BY <1>22 DEF Sample
<1>23. CASE UNCHANGED vars
  BY <1>23 DEF vars
<1>24. QED
  BY <1>1, <1>2, <1>3, <1>4, <1>5, <1>6, <1>7, <1>8, <1>9, <1>10, <1>11, <1>12, <1>13, <1>14, <1>15, <1>16, <1>17, <1>18, <1>19, <1>20, <1>21, <1>22, <1>23
     DEF Next, Acquiring, Dropping, Expire

\* A reservation never changes after the request arrived.
LEMMA WantKept ==
  ASSUME TypeOK, reserve' = reserve
  PROVE  \A q \in Requests : Want(q)' = Want(q)
BY DEF Want

\* The permits follow the program counter: whoever asks had nothing, and what
\* a semaphore's operation returns is sound again.
LEMMA SemaphoresStep ==
  ASSUME IInv, [Next]_vars
  PROVE  SemaphoresSound' /\ Asked'
<1> USE DEF Step, Goto, Decide
<1> DEFINE Frame == /\ pc \in [Requests -> PCs]
                    /\ outcome \in [Requests -> Outcomes]
                    /\ cpu.need \in [Requests -> Nat]
                    /\ mem.need \in [Requests -> Nat]
<1>1. /\ TypeOK /\ Asked /\ Decided /\ Frame
      /\ SemaphoreInv(cpu, CpuPermits) /\ SemaphoreInv(mem, MemPermits)
      /\ IsFiniteSet(CpuPermits) /\ IsFiniteSet(MemPermits)
  BY PermitsAssumption
     DEF IInv, TypeOK, SemaphoresSound, Semaphores, Requests
<1> USE DEF Requests
<1>2. ASSUME NEW r \in Requests, NEW n \in ReserveSizes, Arrive(r, n)
      PROVE  SemaphoresSound' /\ Asked'
  <2>1. cpu' = cpu /\ mem' = mem /\ SemaphoresSound'
    BY <1>1, <1>2 DEF Arrive, SemaphoresSound
  <2>2. \A q \in Requests \ {r} : Want(q)' = Want(q)
    BY <1>1, <1>2 DEF Arrive, Want, TypeOK
  <2>3. \A q \in Requests : CpuAsked(q)' = CpuAsked(q)
    BY <1>1, <1>2 DEF Arrive, CpuAsked, Decided
  <2>4. \A q \in Requests : MemAsked(q)' = MemAsked(q)
    BY <1>1, <1>2, <2>2 DEF Arrive, MemAsked, Decided
  <2>5. \A q \in Requests : pc[q] # "idle" => pc'[q] = pc[q]
    BY <1>1, <1>2 DEF Arrive
  <2>6. QED
    BY <1>1, <2>1, <2>3, <2>4, <2>5 DEF Asked
<1>3. ASSUME NEW r \in Requests, CpuBusy(r)
      PROVE  SemaphoresSound' /\ Asked'
  <2>1. cpu' = cpu /\ mem' = mem /\ SemaphoresSound' /\ reserve' = reserve
    BY <1>1, <1>3 DEF CpuBusy, SemaphoresSound
  <2>2. QED
    BY <1>1, <1>3, <2>1, WantKept DEF CpuBusy, Asked, CpuAsked, MemAsked, Decided
<1>4. ASSUME NEW r \in Requests, LoadQueued(r)
      PROVE  SemaphoresSound' /\ Asked'
  <2>1. cpu' = cpu /\ mem' = mem /\ SemaphoresSound' /\ reserve' = reserve
    BY <1>1, <1>4 DEF LoadQueued, SemaphoresSound
  <2>2. QED
    BY <1>1, <1>4, <2>1, WantKept DEF LoadQueued, Asked, CpuAsked, MemAsked, Decided
<1>5. ASSUME NEW r \in Requests, QueueFull(r)
      PROVE  SemaphoresSound' /\ Asked'
  <2>1. cpu' = cpu /\ mem' = mem /\ SemaphoresSound' /\ reserve' = reserve
    BY <1>1, <1>5 DEF QueueFull, SemaphoresSound
  <2>2. QED
    BY <1>1, <1>5, <2>1, WantKept DEF QueueFull, Asked, CpuAsked, MemAsked, Decided
<1>6. ASSUME NEW r \in Requests, ReserveSlot(r)
      PROVE  SemaphoresSound' /\ Asked'
  <2>1. cpu' = cpu /\ mem' = mem /\ SemaphoresSound' /\ reserve' = reserve
    BY <1>1, <1>6 DEF ReserveSlot, SemaphoresSound
  <2>2. QED
    BY <1>1, <1>6, <2>1, WantKept DEF ReserveSlot, Asked, CpuAsked, MemAsked, Decided
<1>7. ASSUME NEW r \in Requests, ReserveRetry(r)
      PROVE  SemaphoresSound' /\ Asked'
  <2>1. cpu' = cpu /\ mem' = mem /\ SemaphoresSound' /\ reserve' = reserve
    BY <1>1, <1>7 DEF ReserveRetry, SemaphoresSound
  <2>2. QED
    BY <1>1, <1>7, <2>1, WantKept DEF ReserveRetry, Asked, CpuAsked, MemAsked, Decided
<1>8. ASSUME NEW r \in Requests, CpuGranted(r)
      PROVE  SemaphoresSound' /\ Asked'
  <2>1. cpu' = cpu /\ mem' = mem /\ SemaphoresSound' /\ reserve' = reserve
    BY <1>1, <1>8 DEF CpuGranted, SemaphoresSound
  <2>2. QED
    BY <1>1, <1>8, <2>1, WantKept DEF CpuGranted, Asked, CpuAsked, MemAsked, Decided
<1>9. ASSUME NEW r \in Requests, CpuExpire(r)
      PROVE  SemaphoresSound' /\ Asked'
  <2>1. cpu' = cpu /\ mem' = mem /\ SemaphoresSound' /\ reserve' = reserve
    BY <1>1, <1>9 DEF CpuExpire, SemaphoresSound
  <2>2. QED
    BY <1>1, <1>9, <2>1, WantKept DEF CpuExpire, Asked, CpuAsked, MemAsked, Decided
<1>10. ASSUME NEW r \in Requests, LeaveQueue(r)
      PROVE  SemaphoresSound' /\ Asked'
  <2>1. cpu' = cpu /\ mem' = mem /\ SemaphoresSound' /\ reserve' = reserve
    BY <1>1, <1>10 DEF LeaveQueue, SemaphoresSound
  <2>2. QED
    BY <1>1, <1>10, <2>1, WantKept DEF LeaveQueue, Asked, CpuAsked, MemAsked, Decided
<1>11. ASSUME NEW r \in Requests, MemGranted(r)
      PROVE  SemaphoresSound' /\ Asked'
  <2>1. cpu' = cpu /\ mem' = mem /\ SemaphoresSound' /\ reserve' = reserve
    BY <1>1, <1>11 DEF MemGranted, SemaphoresSound
  <2>2. QED
    BY <1>1, <1>11, <2>1, WantKept DEF MemGranted, Asked, CpuAsked, MemAsked, Decided
<1>12. ASSUME NEW r \in Requests, MemExpire(r)
      PROVE  SemaphoresSound' /\ Asked'
  <2>1. cpu' = cpu /\ mem' = mem /\ SemaphoresSound' /\ reserve' = reserve
    BY <1>1, <1>12 DEF MemExpire, SemaphoresSound
  <2>2. QED
    BY <1>1, <1>12, <2>1, WantKept DEF MemExpire, Asked, CpuAsked, MemAsked, Decided
<1>13. ASSUME NEW r \in Requests, Admit(r)
      PROVE  SemaphoresSound' /\ Asked'
  <2>1. cpu' = cpu /\ mem' = mem /\ SemaphoresSound' /\ reserve' = reserve
    BY <1>1, <1>13 DEF Admit, SemaphoresSound
  <2>2. QED
    BY <1>1, <1>13, <2>1, WantKept DEF Admit, Asked, CpuAsked, MemAsked, Decided
<1>14. ASSUME NEW r \in Requests, DropGuard(r)
      PROVE  SemaphoresSound' /\ Asked'
  <2>1. cpu' = cpu /\ mem' = mem /\ SemaphoresSound' /\ reserve' = reserve
    BY <1>1, <1>14 DEF DropGuard, SemaphoresSound
  <2>2. QED
    BY <1>1, <1>14, <2>1, WantKept DEF DropGuard, Asked, CpuAsked, MemAsked, Decided
<1>15. ASSUME NEW r \in Requests, Cancel(r)
      PROVE  SemaphoresSound' /\ Asked'
  <2>1. cpu' = cpu /\ mem' = mem /\ SemaphoresSound' /\ reserve' = reserve
    BY <1>1, <1>15 DEF Cancel, SemaphoresSound
  <2>2. QED
    BY <1>1, <1>15, <2>1, WantKept DEF Cancel, Asked, CpuAsked, MemAsked, Decided
<1>16. ASSUME NEW r \in Requests, CpuAbandon(r)
      PROVE  SemaphoresSound' /\ Asked'
  <2>1. cpu' \in Release(cpu, r) /\ mem' = mem /\ reserve' = reserve
    BY <1>16 DEF CpuAbandon
  <2>2. /\ SemaphoreInv(cpu', CpuPermits)
        /\ cpu'.need = [cpu.need EXCEPT ![r] = 0]
        /\ Parked(cpu') \subseteq Parked(cpu) \ {r}
    BY <1>1, <2>1, ReleaseSound
  <2>3. SemaphoresSound'
    BY <1>1, <2>1, <2>2 DEF SemaphoresSound
  <2>4. QED
    BY <1>1, <1>16, <2>1, <2>2, <2>3, WantKept DEF CpuAbandon, Asked, CpuAsked, MemAsked, Decided
<1>17. ASSUME NEW r \in Requests, DropCpu(r)
      PROVE  SemaphoresSound' /\ Asked'
  <2>1. cpu' \in Release(cpu, r) /\ mem' = mem /\ reserve' = reserve
    BY <1>17 DEF DropCpu
  <2>2. /\ SemaphoreInv(cpu', CpuPermits)
        /\ cpu'.need = [cpu.need EXCEPT ![r] = 0]
        /\ Parked(cpu') \subseteq Parked(cpu) \ {r}
    BY <1>1, <2>1, ReleaseSound
  <2>3. SemaphoresSound'
    BY <1>1, <2>1, <2>2 DEF SemaphoresSound
  <2>4. QED
    BY <1>1, <1>17, <2>1, <2>2, <2>3, WantKept DEF DropCpu, Asked, CpuAsked, MemAsked, Decided
<1>18. ASSUME NEW r \in Requests, MemAbandon(r)
      PROVE  SemaphoresSound' /\ Asked'
  <2>1. mem' \in Release(mem, r) /\ cpu' = cpu /\ reserve' = reserve
    BY <1>18 DEF MemAbandon
  <2>2. /\ SemaphoreInv(mem', MemPermits)
        /\ mem'.need = [mem.need EXCEPT ![r] = 0]
        /\ Parked(mem') \subseteq Parked(mem) \ {r}
    BY <1>1, <2>1, ReleaseSound
  <2>3. SemaphoresSound'
    BY <1>1, <2>1, <2>2 DEF SemaphoresSound
  <2>4. QED
    BY <1>1, <1>18, <2>1, <2>2, <2>3, WantKept DEF MemAbandon, Asked, CpuAsked, MemAsked, Decided
<1>19. ASSUME NEW r \in Requests, DropMem(r)
      PROVE  SemaphoresSound' /\ Asked'
  <2>1. mem' \in Release(mem, r) /\ cpu' = cpu /\ reserve' = reserve
    BY <1>19 DEF DropMem
  <2>2. /\ SemaphoreInv(mem', MemPermits)
        /\ mem'.need = [mem.need EXCEPT ![r] = 0]
        /\ Parked(mem') \subseteq Parked(mem) \ {r}
    BY <1>1, <2>1, ReleaseSound
  <2>3. SemaphoresSound'
    BY <1>1, <2>1, <2>2 DEF SemaphoresSound
  <2>4. QED
    BY <1>1, <1>19, <2>1, <2>2, <2>3, WantKept DEF DropMem, Asked, CpuAsked, MemAsked, Decided
<1>20. ASSUME NEW r \in Requests, TryCpu(r)
      PROVE  SemaphoresSound' /\ Asked'
  <2>1. cpu' \in TryAcquire(cpu, r) /\ mem' = mem /\ reserve' = reserve
    BY <1>20 DEF TryCpu
  <2>2. cpu.need[r] = 0
    BY <1>1, <1>20 DEF TryCpu, Asked, CpuAsked
  <2>3. /\ SemaphoreInv(cpu', CpuPermits)
        /\ cpu'.need = [cpu.need EXCEPT ![r] = 1]
        /\ Parked(cpu') = Parked(cpu)
    BY <1>1, <2>1, <2>2, TryAcquireSound
  <2>4. SemaphoresSound'
    BY <1>1, <2>1, <2>3 DEF SemaphoresSound
  <2>5. QED
    BY <1>1, <1>20, <2>1, <2>3, <2>4, WantKept DEF TryCpu, Asked, CpuAsked, MemAsked, Decided
<1>21. ASSUME NEW r \in Requests, PollCpu(r)
      PROVE  SemaphoresSound' /\ Asked'
  <2>1. cpu' \in Acquire(cpu, r, 1) /\ mem' = mem /\ reserve' = reserve
    BY <1>21 DEF PollCpu
  <2>2. cpu.need[r] = 0
    BY <1>1, <1>21 DEF PollCpu, Asked, CpuAsked
  <2>3. /\ SemaphoreInv(cpu', CpuPermits)
        /\ cpu'.need = [cpu.need EXCEPT ![r] = 1]
        /\ Parked(cpu') \subseteq Parked(cpu) \cup {r}
    <3>1. ASSUME NEW n \in Nat, cpu' \in Acquire(cpu, r, n)
          PROVE  /\ SemaphoreInv(cpu', CpuPermits)
                 /\ cpu'.need = [cpu.need EXCEPT ![r] = n]
                 /\ Parked(cpu') \subseteq Parked(cpu) \cup {r}
      BY <1>1, <2>2, <3>1, AcquireSound
    <3>2. QED
      BY <2>1, <3>1
  <2>4. SemaphoresSound'
    BY <1>1, <2>1, <2>3 DEF SemaphoresSound
  <2>5. QED
    BY <1>1, <1>21, <2>1, <2>3, <2>4, WantKept DEF PollCpu, Asked, CpuAsked, MemAsked, Decided
<1>22. ASSUME NEW r \in Requests, PollMem(r)
      PROVE  SemaphoresSound' /\ Asked'
  <2>1. cpu' = cpu /\ reserve' = reserve
    BY <1>22 DEF PollMem
  <2>2. mem.need[r] = 0
    BY <1>1, <1>22 DEF PollMem, Asked, MemAsked
  <2>3. CASE MemBudgetBytes = 0
    <3>1. mem' = mem /\ SemaphoresSound'
      BY <1>1, <1>22, <2>1, <2>3 DEF PollMem, SemaphoresSound
    <3>2. QED
      BY <1>1, <1>22, <2>1, <2>3, <3>1 DEF PollMem, Asked, CpuAsked, MemAsked, Decided
  <2>4. CASE MemBudgetBytes # 0
    <3>1. mem' \in Acquire(mem, r, Want(r)) /\ Want(r) \in Nat
      BY <1>1, <1>22, <2>4, WantType DEF PollMem
    <3>2. /\ SemaphoreInv(mem', MemPermits)
          /\ mem'.need = [mem.need EXCEPT ![r] = Want(r)]
          /\ Parked(mem') \subseteq Parked(mem) \cup {r}
      BY <1>1, <2>2, <3>1, AcquireSound
    <3>3. SemaphoresSound'
      BY <1>1, <2>1, <3>2 DEF SemaphoresSound
    <3>4. QED
      BY <1>1, <1>22, <2>1, <2>4, <3>2, <3>3, WantKept DEF PollMem, Asked, CpuAsked, MemAsked, Decided
  <2>5. QED
    BY <2>3, <2>4
<1>23. ASSUME NEW b \in RssSamples, Sample(b)
      PROVE  SemaphoresSound' /\ Asked'
  BY <1>1, <1>23, WantKept DEF Sample, SemaphoresSound, Asked, CpuAsked, MemAsked
<1>24. CASE UNCHANGED vars
  BY <1>1, <1>24, WantKept DEF vars, SemaphoresSound, Asked, CpuAsked, MemAsked
<1>25. QED
  BY <1>2, <1>3, <1>4, <1>5, <1>6, <1>7, <1>8, <1>9, <1>10, <1>11,
     <1>12, <1>13, <1>14, <1>15, <1>16, <1>17, <1>18, <1>19, <1>20,
     <1>21, <1>22, <1>23, <1>24
     DEF Next, Acquiring, Dropping, Expire

\* Both gauges move with the sets they count, one request at a time, and the
\* queue place is taken only below the depth it was compared with.
LEMMA GaugesStep ==
  ASSUME IInv, [Next]_vars
  PROVE  Gauges'
<1> DEFINE q == {"pollCpu", "cpuWait", "cpuAbandon", "leaveQueue"}
           Moved(to, r) ==
             /\ Cardinality(Admitted)' = Cardinality(Admitted)
                  + (IF to = "held" THEN 1 ELSE 0) - (IF pc[r] = "held" THEN 1 ELSE 0)
             /\ Cardinality(HoldsQueuePlace)' = Cardinality(HoldsQueuePlace)
                  + (IF to \in q THEN 1 ELSE 0) - (IF pc[r] \in q THEN 1 ELSE 0)
<1>1. /\ TypeOK /\ Decided /\ Gauges /\ QueueDepth \in Nat
      /\ queued \in Nat /\ inFlight \in Nat
      /\ pc \in [Requests -> PCs] /\ cur \in [Requests -> Nat]
  BY ConfigAssumption DEF IInv, TypeOK
<1>2. ASSUME NEW r \in Requests, NEW to \in PCs, pc' = [pc EXCEPT ![r] = to]
      PROVE  Moved(to, r)
  <2>1. Cardinality(At({"held"}))' = Cardinality(At({"held"}))
             + (IF to \in {"held"} THEN 1 ELSE 0) - (IF pc[r] \in {"held"} THEN 1 ELSE 0)
    BY <1>1, <1>2, CountStep
  <2>2. Cardinality(At(q))' = Cardinality(At(q))
             + (IF to \in q THEN 1 ELSE 0) - (IF pc[r] \in q THEN 1 ELSE 0)
    <3> HIDE DEF q
    <3>1. QED
      BY <1>1, <1>2, CountStep
  <2>3. QED
    BY <2>1, <2>2 DEF Admitted, HoldsQueuePlace
<1> HIDE DEF Moved
<1>3. ASSUME NEW r \in Requests, NEW n \in ReserveSizes, Arrive(r, n)
      PROVE  Gauges'
  <2>1. PICK to \in PCs : pc' = [pc EXCEPT ![r] = to] /\ to \in {"done", "tryCpu"}
    BY <1>3 DEF Arrive, Goto, PCs
  <2>2. Moved(to, r)
    BY <1>2, <2>1
  <2>3. QED
    BY <1>1, <1>3, <2>1, <2>2 DEF Arrive, Gauges, Moved
<1>4. ASSUME NEW r \in Requests, CpuBusy(r)
      PROVE  Gauges'
  <2>1. Moved("loadQueued", r)
    BY <1>2, <1>4 DEF CpuBusy, Step, Goto, PCs
  <2>2. QED
    BY <1>1, <1>4, <2>1 DEF CpuBusy, Step, Gauges, Moved
<1>5. ASSUME NEW r \in Requests, LoadQueued(r)
      PROVE  Gauges'
  <2>1. Moved("reserveSlot", r)
    BY <1>2, <1>5 DEF LoadQueued, Step, Goto, PCs
  <2>2. QED
    BY <1>1, <1>5, <2>1 DEF LoadQueued, Step, Gauges, Moved
<1>6. ASSUME NEW r \in Requests, QueueFull(r)
      PROVE  Gauges'
  <2>1. Moved("done", r)
    BY <1>2, <1>6 DEF QueueFull, Step, Goto, PCs
  <2>2. QED
    BY <1>1, <1>6, <2>1 DEF QueueFull, Step, Gauges, Moved
<1>7. ASSUME NEW r \in Requests, ReserveSlot(r)
      PROVE  Gauges'
  <2>1. Moved("pollCpu", r)
    BY <1>2, <1>7 DEF ReserveSlot, Step, Goto, PCs
  <2>2. /\ queued' = queued + 1 /\ queued' <= QueueDepth
        /\ inFlight' = inFlight /\ pc[r] = "reserveSlot"
    BY <1>1, <1>7 DEF ReserveSlot, Step
  <2>3. QED
    BY <1>1, <2>1, <2>2 DEF Gauges, Moved
<1>8. ASSUME NEW r \in Requests, ReserveRetry(r)
      PROVE  Gauges'
  BY <1>1, <1>8 DEF ReserveRetry, Gauges, Admitted, HoldsQueuePlace, At
<1>9. ASSUME NEW r \in Requests, CpuGranted(r)
      PROVE  Gauges'
  <2>1. Moved("leaveQueue", r)
    BY <1>2, <1>9 DEF CpuGranted, Step, Goto, PCs
  <2>2. QED
    BY <1>1, <1>9, <2>1 DEF CpuGranted, Step, Gauges, Moved
<1>10. ASSUME NEW r \in Requests, CpuExpire(r)
      PROVE  Gauges'
  <2>1. Moved("cpuAbandon", r)
    BY <1>2, <1>10 DEF CpuExpire, Step, Goto, PCs
  <2>2. QED
    BY <1>1, <1>10, <2>1 DEF CpuExpire, Step, Gauges, Moved
<1>11. ASSUME NEW r \in Requests, LeaveQueue(r)
      PROVE  Gauges'
  <2>1. Moved(IF outcome[r] = "none" THEN "pollMem" ELSE "done", r)
    BY <1>2, <1>11 DEF LeaveQueue, Step, Goto, PCs
  <2>2. QED
    BY <1>1, <1>11, <2>1 DEF LeaveQueue, Step, Gauges, Moved
<1>12. ASSUME NEW r \in Requests, MemGranted(r)
      PROVE  Gauges'
  <2>1. Moved("admit", r)
    BY <1>2, <1>12 DEF MemGranted, Step, Goto, PCs
  <2>2. QED
    BY <1>1, <1>12, <2>1 DEF MemGranted, Step, Gauges, Moved
<1>13. ASSUME NEW r \in Requests, MemExpire(r)
      PROVE  Gauges'
  <2>1. Moved("memAbandon", r)
    BY <1>2, <1>13 DEF MemExpire, Step, Goto, PCs
  <2>2. QED
    BY <1>1, <1>13, <2>1 DEF MemExpire, Step, Gauges, Moved
<1>14. ASSUME NEW r \in Requests, Admit(r)
      PROVE  Gauges'
  <2>1. Moved("held", r)
    BY <1>2, <1>14 DEF Admit, Step, Goto, PCs
  <2>2. QED
    BY <1>1, <1>14, <2>1 DEF Admit, Step, Gauges, Moved
<1>15. ASSUME NEW r \in Requests, DropGuard(r)
      PROVE  Gauges'
  <2>1. Moved("dropCpu", r)
    BY <1>2, <1>15 DEF DropGuard, Step, Goto, PCs
  <2>2. QED
    BY <1>1, <1>15, <2>1 DEF DropGuard, Step, Gauges, Moved
<1>16. ASSUME NEW r \in Requests, Cancel(r)
      PROVE  Gauges'
  <2>1. CASE Step(r, "cpuWait", "cpuAbandon")
    <3>1. Moved("cpuAbandon", r)
      BY <1>2, <2>1 DEF Step, Goto, PCs
    <3>2. QED
      BY <1>1, <1>16, <2>1, <3>1 DEF Cancel, Step, Gauges, Moved
  <2>2. CASE Step(r, "memWait", "memAbandon")
    <3>1. Moved("memAbandon", r)
      BY <1>2, <2>2 DEF Step, Goto, PCs
    <3>2. QED
      BY <1>1, <1>16, <2>2, <3>1 DEF Cancel, Step, Gauges, Moved
  <2>3. QED
    BY <1>16, <2>1, <2>2 DEF Cancel
<1>17. ASSUME NEW r \in Requests, CpuAbandon(r)
      PROVE  Gauges'
  <2>1. Moved("leaveQueue", r)
    BY <1>2, <1>17 DEF CpuAbandon, Step, Goto, PCs
  <2>2. QED
    BY <1>1, <1>17, <2>1 DEF CpuAbandon, Step, Gauges, Moved
<1>18. ASSUME NEW r \in Requests, DropCpu(r)
      PROVE  Gauges'
  <2>1. Moved(IF outcome[r] = "admitted" THEN "dropMem" ELSE "done", r)
    BY <1>2, <1>18 DEF DropCpu, Step, Goto, PCs
  <2>2. QED
    BY <1>1, <1>18, <2>1 DEF DropCpu, Step, Gauges, Moved
<1>19. ASSUME NEW r \in Requests, MemAbandon(r)
      PROVE  Gauges'
  <2>1. Moved("dropCpu", r)
    BY <1>2, <1>19 DEF MemAbandon, Step, Goto, PCs
  <2>2. QED
    BY <1>1, <1>19, <2>1 DEF MemAbandon, Step, Gauges, Moved
<1>20. ASSUME NEW r \in Requests, DropMem(r)
      PROVE  Gauges'
  <2>1. Moved("done", r)
    BY <1>2, <1>20 DEF DropMem, Step, Goto, PCs
  <2>2. QED
    BY <1>1, <1>20, <2>1 DEF DropMem, Step, Gauges, Moved
<1>21. ASSUME NEW r \in Requests, TryCpu(r)
      PROVE  Gauges'
  <2>1. Moved("pollMem", r)
    BY <1>2, <1>21 DEF TryCpu, Step, Goto, PCs
  <2>2. QED
    BY <1>1, <1>21, <2>1 DEF TryCpu, Step, Gauges, Moved
<1>22. ASSUME NEW r \in Requests, PollCpu(r)
      PROVE  Gauges'
  <2>1. Moved("cpuWait", r)
    BY <1>2, <1>22 DEF PollCpu, Step, Goto, PCs
  <2>2. QED
    BY <1>1, <1>22, <2>1 DEF PollCpu, Step, Gauges, Moved
<1>23. ASSUME NEW r \in Requests, PollMem(r)
      PROVE  Gauges'
  <2>1. Moved(IF MemBudgetBytes = 0 THEN "admit" ELSE "memWait", r)
    BY <1>2, <1>23 DEF PollMem, Step, Goto, PCs
  <2>2. QED
    BY <1>1, <1>23, <2>1 DEF PollMem, Step, Gauges, Moved
<1>24. ASSUME NEW b \in RssSamples, Sample(b)
      PROVE  Gauges'
  BY <1>1, <1>24 DEF Sample, Gauges, Admitted, HoldsQueuePlace, At
<1>25. CASE UNCHANGED vars
  BY <1>1, <1>25 DEF vars, Gauges, Admitted, HoldsQueuePlace, At
<1>26. QED
  BY <1>3, <1>4, <1>5, <1>6, <1>7, <1>8, <1>9, <1>10, <1>11, <1>12,
     <1>13, <1>14, <1>15, <1>16, <1>17, <1>18, <1>19, <1>20, <1>21,
     <1>22, <1>23, <1>24, <1>25
     DEF Next, Acquiring, Dropping, Expire

\* TypeOK without the parts that the other invariants give.
LocalTypes ==
    /\ rejected \in [Reasons -> Nat]
    /\ rss \in RssSamples \cup {0}
    /\ pc \in [Requests -> PCs]
    /\ reserve \in [Requests -> Nat]
    /\ cur \in [Requests -> Nat]
    /\ outcome \in [Requests -> Outcomes]

LEMMA LocalTypesStep ==
  ASSUME IInv, [Next]_vars
  PROVE  LocalTypes'
<1> USE DEF IInv, TypeOK, LocalTypes, Step, Goto, Decide, Count, PCs, Outcomes, Reasons
<1>1. ReserveSizes \subseteq Nat
  BY ConfigAssumption
<1>2. ASSUME NEW r \in Requests, NEW n \in ReserveSizes, Arrive(r, n)
      PROVE  LocalTypes'
  BY <1>1, <1>2 DEF Arrive
<1>3. ASSUME NEW r \in Requests, CpuBusy(r)
      PROVE  LocalTypes'
  BY <1>1, <1>3 DEF CpuBusy
<1>4. ASSUME NEW r \in Requests, LoadQueued(r)
      PROVE  LocalTypes'
  BY <1>1, <1>4 DEF LoadQueued
<1>5. ASSUME NEW r \in Requests, QueueFull(r)
      PROVE  LocalTypes'
  BY <1>1, <1>5 DEF QueueFull
<1>6. ASSUME NEW r \in Requests, ReserveSlot(r)
      PROVE  LocalTypes'
  BY <1>1, <1>6 DEF ReserveSlot
<1>7. ASSUME NEW r \in Requests, ReserveRetry(r)
      PROVE  LocalTypes'
  BY <1>1, <1>7 DEF ReserveRetry
<1>8. ASSUME NEW r \in Requests, CpuGranted(r)
      PROVE  LocalTypes'
  BY <1>1, <1>8 DEF CpuGranted
<1>9. ASSUME NEW r \in Requests, CpuExpire(r)
      PROVE  LocalTypes'
  BY <1>1, <1>9 DEF CpuExpire
<1>10. ASSUME NEW r \in Requests, LeaveQueue(r)
      PROVE  LocalTypes'
  BY <1>1, <1>10 DEF LeaveQueue
<1>11. ASSUME NEW r \in Requests, MemGranted(r)
      PROVE  LocalTypes'
  BY <1>1, <1>11 DEF MemGranted
<1>12. ASSUME NEW r \in Requests, MemExpire(r)
      PROVE  LocalTypes'
  BY <1>1, <1>12 DEF MemExpire
<1>13. ASSUME NEW r \in Requests, Admit(r)
      PROVE  LocalTypes'
  BY <1>1, <1>13 DEF Admit
<1>14. ASSUME NEW r \in Requests, DropGuard(r)
      PROVE  LocalTypes'
  BY <1>1, <1>14 DEF DropGuard
<1>15. ASSUME NEW r \in Requests, Cancel(r)
      PROVE  LocalTypes'
  BY <1>1, <1>15 DEF Cancel
<1>16. ASSUME NEW r \in Requests, CpuAbandon(r)
      PROVE  LocalTypes'
  BY <1>1, <1>16 DEF CpuAbandon
<1>17. ASSUME NEW r \in Requests, DropCpu(r)
      PROVE  LocalTypes'
  BY <1>1, <1>17 DEF DropCpu
<1>18. ASSUME NEW r \in Requests, MemAbandon(r)
      PROVE  LocalTypes'
  BY <1>1, <1>18 DEF MemAbandon
<1>19. ASSUME NEW r \in Requests, DropMem(r)
      PROVE  LocalTypes'
  BY <1>1, <1>19 DEF DropMem
<1>20. ASSUME NEW r \in Requests, TryCpu(r)
      PROVE  LocalTypes'
  BY <1>1, <1>20 DEF TryCpu
<1>21. ASSUME NEW r \in Requests, PollCpu(r)
      PROVE  LocalTypes'
  BY <1>1, <1>21 DEF PollCpu
<1>22. ASSUME NEW r \in Requests, PollMem(r)
      PROVE  LocalTypes'
  BY <1>1, <1>22 DEF PollMem
<1>23. ASSUME NEW b \in RssSamples, Sample(b)
      PROVE  LocalTypes'
  BY <1>1, <1>23 DEF Sample
<1>24. CASE UNCHANGED vars
  BY <1>1, <1>24 DEF vars
<1>25. QED
  BY <1>2, <1>3, <1>4, <1>5, <1>6, <1>7, <1>8, <1>9, <1>10, <1>11,
     <1>12, <1>13, <1>14, <1>15, <1>16, <1>17, <1>18, <1>19, <1>20,
     <1>21, <1>22, <1>23, <1>24
     DEF Next, Acquiring, Dropping, Expire

LEMMA TypeStep ==
  ASSUME IInv, [Next]_vars, SemaphoresSound', Gauges'
  PROVE  TypeOK'
<1>1. cpu' \in Semaphores(CpuPermits) /\ mem' \in Semaphores(MemPermits)
  BY DEF SemaphoresSound, SemaphoreInv
<1>2. queued' \in Nat /\ inFlight' \in Nat
  <2>1. IsFiniteSet(Admitted') /\ IsFiniteSet(HoldsQueuePlace')
    BY TasksFinite, FS_Subset DEF Admitted, HoldsQueuePlace, At, Requests
  <2>2. QED
    BY <2>1, FS_CardinalityType DEF Gauges
<1>3. LocalTypes'
  BY LocalTypesStep
<1>4. QED
  BY <1>1, <1>2, <1>3 DEF TypeOK, LocalTypes

LEMMA NextIInv == IInv /\ [Next]_vars => IInv'
<1> SUFFICES ASSUME IInv, [Next]_vars PROVE IInv'
  OBVIOUS
<1>1. SemaphoresSound' /\ Asked'
  BY SemaphoresStep
<1>2. Decided' /\ Gauges'
  BY DecidedStep, GaugesStep
<1>3. QED
  BY <1>1, <1>2, TypeStep DEF IInv
-----------------------------------------------------------------------------
LEMMA Inductive == Spec => []IInv
BY InitIInv, NextIInv, PTL DEF Spec

\* The model's variables keep their types for ever.
THEOREM AdmissionTyped == Spec => []TypeOK
<1>1. IInv => TypeOK
  BY DEF IInv
<1>2. QED
  BY <1>1, Inductive, PTL

\* No permit of either semaphore is lost or handed out twice, in any order of
\* grants, timeouts, cancellations and drops.
THEOREM AdmissionSemaphoresSound == Spec => []SemaphoresSound
<1>1. IInv => SemaphoresSound
  BY DEF IInv
<1>2. QED
  BY <1>1, Inductive, PTL
-----------------------------------------------------------------------------
\* Whoever is past a wait has exactly what it asked for.
LEMMA AskedIsOwned ==
  ASSUME IInv, NEW r \in Requests
  PROVE  /\ r \notin Parked(cpu) => Cardinality(cpu.got[r]) = CpuAsked(r)
         /\ r \notin Parked(mem) => Cardinality(mem.got[r]) = MemAsked(r)
         /\ CpuAsked(r) = 0 => cpu.got[r] = {}
         /\ MemAsked(r) = 0 => mem.got[r] = {} /\ r \notin Parked(mem)
BY PermitsAssumption, IdleOwnsNothing, ZenonT(30)
   DEF IInv, SemaphoresSound, SemaphoreInv, QueueJustified, Asked, Requests

\* in_flight is backed by permits: for any configuration it counts the guards,
\* each with a slot and its whole share, and never exceeds the CPU slots.
THEOREM AdmissionInFlightBacked == Spec => []InFlightBacked
<1>1. ASSUME IInv PROVE InFlightBacked
  <2>1. ASSUME NEW r \in Admitted
        PROVE  /\ Cardinality(cpu.got[r]) = 1
               /\ MemBudgetBytes > 0 => Cardinality(mem.got[r]) = Want(r)
    <3>1. r \in Requests /\ pc[r] = "held"
      BY DEF Admitted, At
    <3>2. r \notin Parked(cpu) /\ r \notin Parked(mem)
      BY <1>1, <3>1 DEF IInv, Asked
    <3>3. CpuAsked(r) = 1 /\ (MemBudgetBytes # 0 => MemAsked(r) = Want(r))
      BY <3>1 DEF CpuAsked, MemAsked
    <3>4. QED
      BY <1>1, <3>1, <3>2, <3>3, AskedIsOwned, ConfigAssumption
  <2>2. \A r \in Admitted : cpu.got[r] # {}
    BY <2>1, FS_EmptySet, SMTT(20)
  <2>3. Admitted \in SUBSET Tasks
    BY DEF Admitted, At, Requests
  <2>4. Cardinality(Admitted) <= Cardinality(CpuPermits)
    BY <1>1, <2>2, <2>3, OwnersBounded, PermitsAssumption DEF IInv, SemaphoresSound
  <2>5. QED
    BY <1>1, <2>1, <2>4, PermitsAssumption DEF InFlightBacked, IInv, Gauges
<1>2. QED
  BY <1>1, Inductive, PTL

-----------------------------------------------------------------------------
(* Sums of reservations *)

\* How SumFunctionOnSet picks an element, and the recursion it is defined by.
AnyOf(s) == CHOOSE x \in s : TRUE

SumsUp(f, S, g) ==
    g = [s \in SUBSET S |-> IF s = {} THEN 0 ELSE f[AnyOf(s)] + g[s \ {AnyOf(s)}]]

\* The recursion has a solution on the subsets of a finite set.
LEMMA SumExists ==
  ASSUME NEW S, IsFiniteSet(S), NEW f
  PROVE  \E g : SumsUp(f, S, g)
<1> DEFINE Small(n) == {s \in SUBSET S : Cardinality(s) <= n}
           Sums(n, g) == g = [s \in Small(n) |->
                                IF s = {} THEN 0 ELSE f[AnyOf(s)] + g[s \ {AnyOf(s)}]]
           Q(n) == \E g : Sums(n, g)
           T == {n \in Nat : Q(n)}
<1>0. \A s \in SUBSET S : IsFiniteSet(s) /\ Cardinality(s) \in Nat
                          /\ Cardinality(s) <= Cardinality(S)
  BY FS_Subset, FS_CardinalityType
<1>a. \A s \in SUBSET S : s # {} => AnyOf(s) \in s
  BY DEF AnyOf
<1>1. Q(0)
  <2>1. \A s \in Small(0) : s = {}
    BY <1>0, FS_EmptySet
  <2>2. Sums(0, [s \in Small(0) |-> 0])
    BY <2>1
  <2>3. QED
    BY <2>2
<1>2. ASSUME NEW n \in Nat, Q(n) PROVE Q(n + 1)
  <2>1. PICK g : Sums(n, g)
    BY <1>2
  <2> DEFINE h == [s \in Small(n + 1) |-> IF s = {} THEN 0 ELSE f[AnyOf(s)] + g[s \ {AnyOf(s)}]]
  <2>2. \A s \in Small(n) : s \in Small(n + 1)
    BY <1>0
  <2>3. \A s \in Small(n) : h[s] = g[s]
    BY <2>1, <2>2
  <2>4. \A s \in Small(n + 1) : s # {} => s \ {AnyOf(s)} \in Small(n)
    <3> SUFFICES ASSUME NEW s \in Small(n + 1), s # {} PROVE s \ {AnyOf(s)} \in Small(n)
      OBVIOUS
    <3>1. AnyOf(s) \in s /\ IsFiniteSet(s) /\ Cardinality(s) \in Nat
      BY <1>0, <1>a
    <3>2. Cardinality(s \ {AnyOf(s)}) = Cardinality(s) - 1
      BY <3>1, FS_RemoveElement
    <3>3. QED
      BY <3>1, <3>2
  <2>5. Sums(n + 1, h)
    BY <2>3, <2>4
  <2>6. QED
    BY <2>5
<1>3. Nat \subseteq T
  <2> HIDE DEF Q
  <2>1. 0 \in T /\ \A n \in Nat : n \in T => n + 1 \in T
    BY <1>1, <1>2
  <2> HIDE DEF T
  <2>2. QED
    BY <2>1, NatInductive
<1>4. Cardinality(S) \in Nat
  BY FS_CardinalityType
<1>5. PICK g : Sums(Cardinality(S), g)
  BY <1>3, <1>4 DEF Q
<1>6. Small(Cardinality(S)) = SUBSET S
  BY <1>0
<1>7. QED
  BY <1>5, <1>6 DEF SumsUp

\* If each addend is covered by a set of its own, b to an element, the sum is
\* covered by the sets together.
LEMMA SumWithin ==
  ASSUME NEW S, IsFiniteSet(S), NEW f, NEW got, NEW b \in Nat,
         \A x \in S : /\ f[x] \in Nat /\ IsFiniteSet(got[x])
                     /\ f[x] <= b * Cardinality(got[x]),
         \A x, y \in S : x # y => got[x] \cap got[y] = {}
  PROVE  /\ SumFunctionOnSet(f, S) \in Nat
         /\ SumFunctionOnSet(f, S) <= b * Cardinality(UNION {got[x] : x \in S})
<1>0. \E h : SumsUp(f, S, h)
  BY SumExists
<1> DEFINE g == CHOOSE h : h = [s \in SUBSET S |-> IF s = {} THEN 0 ELSE f[AnyOf(s)] + h[s \ {AnyOf(s)}]]
           Of(s) == UNION {got[x] : x \in s}
           Q(s) == IsFiniteSet(Of(s)) /\ g[s] \in Nat /\ g[s] <= b * Cardinality(Of(s))
           T == {n \in Nat : \A s \in SUBSET S : Cardinality(s) = n => Q(s)}
<1>1. \A s \in SUBSET S : s # {} => AnyOf(s) \in s
  BY DEF AnyOf
<1>2. g = [s \in SUBSET S |-> IF s = {} THEN 0 ELSE f[AnyOf(s)] + g[s \ {AnyOf(s)}]]
  <2>1. SumsUp(f, S, CHOOSE h : SumsUp(f, S, h))
    BY <1>0
  <2>2. QED
    BY <2>1, Zenon DEF SumsUp
<1>3. SumFunctionOnSet(f, S) = g[S]
  BY Zenon DEF AnyOf, SumFunctionOnSet, FoldFunctionOnSet, MapThenFoldSet
<1> HIDE DEF g
<1>4. 0 \in T
  <2>1. \A s \in SUBSET S : Cardinality(s) = 0 => s = {}
    BY FS_Subset, FS_EmptySet
  <2>2. Q({})
    <3>1. Of({}) = {} /\ {} \in SUBSET S
      OBVIOUS
    <3>2. g[{}] = 0
      BY <1>2, <3>1
    <3>3. b * 0 = 0
      OBVIOUS
    <3> HIDE DEF Of
    <3>4. QED
      BY <3>1, <3>2, <3>3, FS_EmptySet
  <2> HIDE DEF Q
  <2>3. QED
    BY <2>1, <2>2
<1>5. ASSUME NEW n \in T PROVE n + 1 \in T
  <2> SUFFICES ASSUME NEW s \in SUBSET S, Cardinality(s) = n + 1 PROVE Q(s)
    <3> HIDE DEF Q
    <3>1. QED
      OBVIOUS
  <2>1. s # {} /\ IsFiniteSet(s) /\ n \in Nat
    BY FS_Subset, FS_EmptySet
  <2> DEFINE x == AnyOf(s)
             r == s \ {x}
  <2>2. x \in s /\ x \in S
    BY <1>1, <2>1
  <2>3. r \in SUBSET S /\ Cardinality(r) = n
    <3>1. Cardinality(r) = Cardinality(s) - 1
      BY <2>1, <2>2, FS_RemoveElement
    <3>2. QED
      BY <2>1, <3>1
  <2>4. Q(r)
    BY <2>3
  <2>5. g[s] = f[x] + g[r]
    BY <1>2, <2>1
  <2>6. Of(s) = Of(r) \cup got[x] /\ Of(r) \cap got[x] = {}
    BY <2>2
  <2>7. /\ IsFiniteSet(Of(s)) /\ Cardinality(Of(r)) \in Nat /\ Cardinality(got[x]) \in Nat
        /\ Cardinality(Of(s)) = Cardinality(Of(r)) + Cardinality(got[x])
    <3>1. IsFiniteSet(Of(r)) /\ IsFiniteSet(got[x])
      BY <2>2, <2>4
    <3> HIDE DEF Of, r, x
    <3>2. /\ IsFiniteSet(Of(r) \cup got[x])
          /\ Cardinality(Of(r) \cup got[x]) =
               Cardinality(Of(r)) + Cardinality(got[x]) - Cardinality(Of(r) \cap got[x])
      BY <3>1, FS_Union
    <3>3. Cardinality(Of(r)) \in Nat /\ Cardinality(got[x]) \in Nat
      BY <3>1, FS_CardinalityType
    <3>4. Cardinality(Of(r) \cap got[x]) = 0
      BY <2>6, FS_EmptySet
    <3>5. QED
      BY <2>6, <3>2, <3>3, <3>4
  <2> HIDE DEF r, x, Of
  <2>8. g[s] \in Nat /\ g[s] <= b * Cardinality(Of(r)) + b * Cardinality(got[x])
    BY <2>2, <2>4, <2>5, <2>7
  <2>9. \A i, j \in Nat : b * (i + j) = b * i + b * j
    OBVIOUS
  <2>10. QED
    BY <2>7, <2>8, <2>9
<1>6. Nat \subseteq T
  <2> HIDE DEF T
  <2>1. QED
    BY <1>4, <1>5, NatInductive
<1>7. Cardinality(S) \in Nat
  BY FS_CardinalityType
<1>8. Q(S)
  BY <1>6, <1>7
<1>9. QED
  BY <1>3, <1>8

\* Division rounds down.
LEMMA DivFacts ==
  ASSUME NEW a \in Nat, NEW b \in Nat \ {0}
  PROVE  /\ a \div b \in Nat
         /\ b * (a \div b) <= a
         /\ a < b * (a \div b) + b
<1>1. a = b * (a \div b) + (a % b) /\ a % b \in 0..(b - 1) /\ a \div b \in Int
  OBVIOUS
<1>2. a \div b \in Nat
  OBVIOUS
<1>3. QED
  BY <1>1, <1>2

\* No upload that shares the budget has more bytes than its permits stand for.
LEMMA ReservationCovered ==
  ASSUME TypeOK, NEW r \in Requests, Want(r) < BudgetPermits
  PROVE  reserve[r] <= BytesPerPermit * Want(r)
<1> DEFINE n == (reserve[r] + BytesPerPermit - 1) \div BytesPerPermit
<1>1. reserve[r] \in Nat /\ BytesPerPermit \in Nat \ {0}
  BY ConfigAssumption DEF TypeOK
<1>2. reserve[r] + BytesPerPermit - 1 \in Nat
  BY <1>1
<1>3. n \in Nat /\ reserve[r] + BytesPerPermit - 1 < BytesPerPermit * n + BytesPerPermit
  BY <1>1, <1>2, DivFacts
<1>4. Want(r) = AtLeastOne(n)
  <2>1. BudgetPermits \in Nat
    BY WantType
  <2>2. QED
    BY <2>1 DEF Want
<1>5. BytesPerPermit * n \in Nat /\ BytesPerPermit * 1 = BytesPerPermit /\ BytesPerPermit * 0 = 0
  BY <1>1, <1>3
<1> HIDE DEF n
<1>6. reserve[r] <= BytesPerPermit * n
  BY <1>1, <1>3, <1>5
<1>7. CASE n = 0
  BY <1>1, <1>4, <1>5, <1>6, <1>7 DEF AtLeastOne
<1>8. CASE n # 0
  BY <1>4, <1>6, <1>8 DEF AtLeastOne
<1>9. QED
  BY <1>7, <1>8

\* Two uploads inside leave neither of them the whole budget.
LEMMA SharedBudget ==
  ASSUME IInv, InFlightBacked, MemBudgetBytes > 0,
         NEW r \in Admitted, NEW q \in Admitted, r # q
  PROVE  Want(r) < BudgetPermits
<1>1. /\ IsFiniteSet(MemPermits) /\ Cardinality(MemPermits) = BudgetPermits
      /\ mem.got[r] \subseteq MemPermits /\ mem.got[q] \subseteq MemPermits
      /\ mem.got[r] \cap mem.got[q] = {}
  BY PermitsAssumption, ConfigAssumption
     DEF IInv, SemaphoresSound, SemaphoreInv, Semaphores, PermitsPartitioned, Admitted, At, Requests
<1>2. /\ Cardinality(mem.got[r]) = Want(r) /\ Cardinality(mem.got[q]) = Want(q)
      /\ Want(r) \in Nat /\ Want(q) \in Nat /\ Want(q) > 0
  BY WantType DEF InFlightBacked, IInv, Admitted, At
<1>3. IsFiniteSet(mem.got[r]) /\ IsFiniteSet(mem.got[q])
  BY <1>1, FS_Subset
<1>4. Cardinality(mem.got[r] \cup mem.got[q]) = Want(r) + Want(q)
  <2>1. Cardinality(mem.got[r] \cap mem.got[q]) = 0
    BY <1>1, FS_EmptySet
  <2>2. Cardinality(mem.got[r] \cup mem.got[q]) =
          Cardinality(mem.got[r]) + Cardinality(mem.got[q]) - Cardinality(mem.got[r] \cap mem.got[q])
    BY <1>3, FS_Union
  <2>3. QED
    BY <1>2, <2>1, <2>2
<1>5. Cardinality(mem.got[r] \cup mem.got[q]) <= BudgetPermits
  BY <1>1, FS_Subset
<1>6. BudgetPermits \in Nat
  BY <1>1, FS_CardinalityType
<1>7. QED
  BY <1>2, <1>4, <1>5, <1>6

\* The load-bearing bound, for every number of requests and every configuration:
\* what the admitted uploads may buffer together stays within the budget, unless
\* there is only one of them.
THEOREM AdmissionBytesBound == Spec => []AdmittedBytesBound
<1>1. ASSUME IInv, InFlightBacked, MemBudgetBytes > 0, Cardinality(Admitted) # 1
      PROVE  SumFunctionOnSet(reserve, Admitted) <= MemBudgetBytes
  <2> DEFINE S == Admitted
             Held == UNION {mem.got[r] : r \in S}
  <2>1. S \subseteq Requests /\ IsFiniteSet(S) /\ TypeOK
    BY <1>1, TasksFinite, FS_Subset DEF Admitted, At, Requests, IInv
  <2>2. IsFiniteSet(MemPermits) /\ Cardinality(MemPermits) = BudgetPermits /\ BudgetPermits \in Nat
    BY <1>1, PermitsAssumption, ConfigAssumption, FS_CardinalityType
  <2>3. /\ \A r \in S : mem.got[r] \subseteq MemPermits
        /\ \A r, q \in S : r # q => mem.got[r] \cap mem.got[q] = {}
    BY <1>1, <2>1 DEF IInv, SemaphoresSound, SemaphoreInv, Semaphores, PermitsPartitioned, Requests
  <2>4. \A r \in S : \E q \in S : q # r
    <3> SUFFICES ASSUME NEW r \in S, \A q \in S : q = r PROVE FALSE
      OBVIOUS
    <3>1. S = {r}
      OBVIOUS
    <3>2. QED
      BY <1>1, <3>1, FS_Singleton
  <2>5. \A r \in S : /\ reserve[r] \in Nat /\ IsFiniteSet(mem.got[r])
                     /\ reserve[r] <= BytesPerPermit * Cardinality(mem.got[r])
    <3> SUFFICES ASSUME NEW r \in S
                 PROVE  /\ reserve[r] \in Nat /\ IsFiniteSet(mem.got[r])
                        /\ reserve[r] <= BytesPerPermit * Cardinality(mem.got[r])
      OBVIOUS
    <3>1. Want(r) < BudgetPermits
      BY <1>1, <2>4, SharedBudget
    <3>2. Cardinality(mem.got[r]) = Want(r)
      BY <1>1 DEF InFlightBacked
    <3>3. reserve[r] \in Nat /\ IsFiniteSet(mem.got[r])
      BY <2>1, <2>2, <2>3, FS_Subset DEF TypeOK
    <3>4. QED
      BY <2>1, <3>1, <3>2, <3>3, ReservationCovered
  <2>6. /\ SumFunctionOnSet(reserve, S) \in Nat
        /\ SumFunctionOnSet(reserve, S) <= BytesPerPermit * Cardinality(Held)
    <3>1. BytesPerPermit \in Nat
      BY ConfigAssumption
    <3> DEFINE f == reserve
               got == mem.got
    <3>2. \A x \in S : /\ f[x] \in Nat /\ IsFiniteSet(got[x])
                       /\ f[x] <= BytesPerPermit * Cardinality(got[x])
      BY <2>5
    <3>3. \A x, y \in S : x # y => got[x] \cap got[y] = {}
      BY <2>3
    <3> HIDE DEF S, f, got
    <3>4. /\ SumFunctionOnSet(f, S) \in Nat
          /\ SumFunctionOnSet(f, S) <= BytesPerPermit * Cardinality(UNION {got[x] : x \in S})
      BY <2>1, <3>1, <3>2, <3>3, SumWithin
    <3>5. QED
      BY <3>4 DEF f, got
  <2>7. Cardinality(Held) \in Nat /\ Cardinality(Held) <= BudgetPermits
    <3>1. Held \subseteq MemPermits
      BY <2>3
    <3> HIDE DEF Held
    <3>2. QED
      BY <2>2, <3>1, FS_Subset, FS_CardinalityType
  <2>8. CASE S = {}
    <3>1. Cardinality(Held) = 0 /\ BytesPerPermit * 0 = 0
      BY <2>8, FS_EmptySet, ConfigAssumption
    <3>2. MemBudgetBytes \in Nat
      BY ConfigAssumption
    <3> HIDE DEF Held, S
    <3>3. SumFunctionOnSet(reserve, S) <= MemBudgetBytes
      BY <2>6, <3>1, <3>2
    <3>4. QED
      BY <3>3 DEF S
  <2>9. CASE S # {}
    <3>1. PICK r \in S : TRUE
      BY <2>9
    <3>2. Want(r) \in Nat /\ Want(r) > 0 /\ Want(r) < BudgetPermits
      BY <1>1, <2>1, <2>4, SharedBudget, WantType
    <3>3. BudgetPermits = MemBudgetBytes \div BytesPerPermit
      BY <2>2, <3>2 DEF BudgetPermits, AtLeastOne
    <3>4. BytesPerPermit * BudgetPermits <= MemBudgetBytes
      BY <3>3, DivFacts, ConfigAssumption
    <3>5. \A b, i, j \in Nat : i <= j => b * i <= b * j
      OBVIOUS
    <3>6. BytesPerPermit * Cardinality(Held) <= BytesPerPermit * BudgetPermits
      BY <2>2, <2>7, <3>5, ConfigAssumption
    <3>7. BytesPerPermit \in Nat /\ MemBudgetBytes \in Nat
      BY ConfigAssumption
    <3> HIDE DEF Held, S
    <3>8. /\ BytesPerPermit * Cardinality(Held) \in Nat
          /\ BytesPerPermit * BudgetPermits \in Nat
      BY <2>2, <2>7, <3>7
    <3>9. QED
      BY <2>6, <3>4, <3>6, <3>7, <3>8 DEF S
  <2>10. QED
    BY <2>8, <2>9
<1>2. IInv /\ InFlightBacked => AdmittedBytesBound
  BY <1>1 DEF AdmittedBytesBound
<1>3. QED
  BY <1>2, Inductive, AdmissionInFlightBacked, PTL
-----------------------------------------------------------------------------
\* The queue never holds more than the configured depth, and the gauge knows
\* of everybody who waits.
THEOREM AdmissionQueueBounded == Spec => []QueueBounded
<1>1. ASSUME IInv PROVE QueueBounded
  <2>1. Parked(cpu) \subseteq Requests
    BY <1>1 DEF IInv, SemaphoresSound, SemaphoreInv, Semaphores, Parked, Requests
  <2>2. \A r \in Parked(cpu) : r \in HoldsQueuePlace
    BY <1>1, <2>1 DEF IInv, Asked, HoldsQueuePlace, At
  <2>3. QED
    BY <1>1, <2>2 DEF IInv, Gauges, QueueBounded
<1>2. QED
  BY <1>1, Inductive, PTL

\* Nobody pins budget bytes while it waits for a CPU slot, and the waiters for
\* memory are bounded by the CPU slots.
THEOREM AdmissionCpuBeforeMem == Spec => []CpuBeforeMem
<1>1. ASSUME IInv PROVE CpuBeforeMem
  <2>1. ASSUME NEW r \in Requests, pc[r] # "dropMem",
               mem.got[r] # {} \/ r \in WaitsForMem
        PROVE  cpu.got[r] # {}
    <3>1. MemAsked(r) # 0
      BY <1>1, <2>1, AskedIsOwned DEF WaitsForMem
    <3>2. CpuAsked(r) = 1 /\ pc[r] \notin {"cpuWait", "cpuAbandon"}
      BY <2>1, <3>1 DEF MemAsked, CpuAsked
    <3>3. r \notin Parked(cpu)
      BY <1>1, <3>2 DEF IInv, Asked
    <3>4. Cardinality(cpu.got[r]) = 1
      BY <1>1, <3>2, <3>3, AskedIsOwned
    <3>5. QED
      BY <3>4, FS_EmptySet
  <2>2. \A r \in WaitsForMem : r \in Requests /\ pc[r] # "dropMem"
    BY <1>1 DEF WaitsForMem, IInv, Asked
  <2>3. \A r \in WaitsForMem : cpu.got[r] # {}
    BY <2>1, <2>2
  <2>4. WaitsForMem \in SUBSET Tasks
    BY DEF WaitsForMem, Requests
  <2>5. Cardinality(WaitsForMem) <= Cardinality(CpuPermits)
    BY <1>1, <2>3, <2>4, OwnersBounded, PermitsAssumption DEF IInv, SemaphoresSound
  <2>6. QED
    BY <2>1, <2>5, PermitsAssumption DEF CpuBeforeMem, At
<1>2. QED
  BY <1>1, Inductive, PTL

\* After any history of grants, timeouts and cancellations, an idle gate is
\* the gate it was at the start.
THEOREM AdmissionNothingLeaks == Spec => []NothingLeaks
<1>1. ASSUME IInv, At({"idle", "done"}) = Requests
      PROVE  /\ cpu = NewSemaphore(CpuPermits)
             /\ mem = NewSemaphore(MemPermits)
             /\ queued = 0 /\ inFlight = 0
  <2>1. \A r \in Requests : pc[r] \in {"idle", "done"}
    BY <1>1 DEF At
  <2>2. \A r \in Tasks : cpu.need[r] = 0 /\ mem.need[r] = 0
    BY <1>1, <2>1 DEF IInv, Asked, CpuAsked, MemAsked, Requests
  <2>3. cpu = NewSemaphore(CpuPermits) /\ mem = NewSemaphore(MemPermits)
    BY <1>1, <2>2, IdleIsNew, PermitsAssumption DEF IInv, SemaphoresSound
  <2>4. Admitted = {} /\ HoldsQueuePlace = {}
    BY <2>1 DEF Admitted, HoldsQueuePlace, At
  <2>5. QED
    BY <1>1, <2>3, <2>4, FS_EmptySet DEF IInv, Gauges
<1>2. IInv => NothingLeaks
  BY <1>1 DEF NothingLeaks
<1>3. QED
  BY <1>2, Inductive, PTL
-----------------------------------------------------------------------------
\* The requests a rejection counter has to account for.
Rejected(x) == {r \in Requests : outcome[r] = x /\ pc[r] \notin {"cpuAbandon", "memAbandon"}}

\* One more request in the set, one more in the counter.
LEMMA RejectedOneMore ==
  ASSUME NEW x \in Reasons, NEW r \in Requests, r \notin Rejected(x),
         Rejected(x)' = Rejected(x) \cup {r}
  PROVE  Cardinality(Rejected(x))' = Cardinality(Rejected(x)) + 1
<1>1. IsFiniteSet(Rejected(x))
  BY TasksFinite, FS_Subset DEF Rejected, Requests
<1>2. Cardinality(Rejected(x) \cup {r}) =
        IF r \in Rejected(x) THEN Cardinality(Rejected(x)) ELSE Cardinality(Rejected(x)) + 1
  BY <1>1, FS_AddElement
<1>3. QED
  BY <1>2

\* A step that counts a rejection of r under x adds r to the set of x alone.
LEMMA CountedOnce ==
  ASSUME TypeOK, RejectionsCounted, NEW r \in Requests, NEW x \in Reasons,
         r \notin Rejected(x), Count(x),
         \A y \in Reasons : Rejected(y)' = IF y = x THEN Rejected(y) \cup {r} ELSE Rejected(y)
  PROVE  RejectionsCounted'
<1>1. SUFFICES ASSUME NEW y \in Reasons
               PROVE  rejected'[y] = Cardinality(Rejected(y))'
  BY DEF RejectionsCounted, Rejected
<1>2. rejected[y] = Cardinality(Rejected(y))
  BY DEF RejectionsCounted, Rejected
<1>3. CASE y = x
  <2>1. Cardinality(Rejected(x))' = Cardinality(Rejected(x)) + 1
    BY RejectedOneMore
  <2>2. QED
    BY <1>2, <1>3, <2>1 DEF Count, TypeOK
<1>4. CASE y # x
  BY <1>2, <1>4 DEF Count, TypeOK
<1>5. QED
  BY <1>3, <1>4

\* A step that decides no rejection leaves the sets and the counters alone.
LEMMA CountedNone ==
  ASSUME RejectionsCounted, rejected' = rejected,
         \A y \in Reasons : Rejected(y)' = Rejected(y)
  PROVE  RejectionsCounted'
BY DEF RejectionsCounted, Rejected

LEMMA RejectionsStep ==
  ASSUME IInv, RejectionsCounted, [Next]_vars
  PROVE  RejectionsCounted'
<1> USE DEF Step, Goto, Decide, Reasons
<1>1. TypeOK /\ Decided
  BY DEF IInv
<1>2. ASSUME NEW r \in Requests, NEW n \in ReserveSizes, Arrive(r, n)
      PROVE  RejectionsCounted'
  <2>1. CASE Shedding
    <3>1. /\ r \notin Rejected("rss_shed") /\ Count("rss_shed")
          /\ \A y \in Reasons : Rejected(y)' =
               IF y = "rss_shed" THEN Rejected(y) \cup {r} ELSE Rejected(y)
      BY <1>1, <1>2, <2>1 DEF Arrive, Rejected, TypeOK, Decided
    <3>2. QED
      BY <1>1, <3>1, CountedOnce
  <2>2. CASE ~Shedding
    <3>1. rejected' = rejected /\ \A y \in Reasons : Rejected(y)' = Rejected(y)
      BY <1>1, <1>2, <2>2 DEF Arrive, Rejected, TypeOK, Decided
    <3>2. QED
      BY <3>1, CountedNone
  <2>3. QED
    BY <2>1, <2>2
<1>3. ASSUME NEW r \in Requests, QueueFull(r)
      PROVE  RejectionsCounted'
  <2>1. /\ r \notin Rejected("queue_full") /\ Count("queue_full")
        /\ \A y \in Reasons : Rejected(y)' =
             IF y = "queue_full" THEN Rejected(y) \cup {r} ELSE Rejected(y)
    BY <1>1, <1>3 DEF QueueFull, Rejected, TypeOK, Decided
  <2>2. QED
    BY <1>1, <2>1, CountedOnce
<1>4. ASSUME NEW r \in Requests, CpuAbandon(r)
      PROVE  RejectionsCounted'
  <2>1. CASE outcome[r] = "overloaded"
    <3>1. /\ r \notin Rejected("overloaded") /\ Count("overloaded")
          /\ \A y \in Reasons : Rejected(y)' =
               IF y = "overloaded" THEN Rejected(y) \cup {r} ELSE Rejected(y)
      BY <1>1, <1>4, <2>1 DEF CpuAbandon, Rejected, TypeOK, Decided
    <3>2. QED
      BY <1>1, <3>1, CountedOnce
  <2>2. CASE outcome[r] # "overloaded"
    <3>1. rejected' = rejected /\ \A y \in Reasons : Rejected(y)' = Rejected(y)
      BY <1>1, <1>4, <2>2 DEF CpuAbandon, Rejected, TypeOK, Decided
    <3>2. QED
      BY <3>1, CountedNone
  <2>3. QED
    BY <2>1, <2>2
<1>5. ASSUME NEW r \in Requests, MemAbandon(r)
      PROVE  RejectionsCounted'
  <2>1. CASE outcome[r] = "overloaded"
    <3>1. /\ r \notin Rejected("overloaded") /\ Count("overloaded")
          /\ \A y \in Reasons : Rejected(y)' =
               IF y = "overloaded" THEN Rejected(y) \cup {r} ELSE Rejected(y)
      BY <1>1, <1>5, <2>1 DEF MemAbandon, Rejected, TypeOK, Decided
    <3>2. QED
      BY <1>1, <3>1, CountedOnce
  <2>2. CASE outcome[r] # "overloaded"
    <3>1. rejected' = rejected /\ \A y \in Reasons : Rejected(y)' = Rejected(y)
      BY <1>1, <1>5, <2>2 DEF MemAbandon, Rejected, TypeOK, Decided
    <3>2. QED
      BY <3>1, CountedNone
  <2>3. QED
    BY <2>1, <2>2
<1>6. ASSUME NEW r \in Requests, CpuBusy(r)
      PROVE  RejectionsCounted'
  <2>1. rejected' = rejected /\ \A y \in Reasons : Rejected(y)' = Rejected(y)
    BY <1>1, <1>6 DEF CpuBusy, Rejected, TypeOK, Decided
  <2>2. QED
    BY <2>1, CountedNone
<1>7. ASSUME NEW r \in Requests, LoadQueued(r)
      PROVE  RejectionsCounted'
  <2>1. rejected' = rejected /\ \A y \in Reasons : Rejected(y)' = Rejected(y)
    BY <1>1, <1>7 DEF LoadQueued, Rejected, TypeOK, Decided
  <2>2. QED
    BY <2>1, CountedNone
<1>8. ASSUME NEW r \in Requests, ReserveSlot(r)
      PROVE  RejectionsCounted'
  <2>1. rejected' = rejected /\ \A y \in Reasons : Rejected(y)' = Rejected(y)
    BY <1>1, <1>8 DEF ReserveSlot, Rejected, TypeOK, Decided
  <2>2. QED
    BY <2>1, CountedNone
<1>9. ASSUME NEW r \in Requests, ReserveRetry(r)
      PROVE  RejectionsCounted'
  <2>1. rejected' = rejected /\ \A y \in Reasons : Rejected(y)' = Rejected(y)
    BY <1>1, <1>9 DEF ReserveRetry, Rejected, TypeOK, Decided
  <2>2. QED
    BY <2>1, CountedNone
<1>10. ASSUME NEW r \in Requests, CpuGranted(r)
      PROVE  RejectionsCounted'
  <2>1. rejected' = rejected /\ \A y \in Reasons : Rejected(y)' = Rejected(y)
    BY <1>1, <1>10 DEF CpuGranted, Rejected, TypeOK, Decided
  <2>2. QED
    BY <2>1, CountedNone
<1>11. ASSUME NEW r \in Requests, CpuExpire(r)
      PROVE  RejectionsCounted'
  <2>1. rejected' = rejected /\ \A y \in Reasons : Rejected(y)' = Rejected(y)
    BY <1>1, <1>11 DEF CpuExpire, Rejected, TypeOK, Decided
  <2>2. QED
    BY <2>1, CountedNone
<1>12. ASSUME NEW r \in Requests, LeaveQueue(r)
      PROVE  RejectionsCounted'
  <2>1. rejected' = rejected /\ \A y \in Reasons : Rejected(y)' = Rejected(y)
    BY <1>1, <1>12 DEF LeaveQueue, Rejected, TypeOK, Decided
  <2>2. QED
    BY <2>1, CountedNone
<1>13. ASSUME NEW r \in Requests, MemGranted(r)
      PROVE  RejectionsCounted'
  <2>1. rejected' = rejected /\ \A y \in Reasons : Rejected(y)' = Rejected(y)
    BY <1>1, <1>13 DEF MemGranted, Rejected, TypeOK, Decided
  <2>2. QED
    BY <2>1, CountedNone
<1>14. ASSUME NEW r \in Requests, MemExpire(r)
      PROVE  RejectionsCounted'
  <2>1. rejected' = rejected /\ \A y \in Reasons : Rejected(y)' = Rejected(y)
    BY <1>1, <1>14 DEF MemExpire, Rejected, TypeOK, Decided
  <2>2. QED
    BY <2>1, CountedNone
<1>15. ASSUME NEW r \in Requests, Admit(r)
      PROVE  RejectionsCounted'
  <2>1. rejected' = rejected /\ \A y \in Reasons : Rejected(y)' = Rejected(y)
    BY <1>1, <1>15 DEF Admit, Rejected, TypeOK, Decided
  <2>2. QED
    BY <2>1, CountedNone
<1>16. ASSUME NEW r \in Requests, DropGuard(r)
      PROVE  RejectionsCounted'
  <2>1. rejected' = rejected /\ \A y \in Reasons : Rejected(y)' = Rejected(y)
    BY <1>1, <1>16 DEF DropGuard, Rejected, TypeOK, Decided
  <2>2. QED
    BY <2>1, CountedNone
<1>17. ASSUME NEW r \in Requests, Cancel(r)
      PROVE  RejectionsCounted'
  <2>1. rejected' = rejected /\ \A y \in Reasons : Rejected(y)' = Rejected(y)
    BY <1>1, <1>17 DEF Cancel, Rejected, TypeOK, Decided
  <2>2. QED
    BY <2>1, CountedNone
<1>18. ASSUME NEW r \in Requests, DropCpu(r)
      PROVE  RejectionsCounted'
  <2>1. rejected' = rejected /\ \A y \in Reasons : Rejected(y)' = Rejected(y)
    BY <1>1, <1>18 DEF DropCpu, Rejected, TypeOK, Decided
  <2>2. QED
    BY <2>1, CountedNone
<1>19. ASSUME NEW r \in Requests, DropMem(r)
      PROVE  RejectionsCounted'
  <2>1. rejected' = rejected /\ \A y \in Reasons : Rejected(y)' = Rejected(y)
    BY <1>1, <1>19 DEF DropMem, Rejected, TypeOK, Decided
  <2>2. QED
    BY <2>1, CountedNone
<1>20. ASSUME NEW r \in Requests, TryCpu(r)
      PROVE  RejectionsCounted'
  <2>1. rejected' = rejected /\ \A y \in Reasons : Rejected(y)' = Rejected(y)
    BY <1>1, <1>20 DEF TryCpu, Rejected, TypeOK, Decided
  <2>2. QED
    BY <2>1, CountedNone
<1>21. ASSUME NEW r \in Requests, PollCpu(r)
      PROVE  RejectionsCounted'
  <2>1. rejected' = rejected /\ \A y \in Reasons : Rejected(y)' = Rejected(y)
    BY <1>1, <1>21 DEF PollCpu, Rejected, TypeOK, Decided
  <2>2. QED
    BY <2>1, CountedNone
<1>22. ASSUME NEW r \in Requests, PollMem(r)
      PROVE  RejectionsCounted'
  <2>1. rejected' = rejected /\ \A y \in Reasons : Rejected(y)' = Rejected(y)
    BY <1>1, <1>22 DEF PollMem, Rejected, TypeOK, Decided
  <2>2. QED
    BY <2>1, CountedNone
<1>23. ASSUME NEW b \in RssSamples, Sample(b)
      PROVE  RejectionsCounted'
  BY <1>23, CountedNone DEF Sample, Rejected
<1>24. CASE UNCHANGED vars
  BY <1>24, CountedNone DEF vars, Rejected
<1>25. QED
  BY <1>2, <1>3, <1>4, <1>5, <1>6, <1>7, <1>8, <1>9, <1>10, <1>11,
     <1>12, <1>13, <1>14, <1>15, <1>16, <1>17, <1>18, <1>19, <1>20,
     <1>21, <1>22, <1>23, <1>24
     DEF Next, Acquiring, Dropping, Expire

\* Each rejection is counted once under its reason, whatever raced with it.
THEOREM AdmissionRejectionsCounted == Spec => []RejectionsCounted
<1>1. Init => RejectionsCounted
  <2>1. SUFFICES ASSUME Init PROVE RejectionsCounted
    OBVIOUS
  <2>2. \A x \in Reasons : Rejected(x) = {}
    BY <2>1 DEF Init, Rejected, Reasons
  <2>3. \A x \in Reasons : rejected[x] = 0
    BY <2>1 DEF Init
  <2>4. \A x \in Reasons : rejected[x] = Cardinality(Rejected(x))
    BY <2>2, <2>3, FS_EmptySet
  <2>5. QED
    BY <2>4 DEF RejectionsCounted, Rejected
<1>2. IInv /\ RejectionsCounted /\ [Next]_vars => RejectionsCounted'
  BY RejectionsStep
<1>3. QED
  BY <1>1, <1>2, Inductive, PTL DEF Spec
-----------------------------------------------------------------------------
\* While a guard is held, no step of anybody takes a permit from it.
LEMMA GuardKeeps ==
  ASSUME IInv, [Next]_vars, NEW q \in Requests, pc[q] = "held"
  PROVE  cpu.got[q] \subseteq cpu'.got[q] /\ mem.got[q] \subseteq mem'.got[q]
<1> DEFINE Kept == cpu.got[q] \subseteq cpu'.got[q] /\ mem.got[q] \subseteq mem'.got[q]
<1>1. /\ TypeOK /\ Asked /\ q \in Tasks
      /\ SemaphoreInv(cpu, CpuPermits) /\ SemaphoreInv(mem, MemPermits)
      /\ IsFiniteSet(CpuPermits) /\ IsFiniteSet(MemPermits)
  BY PermitsAssumption DEF IInv, SemaphoresSound, Requests
<1>2. ASSUME NEW r \in Requests, NEW n \in ReserveSizes, Arrive(r, n)
      PROVE  Kept
  BY <1>2 DEF Arrive
<1>3. ASSUME NEW r \in Requests, CpuBusy(r)
      PROVE  Kept
  BY <1>3 DEF CpuBusy
<1>4. ASSUME NEW r \in Requests, LoadQueued(r)
      PROVE  Kept
  BY <1>4 DEF LoadQueued
<1>5. ASSUME NEW r \in Requests, QueueFull(r)
      PROVE  Kept
  BY <1>5 DEF QueueFull
<1>6. ASSUME NEW r \in Requests, ReserveSlot(r)
      PROVE  Kept
  BY <1>6 DEF ReserveSlot
<1>7. ASSUME NEW r \in Requests, ReserveRetry(r)
      PROVE  Kept
  BY <1>7 DEF ReserveRetry
<1>8. ASSUME NEW r \in Requests, CpuGranted(r)
      PROVE  Kept
  BY <1>8 DEF CpuGranted
<1>9. ASSUME NEW r \in Requests, CpuExpire(r)
      PROVE  Kept
  BY <1>9 DEF CpuExpire
<1>10. ASSUME NEW r \in Requests, LeaveQueue(r)
      PROVE  Kept
  BY <1>10 DEF LeaveQueue
<1>11. ASSUME NEW r \in Requests, MemGranted(r)
      PROVE  Kept
  BY <1>11 DEF MemGranted
<1>12. ASSUME NEW r \in Requests, MemExpire(r)
      PROVE  Kept
  BY <1>12 DEF MemExpire
<1>13. ASSUME NEW r \in Requests, Admit(r)
      PROVE  Kept
  BY <1>13 DEF Admit
<1>14. ASSUME NEW r \in Requests, DropGuard(r)
      PROVE  Kept
  BY <1>14 DEF DropGuard
<1>15. ASSUME NEW r \in Requests, Cancel(r)
      PROVE  Kept
  BY <1>15 DEF Cancel
<1>16. ASSUME NEW r \in Requests, CpuAbandon(r)
      PROVE  Kept
  <2>1. /\ cpu' \in Release(cpu, r) /\ mem' = mem
        /\ q \in Tasks \ {r} /\ r \in Tasks
    BY <1>1, <1>16 DEF CpuAbandon, Step, Requests
  <2>2. cpu.got[q] \subseteq cpu'.got[q]
    BY <1>1, <2>1, ReleaseSound
  <2>3. QED
    BY <2>1, <2>2
<1>17. ASSUME NEW r \in Requests, DropCpu(r)
      PROVE  Kept
  <2>1. /\ cpu' \in Release(cpu, r) /\ mem' = mem
        /\ q \in Tasks \ {r} /\ r \in Tasks
    BY <1>1, <1>17 DEF DropCpu, Step, Requests
  <2>2. cpu.got[q] \subseteq cpu'.got[q]
    BY <1>1, <2>1, ReleaseSound
  <2>3. QED
    BY <2>1, <2>2
<1>18. ASSUME NEW r \in Requests, MemAbandon(r)
      PROVE  Kept
  <2>1. /\ mem' \in Release(mem, r) /\ cpu' = cpu
        /\ q \in Tasks \ {r} /\ r \in Tasks
    BY <1>1, <1>18 DEF MemAbandon, Step, Requests
  <2>2. mem.got[q] \subseteq mem'.got[q]
    BY <1>1, <2>1, ReleaseSound
  <2>3. QED
    BY <2>1, <2>2
<1>19. ASSUME NEW r \in Requests, DropMem(r)
      PROVE  Kept
  <2>1. /\ mem' \in Release(mem, r) /\ cpu' = cpu
        /\ q \in Tasks \ {r} /\ r \in Tasks
    BY <1>1, <1>19 DEF DropMem, Step, Requests
  <2>2. mem.got[q] \subseteq mem'.got[q]
    BY <1>1, <2>1, ReleaseSound
  <2>3. QED
    BY <2>1, <2>2
<1>20. ASSUME NEW r \in Requests, TryCpu(r)
      PROVE  Kept
  <2>1. /\ cpu' \in TryAcquire(cpu, r) /\ mem' = mem
        /\ q \in Tasks \ {r} /\ r \in Tasks
    BY <1>1, <1>20 DEF TryCpu, Step, Requests
  <2>2. cpu.need[r] = 0
    BY <1>1, <1>20 DEF TryCpu, Step, Asked, CpuAsked
  <2>3. cpu.got[q] \subseteq cpu'.got[q]
    BY <1>1, <2>1, <2>2, TryAcquireSound
  <2>4. QED
    BY <2>1, <2>3
<1>21. ASSUME NEW r \in Requests, PollCpu(r)
      PROVE  Kept
  <2>1. /\ cpu' \in Acquire(cpu, r, 1) /\ mem' = mem
        /\ q \in Tasks \ {r} /\ r \in Tasks
    BY <1>1, <1>21 DEF PollCpu, Step, Requests
  <2>2. cpu.need[r] = 0
    BY <1>1, <1>21 DEF PollCpu, Step, Asked, CpuAsked
  <2>3. ASSUME NEW m \in Nat, cpu' \in Acquire(cpu, r, m)
        PROVE  cpu.got[q] \subseteq cpu'.got[q]
    BY <1>1, <2>1, <2>2, <2>3, AcquireSound
  <2>4. QED
    BY <2>1, <2>3
<1>22. ASSUME NEW r \in Requests, PollMem(r)
      PROVE  Kept
  <2>1. cpu' = cpu /\ q \in Tasks \ {r} /\ r \in Tasks
    BY <1>1, <1>22 DEF PollMem, Step, Requests
  <2>2. mem.need[r] = 0
    BY <1>1, <1>22 DEF PollMem, Step, Asked, MemAsked
  <2>3. CASE mem' = mem
    BY <2>1, <2>3
  <2>4. CASE mem' \in Acquire(mem, r, Want(r))
    <3>1. Want(r) \in Nat
      BY <1>1, WantType
    <3>2. mem.got[q] \subseteq mem'.got[q]
      BY <1>1, <2>1, <2>2, <2>4, <3>1, AcquireSound
    <3>3. QED
      BY <2>1, <3>2
  <2>5. QED
    BY <1>22, <2>3, <2>4 DEF PollMem
<1>23. ASSUME NEW b \in RssSamples, Sample(b)
      PROVE  Kept
  BY <1>23 DEF Sample
<1>24. CASE UNCHANGED vars
  BY <1>24 DEF vars
<1>25. QED
  BY <1>2, <1>3, <1>4, <1>5, <1>6, <1>7, <1>8, <1>9, <1>10, <1>11,
     <1>12, <1>13, <1>14, <1>15, <1>16, <1>17, <1>18, <1>19, <1>20,
     <1>21, <1>22, <1>23, <1>24
     DEF Next, Acquiring, Dropping, Expire

\* So a guard that is held before and after a step owns the same permits.
LEMMA GuardUnchanged ==
  ASSUME IInv, IInv', [Next]_vars, NEW q \in Requests, pc[q] = "held", pc'[q] = "held",
         reserve'[q] = reserve[q]
  PROVE  cpu'.got[q] = cpu.got[q] /\ mem'.got[q] = mem.got[q]
<1>1. /\ cpu.got[q] \subseteq cpu'.got[q] /\ mem.got[q] \subseteq mem'.got[q]
  BY GuardKeeps
<1>2. /\ q \notin Parked(cpu) /\ q \notin Parked(mem)
      /\ q \notin Parked(cpu') /\ q \notin Parked(mem')
  BY DEF IInv, Asked
<1>3. /\ Cardinality(cpu.got[q]) = CpuAsked(q)
      /\ Cardinality(mem.got[q]) = MemAsked(q)
  BY <1>2, AskedIsOwned
<1>4. /\ Cardinality(cpu'.got[q]) = CpuAsked(q)'
      /\ Cardinality(mem'.got[q]) = MemAsked(q)'
  <2>1. \A r \in Requests : /\ r \notin Parked(cpu') => Cardinality(cpu'.got[r]) = CpuAsked(r)'
                            /\ r \notin Parked(mem') => Cardinality(mem'.got[r]) = MemAsked(r)'
    BY PermitsAssumption
       DEF IInv, SemaphoresSound, SemaphoreInv, QueueJustified, Asked, Requests
  <2>2. QED
    BY <1>2, <2>1
<1>5. CpuAsked(q)' = CpuAsked(q) /\ MemAsked(q)' = MemAsked(q)
  BY DEF CpuAsked, MemAsked, Want
<1>6. cpu'.got[q] \in SUBSET CpuPermits /\ mem'.got[q] \in SUBSET MemPermits
  BY DEF IInv, TypeOK, Semaphores, Requests
<1>7. IsFiniteSet(cpu'.got[q]) /\ IsFiniteSet(mem'.got[q])
  BY <1>6, PermitsAssumption, FS_Subset
<1>8. QED
  BY <1>1, <1>3, <1>4, <1>5, <1>7, FS_Subset
-----------------------------------------------------------------------------
\* The refinement mapping, with names of its own.
Settled == {r \in Requests : outcome[r] # "none"} \ Admitted
SlotOf == [r \in Requests |-> IF pc[r] = "held" THEN cpu.got[r] ELSE {}]
ShareOf == [r \in Requests |-> IF pc[r] = "held" THEN mem.got[r] ELSE {}]

\* A step that moves one request, none to or from the guard, leaves the slots
\* and shares of the gate alone.
LEMMA OthersUnchanged ==
  ASSUME IInv, IInv', [Next]_vars, NEW r \in Requests,
         \A q \in Requests \ {r} : pc'[q] = pc[q] /\ reserve'[q] = reserve[q]
  PROVE  \A q \in Requests \ {r} : SlotOf'[q] = SlotOf[q] /\ ShareOf'[q] = ShareOf[q]
<1> SUFFICES ASSUME NEW q \in Requests \ {r}
             PROVE  SlotOf'[q] = SlotOf[q] /\ ShareOf'[q] = ShareOf[q]
  OBVIOUS
<1>1. CASE pc[q] = "held"
  <2>1. cpu'.got[q] = cpu.got[q] /\ mem'.got[q] = mem.got[q]
    BY <1>1, GuardUnchanged
  <2>2. QED
    BY <1>1, <2>1 DEF SlotOf, ShareOf
<1>2. CASE pc[q] # "held"
  BY <1>2 DEF SlotOf, ShareOf
<1>3. QED
  BY <1>1, <1>2

\* A step that moves r but not to or from a guard, and decides nothing.
LEMMA GateStutters ==
  ASSUME IInv, IInv', [Next]_vars, NEW r \in Requests,
         \A q \in Requests \ {r} : pc'[q] = pc[q] /\ reserve'[q] = reserve[q],
         pc[r] # "held", pc'[r] # "held", outcome' = outcome
  PROVE  UNCHANGED <<Admitted, Settled, SlotOf, ShareOf>>
<1>1. \A q \in Requests : SlotOf'[q] = SlotOf[q] /\ ShareOf'[q] = ShareOf[q]
  BY OthersUnchanged DEF SlotOf, ShareOf
<1>2. SlotOf' = SlotOf /\ ShareOf' = ShareOf
  BY <1>1 DEF SlotOf, ShareOf
<1>3. Admitted' = Admitted
  BY DEF Admitted, At
<1>4. Settled' = Settled
  BY <1>3 DEF Settled
<1>5. QED
  BY <1>2, <1>3, <1>4

\* A step that turns r away is the gate's Refuse.
LEMMA GateRefuses ==
  ASSUME IInv, IInv', [Next]_vars, NEW r \in Requests, NEW o \in Outcomes \ {"none"},
         \A q \in Requests \ {r} : pc'[q] = pc[q] /\ reserve'[q] = reserve[q],
         pc[r] # "held", pc'[r] # "held", outcome[r] = "none",
         outcome' = [outcome EXCEPT ![r] = o]
  PROVE  Gate!Refuse(r)
<1>1. \A q \in Requests : SlotOf'[q] = SlotOf[q] /\ ShareOf'[q] = ShareOf[q]
  BY OthersUnchanged DEF SlotOf, ShareOf
<1>2. SlotOf' = SlotOf /\ ShareOf' = ShareOf
  BY <1>1 DEF SlotOf, ShareOf
<1>3. Admitted' = Admitted /\ r \notin Admitted
  BY DEF Admitted, At
<1>4. outcome \in [Requests -> Outcomes]
  BY DEF IInv, TypeOK
<1>5. Settled' = Settled \cup {r} /\ r \notin Settled
  BY <1>3, <1>4 DEF Settled
<1>6. QED
  BY <1>2, <1>3, <1>5 DEF Gate!Refuse, Settled, SlotOf, ShareOf

\* The gauge's increment is the gate's Admit: the permits r waited for are its
\* alone, so they are free as far as the gate knows.
LEMMA GateAdmits ==
  ASSUME IInv, IInv', [Next]_vars, NEW r \in Requests, Admit(r)
  PROVE  Gate!Admit(r)
<1>1. /\ pc[r] = "admit" /\ pc' = [pc EXCEPT ![r] = "held"]
      /\ outcome' = [outcome EXCEPT ![r] = "admitted"] /\ outcome[r] = "none"
      /\ cpu' = cpu /\ mem' = mem /\ reserve' = reserve
      /\ pc \in [Requests -> PCs] /\ outcome \in [Requests -> Outcomes]
  BY DEF Admit, Step, Goto, Decide, IInv, TypeOK, Decided
<1>2. /\ Admitted' = Admitted \cup {r} /\ r \notin Admitted
      /\ Settled' = Settled /\ r \notin Settled
  BY <1>1 DEF Admitted, At, Settled
<1>3. /\ r \notin Parked(cpu) /\ r \notin Parked(mem)
      /\ CpuAsked(r) = 1 /\ (MemBudgetBytes # 0 => MemAsked(r) = Want(r))
  BY <1>1 DEF IInv, Asked, CpuAsked, MemAsked
<1>4. PICK s : cpu.got[r] = {s}
  <2>1. IsFiniteSet(cpu.got[r])
    BY PermitsAssumption, FS_Subset DEF IInv, TypeOK, Semaphores, Requests
  <2>2. Cardinality(cpu.got[r]) = 1
    BY <1>3, AskedIsOwned
  <2>3. QED
    BY <2>1, <2>2, FS_Singleton
<1>5. /\ \A q \in Requests \ {r} : cpu.got[q] \cap cpu.got[r] = {}
      /\ \A q \in Requests \ {r} : mem.got[q] \cap mem.got[r] = {}
      /\ cpu.got[r] \subseteq CpuPermits /\ mem.got[r] \subseteq MemPermits
  BY DEF IInv, SemaphoresSound, SemaphoreInv, PermitsPartitioned, Semaphores, Requests
<1>6. \A q \in Admitted : q \in Requests \ {r} /\ SlotOf[q] = cpu.got[q] /\ ShareOf[q] = mem.got[q]
  BY <1>2 DEF SlotOf, ShareOf, Admitted, At
<1>7. s \in CpuPermits \ UNION {SlotOf[q] : q \in Admitted}
  BY <1>4, <1>5, <1>6
<1>8. SlotOf' = [SlotOf EXCEPT ![r] = {s}]
  BY <1>1, <1>4 DEF SlotOf
<1>9. mem.got[r] \in SUBSET (MemPermits \ UNION {ShareOf[q] : q \in Admitted})
  BY <1>5, <1>6
<1>10. ShareOf' = [ShareOf EXCEPT ![r] = mem.got[r]]
  BY <1>1 DEF ShareOf
<1>11. MemPermits # {} => mem.got[r] # {}
  <2>1. SUFFICES ASSUME MemPermits # {} PROVE mem.got[r] # {}
    OBVIOUS
  <2>2. MemBudgetBytes # 0
    BY <2>1, PermitsAssumption, FS_EmptySet
  <2>3. Cardinality(mem.got[r]) = Want(r) /\ Want(r) > 0
    BY <1>3, <2>2, AskedIsOwned, WantType DEF IInv
  <2>4. QED
    BY <2>3, FS_EmptySet
<1> DEFINE Free(f) == UNION {f[q] : q \in Admitted}
<1>12. \E x \in CpuPermits \ Free(SlotOf) : SlotOf' = [SlotOf EXCEPT ![r] = {x}]
  BY <1>7, <1>8
<1>13. \E u \in SUBSET (MemPermits \ Free(ShareOf)) :
          (MemPermits # {} => u # {}) /\ ShareOf' = [ShareOf EXCEPT ![r] = u]
  BY <1>9, <1>10, <1>11
<1>14. r \notin Admitted \cup Settled
  BY <1>2
<1>15. QED
  BY <1>2, <1>12, <1>13, <1>14 DEF Gate!Admit, Settled, SlotOf, ShareOf

\* The guard's drop is the gate's Leave.
LEMMA GateLeaves ==
  ASSUME IInv, IInv', [Next]_vars, NEW r \in Requests, DropGuard(r)
  PROVE  Gate!Leave(r)
<1>1. /\ pc[r] = "held" /\ pc' = [pc EXCEPT ![r] = "dropCpu"]
      /\ outcome' = outcome /\ outcome[r] = "admitted"
      /\ cpu' = cpu /\ mem' = mem
      /\ pc \in [Requests -> PCs]
  BY DEF DropGuard, Step, Goto, IInv, TypeOK, Decided
<1>2. /\ Admitted' = Admitted \ {r} /\ r \in Admitted
      /\ Settled' = Settled \cup {r}
  BY <1>1 DEF Admitted, At, Settled
<1>3. SlotOf' = [SlotOf EXCEPT ![r] = {}] /\ ShareOf' = [ShareOf EXCEPT ![r] = {}]
  BY <1>1 DEF SlotOf, ShareOf
<1>4. QED
  BY <1>2, <1>3 DEF Gate!Leave, Settled, SlotOf, ShareOf

LEMMA GateInitial == Init => Gate!Init
<1> SUFFICES ASSUME Init PROVE Gate!Init
  OBVIOUS
<1>1. Admitted = {} /\ Settled = {}
  BY DEF Init, Admitted, At, Settled
<1>2. SlotOf = [r \in Requests |-> {}] /\ ShareOf = [r \in Requests |-> {}]
  BY DEF Init, SlotOf, ShareOf
<1>3. QED
  BY <1>1, <1>2 DEF Gate!Init, Settled, SlotOf, ShareOf

LEMMA GateStep ==
  ASSUME IInv, IInv', [Next]_vars
  PROVE  Gate!Next \/ UNCHANGED <<Admitted, Settled, SlotOf, ShareOf>>
<1> USE DEF Step, Goto, Decide, PCs, Outcomes, Reasons
<1> DEFINE Mapped == Gate!Next \/ UNCHANGED <<Admitted, Settled, SlotOf, ShareOf>>
<1>1. /\ pc \in [Requests -> PCs] /\ reserve \in [Requests -> Nat]
      /\ outcome \in [Requests -> Outcomes] /\ Decided
  BY DEF IInv, TypeOK
<1>2. ASSUME NEW r \in Requests, NEW n \in ReserveSizes, Arrive(r, n)
      PROVE  Mapped
  <2>1. CASE Shedding
    <3>1. Gate!Refuse(r)
      <4>1. /\ \A q \in Requests \ {r} : pc'[q] = pc[q] /\ reserve'[q] = reserve[q]
            /\ pc[r] # "held" /\ pc'[r] # "held" /\ outcome[r] = "none"
            /\ outcome' = [outcome EXCEPT ![r] = "rss_shed"]
            /\ "rss_shed" \in Outcomes \ {"none"}
        BY <1>1, <1>2, <2>1 DEF Arrive, Decided
      <4>2. QED
        BY <4>1, GateRefuses
    <3>2. QED
      BY <3>1 DEF Gate!Next
  <2>2. CASE ~Shedding
    <3>1. /\ \A q \in Requests \ {r} : pc'[q] = pc[q] /\ reserve'[q] = reserve[q]
          /\ pc[r] # "held" /\ pc'[r] # "held" /\ outcome' = outcome
      BY <1>1, <1>2, <2>2 DEF Arrive
    <3>2. QED
      BY <3>1, GateStutters
  <2>3. QED
    BY <2>1, <2>2
<1>3. ASSUME NEW r \in Requests, Admit(r)
      PROVE  Mapped
  BY <1>3, GateAdmits DEF Gate!Next
<1>4. ASSUME NEW r \in Requests, DropGuard(r)
      PROVE  Mapped
  BY <1>4, GateLeaves DEF Gate!Next
<1>5. ASSUME NEW r \in Requests, QueueFull(r)
      PROVE  Mapped
  <2>1. /\ \A q \in Requests \ {r} : pc'[q] = pc[q] /\ reserve'[q] = reserve[q]
        /\ pc[r] # "held" /\ pc'[r] # "held" /\ outcome[r] = "none"
        /\ outcome' = [outcome EXCEPT ![r] = "queue_full"]
        /\ "queue_full" \in Outcomes \ {"none"}
    BY <1>1, <1>5 DEF QueueFull, Decided
  <2>2. QED
    BY <2>1, GateRefuses DEF Gate!Next
<1>6. ASSUME NEW r \in Requests, CpuExpire(r)
      PROVE  Mapped
  <2>1. /\ \A q \in Requests \ {r} : pc'[q] = pc[q] /\ reserve'[q] = reserve[q]
        /\ pc[r] # "held" /\ pc'[r] # "held" /\ outcome[r] = "none"
        /\ outcome' = [outcome EXCEPT ![r] = "overloaded"]
        /\ "overloaded" \in Outcomes \ {"none"}
    BY <1>1, <1>6 DEF CpuExpire, Decided
  <2>2. QED
    BY <2>1, GateRefuses DEF Gate!Next
<1>7. ASSUME NEW r \in Requests, MemExpire(r)
      PROVE  Mapped
  <2>1. /\ \A q \in Requests \ {r} : pc'[q] = pc[q] /\ reserve'[q] = reserve[q]
        /\ pc[r] # "held" /\ pc'[r] # "held" /\ outcome[r] = "none"
        /\ outcome' = [outcome EXCEPT ![r] = "overloaded"]
        /\ "overloaded" \in Outcomes \ {"none"}
    BY <1>1, <1>7 DEF MemExpire, Decided
  <2>2. QED
    BY <2>1, GateRefuses DEF Gate!Next
<1>8. ASSUME NEW r \in Requests, Cancel(r)
      PROVE  Mapped
  <2>1. /\ \A q \in Requests \ {r} : pc'[q] = pc[q] /\ reserve'[q] = reserve[q]
        /\ pc[r] # "held" /\ pc'[r] # "held" /\ outcome[r] = "none"
        /\ outcome' = [outcome EXCEPT ![r] = "cancelled"]
        /\ "cancelled" \in Outcomes \ {"none"}
    BY <1>1, <1>8 DEF Cancel, Decided
  <2>2. QED
    BY <2>1, GateRefuses DEF Gate!Next
<1>9. ASSUME NEW r \in Requests, CpuBusy(r)
      PROVE  Mapped
  <2>1. /\ \A q \in Requests \ {r} : pc'[q] = pc[q] /\ reserve'[q] = reserve[q]
        /\ pc[r] # "held" /\ pc'[r] # "held" /\ outcome' = outcome
    BY <1>1, <1>9 DEF CpuBusy
  <2>2. QED
    BY <2>1, GateStutters
<1>10. ASSUME NEW r \in Requests, LoadQueued(r)
      PROVE  Mapped
  <2>1. /\ \A q \in Requests \ {r} : pc'[q] = pc[q] /\ reserve'[q] = reserve[q]
        /\ pc[r] # "held" /\ pc'[r] # "held" /\ outcome' = outcome
    BY <1>1, <1>10 DEF LoadQueued
  <2>2. QED
    BY <2>1, GateStutters
<1>11. ASSUME NEW r \in Requests, ReserveSlot(r)
      PROVE  Mapped
  <2>1. /\ \A q \in Requests \ {r} : pc'[q] = pc[q] /\ reserve'[q] = reserve[q]
        /\ pc[r] # "held" /\ pc'[r] # "held" /\ outcome' = outcome
    BY <1>1, <1>11 DEF ReserveSlot
  <2>2. QED
    BY <2>1, GateStutters
<1>12. ASSUME NEW r \in Requests, ReserveRetry(r)
      PROVE  Mapped
  <2>1. /\ \A q \in Requests \ {r} : pc'[q] = pc[q] /\ reserve'[q] = reserve[q]
        /\ pc[r] # "held" /\ pc'[r] # "held" /\ outcome' = outcome
    BY <1>1, <1>12 DEF ReserveRetry
  <2>2. QED
    BY <2>1, GateStutters
<1>13. ASSUME NEW r \in Requests, CpuGranted(r)
      PROVE  Mapped
  <2>1. /\ \A q \in Requests \ {r} : pc'[q] = pc[q] /\ reserve'[q] = reserve[q]
        /\ pc[r] # "held" /\ pc'[r] # "held" /\ outcome' = outcome
    BY <1>1, <1>13 DEF CpuGranted
  <2>2. QED
    BY <2>1, GateStutters
<1>14. ASSUME NEW r \in Requests, LeaveQueue(r)
      PROVE  Mapped
  <2>1. /\ \A q \in Requests \ {r} : pc'[q] = pc[q] /\ reserve'[q] = reserve[q]
        /\ pc[r] # "held" /\ pc'[r] # "held" /\ outcome' = outcome
    BY <1>1, <1>14 DEF LeaveQueue
  <2>2. QED
    BY <2>1, GateStutters
<1>15. ASSUME NEW r \in Requests, MemGranted(r)
      PROVE  Mapped
  <2>1. /\ \A q \in Requests \ {r} : pc'[q] = pc[q] /\ reserve'[q] = reserve[q]
        /\ pc[r] # "held" /\ pc'[r] # "held" /\ outcome' = outcome
    BY <1>1, <1>15 DEF MemGranted
  <2>2. QED
    BY <2>1, GateStutters
<1>16. ASSUME NEW r \in Requests, CpuAbandon(r)
      PROVE  Mapped
  <2>1. /\ \A q \in Requests \ {r} : pc'[q] = pc[q] /\ reserve'[q] = reserve[q]
        /\ pc[r] # "held" /\ pc'[r] # "held" /\ outcome' = outcome
    BY <1>1, <1>16 DEF CpuAbandon
  <2>2. QED
    BY <2>1, GateStutters
<1>17. ASSUME NEW r \in Requests, DropCpu(r)
      PROVE  Mapped
  <2>1. /\ \A q \in Requests \ {r} : pc'[q] = pc[q] /\ reserve'[q] = reserve[q]
        /\ pc[r] # "held" /\ pc'[r] # "held" /\ outcome' = outcome
    BY <1>1, <1>17 DEF DropCpu
  <2>2. QED
    BY <2>1, GateStutters
<1>18. ASSUME NEW r \in Requests, MemAbandon(r)
      PROVE  Mapped
  <2>1. /\ \A q \in Requests \ {r} : pc'[q] = pc[q] /\ reserve'[q] = reserve[q]
        /\ pc[r] # "held" /\ pc'[r] # "held" /\ outcome' = outcome
    BY <1>1, <1>18 DEF MemAbandon
  <2>2. QED
    BY <2>1, GateStutters
<1>19. ASSUME NEW r \in Requests, DropMem(r)
      PROVE  Mapped
  <2>1. /\ \A q \in Requests \ {r} : pc'[q] = pc[q] /\ reserve'[q] = reserve[q]
        /\ pc[r] # "held" /\ pc'[r] # "held" /\ outcome' = outcome
    BY <1>1, <1>19 DEF DropMem
  <2>2. QED
    BY <2>1, GateStutters
<1>20. ASSUME NEW r \in Requests, TryCpu(r)
      PROVE  Mapped
  <2>1. /\ \A q \in Requests \ {r} : pc'[q] = pc[q] /\ reserve'[q] = reserve[q]
        /\ pc[r] # "held" /\ pc'[r] # "held" /\ outcome' = outcome
    BY <1>1, <1>20 DEF TryCpu
  <2>2. QED
    BY <2>1, GateStutters
<1>21. ASSUME NEW r \in Requests, PollCpu(r)
      PROVE  Mapped
  <2>1. /\ \A q \in Requests \ {r} : pc'[q] = pc[q] /\ reserve'[q] = reserve[q]
        /\ pc[r] # "held" /\ pc'[r] # "held" /\ outcome' = outcome
    BY <1>1, <1>21 DEF PollCpu
  <2>2. QED
    BY <2>1, GateStutters
<1>22. ASSUME NEW r \in Requests, PollMem(r)
      PROVE  Mapped
  <2>1. /\ \A q \in Requests \ {r} : pc'[q] = pc[q] /\ reserve'[q] = reserve[q]
        /\ pc[r] # "held" /\ pc'[r] # "held" /\ outcome' = outcome
    BY <1>1, <1>22 DEF PollMem
  <2>2. QED
    BY <2>1, GateStutters
<1>23. ASSUME NEW b \in RssSamples, Sample(b)
      PROVE  Mapped
  BY <1>23 DEF Sample, Admitted, At, Settled, SlotOf, ShareOf
<1>24. CASE UNCHANGED vars
  BY <1>24 DEF vars, Admitted, At, Settled, SlotOf, ShareOf
<1>25. QED
  BY <1>2, <1>3, <1>4, <1>5, <1>6, <1>7, <1>8, <1>9, <1>10, <1>11,
     <1>12, <1>13, <1>14, <1>15, <1>16, <1>17, <1>18, <1>19, <1>20,
     <1>21, <1>22, <1>23, <1>24
     DEF Next, Acquiring, Dropping, Expire

\* Admission implements the gate the handlers rely on, for every configuration:
\* whatever happens in the queue, a guard stands for a slot and for a share of
\* the budget that nobody else holds, from its creation to its drop.
THEOREM AdmissionImplementsGate == Spec => GateImplemented
<1>1. Init => Gate!Init
  BY GateInitial
<1>2. IInv /\ IInv' /\ [Next]_vars => [Gate!Next]_(Gate!gateVars)
  BY GateStep DEF Gate!gateVars, Settled, SlotOf, ShareOf
<1>3. QED
  BY <1>1, <1>2, Inductive, PTL DEF Spec, GateImplemented, Gate!Spec
=============================================================================
