----------------------------- MODULE Semaphore -----------------------------
(***************************************************************************)
(* The fair counting semaphore of the async runtime (tokio::sync), external *)
(* to the repository and modelled from how admission.rs uses it.  Every    *)
(* unit of the permit counter has a name, so that a permit that is lost or *)
(* handed out twice is visible.  A semaphore is a value                    *)
(*                                                                         *)
(*   free   the permits nobody was given (the counter)                     *)
(*   queue  the tasks parked in acquire, in arrival order                  *)
(*   got    the permits each task was given, in part or in full            *)
(*   need   the permits each task asked for, 0 when it asked for none      *)
(*                                                                         *)
(* and an operation is the set of values it can lead to (which of the      *)
(* equal permits a task gets is left open), empty when it fails.           *)
(***************************************************************************)
EXTENDS Naturals, Sequences, FiniteSets

CONSTANTS Tasks,   \* whoever may hold permits
          Nobody   \* the owner of a permit that stays in the counter

ASSUME NobodyIsNoTask == Nobody \notin Tasks
ASSUME TasksFinite == IsFiniteSet(Tasks)

Semaphores(P) ==
    [free  : SUBSET P,
     queue : Seq(Tasks),
     got   : [Tasks -> SUBSET P],
     need  : [Tasks -> Nat]]

NewSemaphore(P) ==
    [free  |-> P,
     queue |-> <<>>,
     got   |-> [t \in Tasks |-> {}],
     need  |-> [t \in Tasks |-> 0]]

Parked(s) == {s.queue[i] : i \in 1..Len(s.queue)}

Subsets(S, n) == {g \in SUBSET S : Cardinality(g) = n}

\* The permits g leave the counter for t, which asked for n.
Take(s, t, n, g) ==
    [s EXCEPT !.free = @ \ g, !.got[t] = g, !.need[t] = n]

\* try_acquire: one permit from the counter or failure, never a wait.  A task
\* is parked only while the counter is empty, so this cannot overtake one.
TryAcquire(s, t) == {Take(s, t, 1, g) : g \in Subsets(s.free, 1)}

\* The first poll of acquire_many(n): all n permits when the counter has them,
\* else whatever it has and a place at the end of the queue.
Acquire(s, t, n) ==
    IF Cardinality(s.free) >= n
      THEN {Take(s, t, n, g) : g \in Subsets(s.free, n)}
      ELSE {[free  |-> {},
             queue |-> Append(s.queue, t),
             got   |-> [s.got EXCEPT ![t] = s.free],
             need  |-> [s.need EXCEPT ![t] = n]]}

\* The queue once t's node is unlinked from it.
Unlinked(s, t) ==
    IF t \in Parked(s)
      THEN LET i == CHOOSE j \in 1..Len(s.queue) : s.queue[j] = t
           IN  SubSeq(s.queue, 1, i - 1) \o SubSeq(s.queue, i + 1, Len(s.queue))
      ELSE s.queue

\* What t' owns when every permit p of the pool goes to give[p].
Given(s, pool, give, t) == s.got[t] \cup {p \in pool : give[p] = t}

\* The returned pool serves the queue in order: the first k tasks are filled
\* up and leave it, the next one is given what is left, and only with the
\* whole queue served does a permit go back to the counter.
FirstServed(s, q, pool, k, give) ==
    /\ \A p \in pool : give[p] \in Tasks =>
           \E i \in 1..Len(q) : i <= k + 1 /\ give[p] = q[i]
    /\ \A i \in 1..k : Cardinality(Given(s, pool, give, q[i])) = s.need[q[i]]
    /\ k < Len(q) =>
         /\ \A p \in pool : give[p] # Nobody
         /\ Cardinality(Given(s, pool, give, q[k + 1])) < s.need[q[k + 1]]

\* t returns what it was given, parked or not: a dropped permit, and a dropped
\* acquire future with what it had been assigned so far.
Release(s, t) ==
    LET pool == s.got[t]
        q    == Unlinked(s, t)
        left == [s EXCEPT !.got[t] = {}, !.need[t] = 0]
    IN  {[free  |-> s.free \cup {p \in pool : h[2][p] = Nobody},
          queue |-> SubSeq(q, h[1] + 1, Len(q)),
          got   |-> [u \in Tasks |-> Given(left, pool, h[2], u)],
          need  |-> left.need]
         : h \in {x \in (0..Len(q)) \X [pool -> Tasks \cup {Nobody}] :
                     FirstServed(left, q, pool, x[1], x[2])}}
-----------------------------------------------------------------------------
(***************************************************************************)
(* What the operations preserve, for the permits P.                        *)
(***************************************************************************)

\* Every permit is in the counter or with exactly one task.
PermitsPartitioned(s, P) ==
    /\ P = s.free \cup UNION {s.got[t] : t \in Tasks}
    /\ \A t \in Tasks : s.free \cap s.got[t] = {}
    /\ \A t, u \in Tasks : t # u => s.got[t] \cap s.got[u] = {}

\* Whoever is not parked has all it asked for; a parked task has less, and
\* nothing at all unless it is at the head of the queue.
QueueJustified(s) ==
    /\ \A i, j \in 1..Len(s.queue) : s.queue[i] = s.queue[j] => i = j
    /\ s.queue # <<>> => s.free = {}
    /\ \A t \in Tasks \ Parked(s) : Cardinality(s.got[t]) = s.need[t]
    /\ \A i \in 1..Len(s.queue) :
         /\ Cardinality(s.got[s.queue[i]]) < s.need[s.queue[i]]
         /\ i > 1 => s.got[s.queue[i]] = {}

SemaphoreInv(s, P) ==
    /\ s \in Semaphores(P)
    /\ PermitsPartitioned(s, P)
    /\ QueueJustified(s)
=============================================================================
