----------------------------- MODULE Admission -----------------------------
(***************************************************************************)
(* apps/server/src/admission.rs: the gate every parse request passes before *)
(* it buffers its upload.  Admission::acquire is modelled await by await   *)
(* and atomic by atomic: the resident-memory breaker, the CPU semaphore    *)
(* with its bounded queue, the byte-weighted memory semaphore, the         *)
(* in_flight gauge, and the drop of the AdmissionGuard.  A wait ends by a  *)
(* grant, by the queue timer, or because the request's future is dropped;  *)
(* the two last leave the semaphore's queue one step after they decided to. *)
(***************************************************************************)
EXTENDS Semaphore, Functions

CONSTANTS
    CpuPermits,           \* the permits of the CPU semaphore
    MemPermits,           \* the permits of the memory semaphore, {} without one
    MaxConcurrentParses,  \* AdmissionCfg, as configured
    MemBudgetBytes,       \* 0 disables the memory gate
    QueueDepth,
    ShedPct,
    BytesPerPermit,       \* 1024 * 1024 in the code
    ReserveSizes,         \* the reserve_bytes callers pass
    RssSamples            \* what the sampler can read; 0 when unknown

Requests == Tasks

AtLeastOne(n) == IF n = 0 THEN 1 ELSE n

\* Admission::new and, again, acquire: the budget in permits.
BudgetPermits == AtLeastOne(MemBudgetBytes \div BytesPerPermit)

ASSUME ConfigAssumption ==
    /\ MaxConcurrentParses \in Nat
    /\ MemBudgetBytes \in Nat
    /\ QueueDepth \in Nat
    /\ ShedPct \in 0..100
    /\ BytesPerPermit \in Nat \ {0}
    /\ ReserveSizes \subseteq Nat
    /\ RssSamples \subseteq Nat

ASSUME PermitsAssumption ==
    /\ IsFiniteSet(CpuPermits)
    /\ Cardinality(CpuPermits) = AtLeastOne(MaxConcurrentParses)
    /\ IsFiniteSet(MemPermits)
    /\ Cardinality(MemPermits) = IF MemBudgetBytes = 0 THEN 0 ELSE BudgetPermits

VARIABLES
    cpu,        \* the CPU semaphore
    mem,        \* the memory semaphore
    queued,     \* the three gauges
    inFlight,
    rejected,   \* the rejection counters, by reason
    rss,        \* resident_bytes, written by the sampler
    pc,         \* where each request's future is
    reserve,    \* its reserve_bytes
    cur,        \* its last read of the queued gauge
    outcome     \* what acquire made of it

vars == <<cpu, mem, queued, inFlight, rejected, rss, pc, reserve, cur, outcome>>

Reasons == {"overloaded", "queue_full", "rss_shed"}

Outcomes == Reasons \cup {"none", "cancelled", "admitted"}

PCs == {"idle", "tryCpu", "loadQueued", "reserveSlot", "pollCpu", "cpuWait",
        "cpuAbandon", "leaveQueue", "pollMem", "memWait", "memAbandon",
        "admit", "held", "dropCpu", "dropMem", "done"}

TypeOK ==
    /\ cpu \in Semaphores(CpuPermits)
    /\ mem \in Semaphores(MemPermits)
    /\ queued \in Nat
    /\ inFlight \in Nat
    /\ rejected \in [Reasons -> Nat]
    /\ rss \in RssSamples \cup {0}
    /\ pc \in [Requests -> PCs]
    /\ reserve \in [Requests -> Nat]
    /\ cur \in [Requests -> Nat]
    /\ outcome \in [Requests -> Outcomes]

Init ==
    /\ cpu = NewSemaphore(CpuPermits)
    /\ mem = NewSemaphore(MemPermits)
    /\ queued = 0
    /\ inFlight = 0
    /\ rejected = [x \in Reasons |-> 0]
    /\ rss = 0
    /\ pc = [r \in Requests |-> "idle"]
    /\ reserve = [r \in Requests |-> 0]
    /\ cur = [r \in Requests |-> 0]
    /\ outcome = [r \in Requests |-> "none"]

Goto(r, l) == pc' = [pc EXCEPT ![r] = l]

Step(r, from, to) == pc[r] = from /\ Goto(r, to)

Decide(r, o) == outcome' = [outcome EXCEPT ![r] = o]

Count(x) == rejected' = [rejected EXCEPT ![x] = @ + 1]

\* The high-water mark, and whether the breaker (and /ready) is tripped.
Watermark == (MemBudgetBytes \div 100) * ShedPct

Shedding ==
    /\ MemBudgetBytes > 0 /\ ShedPct > 0
    /\ rss > 0 /\ rss >= Watermark

\* The memory permits of r: at least one, at most the whole budget.
Want(r) ==
    LET n == AtLeastOne((reserve[r] + BytesPerPermit - 1) \div BytesPerPermit)
    IN  IF n < BudgetPermits THEN n ELSE BudgetPermits
-----------------------------------------------------------------------------
\* acquire(n) is called and reads the sampled resident size.
Arrive(r, n) ==
    /\ pc[r] = "idle"
    /\ reserve' = [reserve EXCEPT ![r] = n]
    /\ IF Shedding
         THEN Goto(r, "done") /\ Decide(r, "rss_shed") /\ Count("rss_shed")
         ELSE Goto(r, "tryCpu") /\ UNCHANGED <<outcome, rejected>>
    /\ UNCHANGED <<cpu, mem, queued, inFlight, rss, cur>>

\* A free CPU slot admits at once, whatever the queue's configuration.
TryCpu(r) ==
    /\ Step(r, "tryCpu", "pollMem")
    /\ \E s \in TryAcquire(cpu, r) : cpu' = s
    /\ UNCHANGED <<mem, queued, inFlight, rejected, rss, reserve, cur, outcome>>

CpuBusy(r) ==
    /\ Step(r, "tryCpu", "loadQueued")
    /\ TryAcquire(cpu, r) = {}
    /\ UNCHANGED <<cpu, mem, queued, inFlight, rejected, rss, reserve, cur, outcome>>

LoadQueued(r) ==
    /\ Step(r, "loadQueued", "reserveSlot")
    /\ cur' = [cur EXCEPT ![r] = queued]
    /\ UNCHANGED <<cpu, mem, queued, inFlight, rejected, rss, reserve, outcome>>

\* The compare-and-swap loop on the queued gauge.
QueueFull(r) ==
    /\ Step(r, "reserveSlot", "done")
    /\ cur[r] >= QueueDepth
    /\ Decide(r, "queue_full") /\ Count("queue_full")
    /\ UNCHANGED <<cpu, mem, queued, inFlight, rss, reserve, cur>>

\* Mutation: load-then-add, the race the exchange is there to close.
ReserveSlotUnchecked(r) ==
    /\ Step(r, "reserveSlot", "pollCpu")
    /\ cur[r] < QueueDepth
    /\ queued' = queued + 1
    /\ UNCHANGED <<cpu, mem, inFlight, rejected, rss, reserve, cur, outcome>>

ReserveSlot(r) ==
    /\ Step(r, "reserveSlot", "pollCpu")
    /\ cur[r] < QueueDepth
    /\ queued = cur[r]
    /\ queued' = cur[r] + 1
    /\ UNCHANGED <<cpu, mem, inFlight, rejected, rss, reserve, cur, outcome>>

\* Another request moved the gauge first (a spurious failure of the weak
\* exchange re-reads the value it had, which is a stuttering step).
ReserveRetry(r) ==
    /\ pc[r] = "reserveSlot"
    /\ cur[r] < QueueDepth
    /\ queued # cur[r]
    /\ cur' = [cur EXCEPT ![r] = queued]
    /\ UNCHANGED <<cpu, mem, queued, inFlight, rejected, rss, pc, reserve, outcome>>

PollCpu(r) ==
    /\ Step(r, "pollCpu", "cpuWait")
    /\ \E s \in Acquire(cpu, r, 1) : cpu' = s
    /\ UNCHANGED <<mem, queued, inFlight, rejected, rss, reserve, cur, outcome>>

CpuGranted(r) ==
    /\ Step(r, "cpuWait", "leaveQueue")
    /\ r \notin Parked(cpu)
    /\ UNCHANGED <<cpu, mem, queued, inFlight, rejected, rss, reserve, cur, outcome>>

\* The timer is looked at only when the permit is not there yet.
CpuExpire(r) ==
    /\ Step(r, "cpuWait", "cpuAbandon")
    /\ r \in Parked(cpu)
    /\ Decide(r, "overloaded")
    /\ UNCHANGED <<cpu, mem, queued, inFlight, rejected, rss, reserve, cur>>

\* Mutation: the timeout path lowers the gauge, and QueuedCount does so again.
CpuAbandonTwice(r) ==
    /\ Step(r, "cpuAbandon", "leaveQueue")
    /\ \E s \in Release(cpu, r) : cpu' = s
    /\ queued' = queued - 1
    /\ IF outcome[r] = "overloaded" THEN Count("overloaded") ELSE UNCHANGED rejected
    /\ UNCHANGED <<mem, inFlight, rss, reserve, cur, outcome>>

\* Mutation: the timeout path returns without dropping QueuedCount.
CpuAbandonLeaky(r) ==
    /\ Step(r, "cpuAbandon", "done")
    /\ \E s \in Release(cpu, r) : cpu' = s
    /\ IF outcome[r] = "overloaded" THEN Count("overloaded") ELSE UNCHANGED rejected
    /\ UNCHANGED <<mem, queued, inFlight, rss, reserve, cur, outcome>>

\* The acquire future is dropped; a permit granted meanwhile goes back.
CpuAbandon(r) ==
    /\ Step(r, "cpuAbandon", "leaveQueue")
    /\ \E s \in Release(cpu, r) : cpu' = s
    /\ IF outcome[r] = "overloaded" THEN Count("overloaded") ELSE UNCHANGED rejected
    /\ UNCHANGED <<mem, queued, inFlight, rss, reserve, cur, outcome>>

\* QueuedCount is dropped, after a grant and after a failure alike.
LeaveQueue(r) ==
    /\ Step(r, "leaveQueue", IF outcome[r] = "none" THEN "pollMem" ELSE "done")
    /\ queued' = queued - 1
    /\ UNCHANGED <<cpu, mem, inFlight, rejected, rss, reserve, cur, outcome>>

PollMem(r) ==
    /\ Step(r, "pollMem", IF MemBudgetBytes = 0 THEN "admit" ELSE "memWait")
    /\ IF MemBudgetBytes = 0
         THEN UNCHANGED mem
         ELSE \E s \in Acquire(mem, r, Want(r)) : mem' = s
    /\ UNCHANGED <<cpu, queued, inFlight, rejected, rss, reserve, cur, outcome>>

\* Mutation: the poll's result is not looked at, part of the permits will do.
MemGrantedPartly(r) ==
    /\ Step(r, "memWait", "admit")
    /\ UNCHANGED <<cpu, mem, queued, inFlight, rejected, rss, reserve, cur, outcome>>

MemGranted(r) ==
    /\ Step(r, "memWait", "admit")
    /\ r \notin Parked(mem)
    /\ UNCHANGED <<cpu, mem, queued, inFlight, rejected, rss, reserve, cur, outcome>>

\* Mutation: a timeout is taken for the disabled memory gate.
MemExpireAdmits(r) ==
    /\ Step(r, "memWait", "admit")
    /\ r \in Parked(mem)
    /\ UNCHANGED <<cpu, mem, queued, inFlight, rejected, rss, reserve, cur, outcome>>

\* Mutation: the CPU permit is dropped before the memory waiter leaves.
MemExpireCpuFirst(r) ==
    /\ Step(r, "memWait", "memAbandon")
    /\ r \in Parked(mem)
    /\ \E s \in Release(cpu, r) : cpu' = s
    /\ Decide(r, "overloaded")
    /\ UNCHANGED <<mem, queued, inFlight, rejected, rss, reserve, cur>>

\* Mutation: the memory wait has no timeout.
MemExpireNever(r) ==
    /\ FALSE
    /\ Step(r, "memWait", "memAbandon")
    /\ UNCHANGED <<cpu, mem, queued, inFlight, rejected, rss, reserve, cur, outcome>>

MemExpire(r) ==
    /\ Step(r, "memWait", "memAbandon")
    /\ r \in Parked(mem)
    /\ Decide(r, "overloaded")
    /\ UNCHANGED <<cpu, mem, queued, inFlight, rejected, rss, reserve, cur>>

\* Mutation: a cancelled wait is counted as an overload.
MemAbandonCounted(r) ==
    /\ Step(r, "memAbandon", "dropCpu")
    /\ \E s \in Release(mem, r) : mem' = s
    /\ Count("overloaded")
    /\ UNCHANGED <<cpu, queued, inFlight, rss, reserve, cur, outcome>>

MemAbandon(r) ==
    /\ Step(r, "memAbandon", "dropCpu")
    /\ \E s \in Release(mem, r) : mem' = s
    /\ IF outcome[r] = "overloaded" THEN Count("overloaded") ELSE UNCHANGED rejected
    /\ UNCHANGED <<cpu, queued, inFlight, rss, reserve, cur, outcome>>

\* Both permits are there: the gauge goes up and the guard is returned.
Admit(r) ==
    /\ Step(r, "admit", "held")
    /\ inFlight' = inFlight + 1
    /\ Decide(r, "admitted")
    /\ UNCHANGED <<cpu, mem, queued, rejected, rss, reserve, cur>>

\* Mutation: the drop does not lower the gauge.
DropGuardUncounted(r) ==
    /\ Step(r, "held", "dropCpu")
    /\ UNCHANGED <<cpu, mem, queued, inFlight, rejected, rss, reserve, cur, outcome>>

\* Drop of the guard: the gauge first, then its fields in order.
DropGuard(r) ==
    /\ Step(r, "held", "dropCpu")
    /\ inFlight' = inFlight - 1
    /\ UNCHANGED <<cpu, mem, queued, rejected, rss, reserve, cur, outcome>>

DropCpu(r) ==
    /\ Step(r, "dropCpu", IF outcome[r] = "admitted" THEN "dropMem" ELSE "done")
    /\ \E s \in Release(cpu, r) : cpu' = s
    /\ UNCHANGED <<mem, queued, inFlight, rejected, rss, reserve, cur, outcome>>

\* Mutation: the permits are forgotten instead of returned.
DropMemForgets(r) ==
    /\ Step(r, "dropMem", "done")
    /\ mem' = [mem EXCEPT !.got[r] = {}, !.need[r] = 0]
    /\ UNCHANGED <<cpu, queued, inFlight, rejected, rss, reserve, cur, outcome>>

DropMem(r) ==
    /\ Step(r, "dropMem", "done")
    /\ \E s \in Release(mem, r) : mem' = s
    /\ UNCHANGED <<cpu, queued, inFlight, rejected, rss, reserve, cur, outcome>>

\* The request's future is dropped at one of its two awaits (the client went
\* away, or the request timed out as a whole).
Cancel(r) ==
    /\ \/ Step(r, "cpuWait", "cpuAbandon")
       \/ Step(r, "memWait", "memAbandon")
    /\ Decide(r, "cancelled")
    /\ UNCHANGED <<cpu, mem, queued, inFlight, rejected, rss, reserve, cur>>

\* spawn_rss_sampler: every tick publishes what the process occupies.
Sample(b) ==
    /\ rss' = b
    /\ UNCHANGED <<cpu, mem, queued, inFlight, rejected, pc, reserve, cur, outcome>>

\* What r's own task does when it is scheduled, up to the guard.
Acquiring(r) ==
    \/ TryCpu(r) \/ CpuBusy(r)
    \/ LoadQueued(r) \/ QueueFull(r) \/ ReserveSlot(r) \/ ReserveRetry(r)
    \/ PollCpu(r) \/ CpuGranted(r) \/ CpuAbandon(r) \/ LeaveQueue(r)
    \/ PollMem(r) \/ MemGranted(r) \/ MemAbandon(r) \/ Admit(r)

Dropping(r) == DropCpu(r) \/ DropMem(r)

Expire(r) == CpuExpire(r) \/ MemExpire(r)

Next ==
    \/ \E r \in Requests :
         \/ \E n \in ReserveSizes : Arrive(r, n)
         \/ Acquiring(r) \/ DropGuard(r) \/ Dropping(r)
         \/ Expire(r) \/ Cancel(r)
    \/ \E b \in RssSamples : Sample(b)

Spec == Init /\ [][Next]_vars
-----------------------------------------------------------------------------
(***************************************************************************)
(* Fairness.  The runtime polls every runnable task, so a request that can *)
(* move on its own eventually does.  That a job ends, and that a timer     *)
(* fires, are separate assumptions.                                        *)
(***************************************************************************)
TasksRun == \A r \in Requests : WF_vars(Acquiring(r) \/ Dropping(r))
JobsEnd == \A r \in Requests : WF_vars(DropGuard(r))
TimersFire == \A r \in Requests : WF_vars(Expire(r))

FairSpec == Spec /\ TasksRun
-----------------------------------------------------------------------------
\* Where a request stands with the gate.
At(S) == {r \in Requests : pc[r] \in S}

HoldsQueuePlace == At({"pollCpu", "cpuWait", "cpuAbandon", "leaveQueue"})
Admitted == At({"held"})
WaitsForMem == {r \in Requests : r \in Parked(mem)}

\* Neither semaphore loses a permit or hands one out twice, whatever the order
\* of grants, timeouts and dropped futures; its queue is served in order.
SemaphoresSound ==
    /\ SemaphoreInv(cpu, CpuPermits)
    /\ SemaphoreInv(mem, MemPermits)

\* The in_flight gauge counts the guards that exist, each of which owns its CPU
\* slot and all the memory permits it asked for, and it never exceeds the slots:
\* the drop lowers the gauge before another request can own the slot.
InFlightBacked ==
    /\ inFlight = Cardinality(Admitted)
    /\ \A r \in Admitted :
         /\ Cardinality(cpu.got[r]) = 1
         /\ MemBudgetBytes > 0 => Cardinality(mem.got[r]) = Want(r)
    /\ inFlight <= AtLeastOne(MaxConcurrentParses)

\* The load-bearing bound: what the admitted requests may buffer fits in the
\* budget, except for an upload larger than the budget, which then is alone.
AdmittedBytesBound ==
    MemBudgetBytes > 0 =>
        \/ SumFunctionOnSet(reserve, Admitted) <= MemBudgetBytes
        \/ Cardinality(Admitted) = 1

\* The queued gauge counts the requests that hold a queue place, is never above
\* the configured depth although it is read before it is raised, and covers
\* everybody the CPU semaphore has parked.
QueueBounded ==
    /\ queued = Cardinality(HoldsQueuePlace)
    /\ queued <= QueueDepth
    /\ Parked(cpu) \subseteq HoldsQueuePlace

\* CPU first, then memory: whoever has or waits for budget permits owns a CPU
\* slot, so there are never more of them than slots, and the CPU queue pins no
\* bytes.  Only the last step of a guard's drop has the permits and no slot.
CpuBeforeMem ==
    /\ \A r \in Requests \ At({"dropMem"}) :
         mem.got[r] # {} \/ r \in WaitsForMem => cpu.got[r] # {}
    /\ Cardinality(WaitsForMem) <= AtLeastOne(MaxConcurrentParses)

\* Every rejection is counted once and under its own reason, and nothing else
\* is: a cancelled request leaves no trace in the counters.
RejectionsCounted ==
    \A x \in Reasons :
        rejected[x] = Cardinality({r \in Requests :
            outcome[r] = x /\ pc[r] \notin {"cpuAbandon", "memAbandon"}})

\* When every request that came has gone, nothing is left behind: no slot, no
\* byte, no queue place and no gauge.
NothingLeaks ==
    At({"idle", "done"}) = Requests =>
        /\ cpu = NewSemaphore(CpuPermits)
        /\ mem = NewSemaphore(MemPermits)
        /\ queued = 0
        /\ inFlight = 0

\* The gate the handlers see: a guard exists from the gauge's increment to its
\* decrement, and owns a slot and a share of the budget in between.
Gate == INSTANCE AdmissionGate WITH
    Slots   <- CpuPermits,
    Units   <- MemPermits,
    inside  <- Admitted,
    settled <- {r \in Requests : outcome[r] # "none"} \ Admitted,
    slot    <- [r \in Requests |-> IF pc[r] = "held" THEN cpu.got[r] ELSE {}],
    share   <- [r \in Requests |-> IF pc[r] = "held" THEN mem.got[r] ELSE {}]

\* Admission implements its promise: every step of the queue, the timers and
\* the semaphores is one step of the gate or none.
GateImplemented == Gate!Spec

\* acquire always returns: a request that asks for a slot is let in or leaves.
AcquireReturns ==
    \A r \in Requests : pc[r] = "tryCpu" ~> pc[r] \in {"held", "done"}

\* It does so without any timer when jobs end: the permits they return reach the
\* waiters, the two semaphores do not wait for each other, no wakeup is lost.
JobsEndingServes == JobsEnd => AcquireReturns

\* And it does so although no job ever ends: the queue timer bounds both waits.
TimerBoundsWait == TimersFire => AcquireReturns
=============================================================================
