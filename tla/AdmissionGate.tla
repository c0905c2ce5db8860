--------------------------- MODULE AdmissionGate ---------------------------
(***************************************************************************)
(* What admission promises its callers, without queue, timers or counters: *)
(* a request is let in with a slot and a share of the memory budget that   *)
(* nobody else inside has, or it is turned away; whoever is inside leaves   *)
(* once and returns both.  The parse handlers are modelled on top of this. *)
(***************************************************************************)
EXTENDS Naturals, FiniteSets

CONSTANTS
    Requests,
    Slots,     \* what bounds the number of parses
    Units      \* the memory budget, {} when there is none

VARIABLES
    inside,    \* the requests that hold a guard
    settled,   \* the requests turned away, or gone after they were inside
    slot,      \* the slot of each request inside
    share      \* the units of each request inside

gateVars == <<inside, settled, slot, share>>

Init ==
    /\ inside = {}
    /\ settled = {}
    /\ slot = [r \in Requests |-> {}]
    /\ share = [r \in Requests |-> {}]

\* An upload that needs all of the budget, or more, enters with all the units:
\* then nobody else is inside.
Admit(r) ==
    /\ r \notin inside \cup settled
    /\ \E s \in Slots \ UNION {slot[q] : q \in inside} :
         slot' = [slot EXCEPT ![r] = {s}]
    /\ \E u \in SUBSET (Units \ UNION {share[q] : q \in inside}) :
         /\ Units # {} => u # {}
         /\ share' = [share EXCEPT ![r] = u]
    /\ inside' = inside \cup {r}
    /\ UNCHANGED settled

Refuse(r) ==
    /\ r \notin inside \cup settled
    /\ settled' = settled \cup {r}
    /\ UNCHANGED <<inside, slot, share>>

Leave(r) ==
    /\ r \in inside
    /\ inside' = inside \ {r}
    /\ settled' = settled \cup {r}
    /\ slot' = [slot EXCEPT ![r] = {}]
    /\ share' = [share EXCEPT ![r] = {}]

Next == \E r \in Requests : Admit(r) \/ Refuse(r) \/ Leave(r)

Spec == Init /\ [][Next]_gateVars
=============================================================================
