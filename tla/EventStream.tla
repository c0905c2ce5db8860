---------------------------- MODULE EventStream ----------------------------
(***************************************************************************)
(* What a client of the streaming endpoints is promised: the events of one *)
(* response, in order.  The stream opens with start, numbers its batches   *)
(* without a gap, hands over every mesh once and in order, says complete   *)
(* only after the last mesh, and is over after complete or error.  It may  *)
(* stop anywhere: that is what a client that hangs up sees.                *)
(***************************************************************************)
EXTENDS Naturals, Sequences, FiniteSets, SequencesExt

VARIABLES
    total,    \* the meshes the uploaded model has
    events    \* the events the client was sent, oldest first

eventVars == <<total, events>>

Init ==
    /\ total \in Nat
    /\ events = <<>>

\* The places of a kind of event among those of a log.
At(log, kind) == {i \in DOMAIN log : log[i].kind = kind}

Ended(log) == log # <<>> /\ log[Len(log)].kind \in {"complete", "error"}

\* The batches and the meshes handed over, and the jobs reported as processed.
Batches(log) == Cardinality(At(log, "batch"))
Meshes(log) == LET b == At(log, "batch") IN IF b = {} THEN 0 ELSE log[Max(b)].last
Processed(log) == LET p == At(log, "progress") IN IF p = {} THEN 0 ELSE log[Max(p)].processed

\* What may come after the events of a log, for a model of n meshes.
Follows(n, log, e) ==
    \/ e.kind = "start" /\ log = <<>>
    \/ /\ e.kind = "progress" /\ log # <<>>
       /\ e.processed >= Processed(log)
    \/ /\ e.kind = "batch" /\ log # <<>>
       /\ e.number = Batches(log) + 1
       /\ e.first = Meshes(log) + 1
       /\ e.last >= e.first
    \/ /\ e.kind = "complete" /\ log # <<>>
       /\ Meshes(log) = n
    \/ e.kind = "error"

Send ==
    /\ ~Ended(events)
    /\ events' # <<>> /\ Front(events') = events
    /\ Follows(total, events, Last(events'))
    /\ UNCHANGED total

Spec == Init /\ [][Send]_eventVars
=============================================================================
