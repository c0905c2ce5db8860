--------------------------- MODULE MCParseServer ---------------------------
(***************************************************************************)
(* Instances of ParseServer for TLC.                                       *)
(***************************************************************************)
EXTENDS ParseServer, TLC

CONSTANTS q1, q2, s1, s2, house, empty

TwoRequests == {q1, q2}
OneSlot == {s1}
TwoSlots == {s1, s2}
NoUnits == {}

OneKey == {house}
TwoKeys == {house, empty}

\* A model of two batches.
HouseBatches == [k \in OneKey |-> 2]

\* A model of one batch, and one without geometry.
FewBatches == [k \in TwoKeys |-> IF k = house THEN 1 ELSE 0]

Everything == Uploads \cup Fetches

Symmetry == Permutations(TwoRequests) \cup Permutations(TwoSlots)
=============================================================================
