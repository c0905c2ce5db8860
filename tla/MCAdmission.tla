---------------------------- MODULE MCAdmission ----------------------------
(***************************************************************************)
(* Instances of Admission for TLC.  A permit spans 100 bytes here, so that  *)
(* the rounding of a reservation, of the budget and of the watermark occur  *)
(* with small numbers.                                                     *)
(***************************************************************************)
EXTENDS Admission, TLC

CONSTANTS r1, r2, r3, r4, c1, c2, m1, m2

ThreeRequests == {r1, r2, r3}
FourRequests == {r1, r2, r3, r4}
TwoSlots == {c1, c2}
TwoUnits == {m1, m2}

\* Nothing distinguishes two requests before they arrive, or two permits.
FourSymmetry == Permutations(FourRequests) \cup Permutations(TwoSlots)
                \cup Permutations(TwoUnits)
=============================================================================
