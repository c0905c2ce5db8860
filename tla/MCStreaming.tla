---------------------------- MODULE MCStreaming ----------------------------
(***************************************************************************)
(* Instances of Streaming for TLC: a model without jobs, one whose jobs    *)
(* make no mesh, and models whose jobs make none, one or several, at the   *)
(* start, in the middle and at the end.                                    *)
(***************************************************************************)
EXTENDS Streaming, Integers

\* Every model of at most four jobs that make up to two meshes each.
AllModels ==
    {m \in UNION {[1..n -> 0..8] : n \in 0..4} :
        \A j \in DOMAIN m : m[j] - (IF j = 1 THEN 0 ELSE m[j - 1]) \in 0..2}

SmallModels == {<<>>, <<0, 0>>, <<1, 1, 4>>, <<0, 3, 3, 4, 4, 6, 6>>}
=============================================================================
