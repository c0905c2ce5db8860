------------------------------- MODULE MCScan -------------------------------
(***************************************************************************)
(* Instances of ParallelScan over StepScanner for TLC: the files made of a  *)
(* few fragments, so that the ranges cut records, strings and comments, and *)
(* some longer files whose ranges never meet the serial scan again.        *)
(***************************************************************************)
EXTENDS ParallelScan, FiniteSets, SequencesExt

CONSTANTS HeaderLimit, IdSpan

Scanner == INSTANCE StepScanner

Fragments ==
    {<<"#", "1", "=", ";">>, <<"#", "2", "_", "=">>, <<"'">>, <<";">>,
     <<"/", "*">>, <<"*", "/">>, <<"#", "1", "1">>, <<"DATA;">>}

FilesOf(k) == {FlattenSeq(f) : f \in [1..k -> Fragments]}

LongFiles ==
    {FlattenSeq(<<a, <<"#", "1", "=", "'">>, <<"#", "2", "=", ";">>, b,
                  <<"'", ";">>, <<"#", "2", "=", ";">>>>) :
        a, b \in {<<>>, <<"'", "'">>, <<"x", "/">>, <<"#", "1", "=", ";">>}}

Files == {c \in UNION {FilesOf(k) : k \in 0..3} \cup LongFiles : TRUE}

\* Evaluated once per file.
Answers == [c \in Files |-> [p \in 0..Len(c) |-> Scanner!NextEntity(c)[p]]]

Scan(c, p) == Answers[c][p]
Start(c) == Scanner!DataStart(c)
=============================================================================
