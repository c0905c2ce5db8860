----------------------------- MODULE SerialScan -----------------------------
(***************************************************************************)
(* What every builder of an entity index is held to: the serial walk of     *)
(* build_entity_index (core/src/decoder.rs), which inserts one record after *)
(* the other, in file order, until the scanner finds none.  The index is    *)
(* the sequence of its insertions, so that later ones win.                 *)
(***************************************************************************)
EXTENDS Naturals, Sequences

CONSTANTS
    Contents,       \* the files
    NextRec(_, _),  \* the record the scanner answers from a position
    FirstByte(_),   \* where it starts in a file
    NoRecord        \* no further record

VARIABLES
    content,   \* the file
    index,     \* the records inserted, oldest first
    finished   \* the index is returned

serialVars == <<content, index, finished>>

Init ==
    /\ content \in Contents
    /\ index = <<>>
    /\ finished = FALSE

Position == IF index = <<>> THEN FirstByte(content) ELSE index[Len(index)].end

Insert ==
    /\ ~finished
    /\ NextRec(content, Position) # NoRecord
    /\ index' = Append(index, NextRec(content, Position))
    /\ UNCHANGED <<content, finished>>

Finish ==
    /\ ~finished
    /\ NextRec(content, Position) = NoRecord
    /\ finished' = TRUE
    /\ UNCHANGED <<content, index>>

Spec == Init /\ [][Insert \/ Finish]_serialVars
=============================================================================
