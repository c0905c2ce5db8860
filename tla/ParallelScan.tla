---------------------------- MODULE ParallelScan ----------------------------
(***************************************************************************)
(* processing/src/parallel_scan.rs: the entity index built on all cores.    *)
(* The file is cut into byte ranges wherever they fall, in the middle of a  *)
(* record, a string or a comment.  Each range is scanned speculatively and  *)
(* at once, then the ranges are stitched in order: where a range begins is  *)
(* what its predecessor hands over, and a range that did not find that      *)
(* record is scanned again, serially.                                       *)
(***************************************************************************)
EXTENDS Integers, Sequences

CONSTANTS
    Contents,       \* the files that are indexed
    NextRec(_, _),  \* EntityScanner::next_entity from a position of a file
    FirstByte(_),   \* where EntityScanner::new starts in a file
    NoRecord,       \* the answer None of next_entity
    Threads,        \* the sizes the rayon pool may have
    ParallelMin,    \* PARALLEL_MIN_BYTES
    MinChunk        \* MIN_CHUNK_BYTES

\* A scanner that is put at the start of a record it found answers that record.
ASSUME ScannerAssumption ==
    /\ \A c \in Contents : Len(c) \in Nat /\ FirstByte(c) \in 0..Len(c)
    /\ \A c \in Contents : \A p \in 0..Len(c) :
         NextRec(c, p) # NoRecord =>
            /\ NextRec(c, p) \in [id : Nat, start : p..Len(c), end : 0..Len(c)]
            /\ NextRec(c, p).start < NextRec(c, p).end
            /\ NextRec(c, NextRec(c, p).start) = NextRec(c, p)

ASSUME SizesAssumption ==
    /\ Threads \subseteq Nat
    /\ ParallelMin \in Nat
    /\ MinChunk \in Nat \ {0}

VARIABLES
    content,   \* the file
    n,         \* n_chunks
    shards,    \* the speculative scan of each range
    phase,     \* where the builder is
    chunk,     \* the range being stitched
    at,        \* the record of it that is inserted next
    expected,  \* expected_start, -1 for None
    position,  \* of the scanner that walks serially
    index      \* the records inserted into the index, oldest first

vars == <<content, n, shards, phase, chunk, at, expected, position, index>>
stitchVars == <<phase, chunk, at, expected, position, index>>

Size == Len(content)
Chunks == 0..(n - 1)
Record == [id : Nat, start : 0..Size, end : 0..Size]
None == -1

Smaller(a, b) == IF a < b THEN a ELSE b
Larger(a, b) == IF a > b THEN a ELSE b

ChunkCount(len, threads) ==
    IF len < ParallelMin THEN 1
    ELSE Smaller(Larger(threads, 1), Larger(len \div MinChunk, 1))

RangeStart(i) == (i * Size) \div n
RangeEnd(i) == IF i + 1 = n THEN Size ELSE ((i + 1) * Size) \div n

\* The first range starts past the header, a later one where it happens to fall.
ScanStart(i) == IF i = 0 THEN FirstByte(content) ELSE Smaller(RangeStart(i), Size)

TypeOK ==
    /\ content \in Contents
    /\ n \in Nat \ {0}
    /\ shards \in [Chunks -> [pos : 0..Size, records : Seq(Record),
                              handoff : 0..Size \cup {None}, ended : BOOLEAN]]
    /\ phase \in {"scan", "insert", "stitch", "walk", "done"}
    /\ chunk \in Chunks
    /\ at \in Nat \ {0}
    /\ expected \in 0..Size \cup {None}
    /\ position \in 0..Size
    /\ index \in Seq(Record)

\* One range is the serial builder: a walk over the whole file.
Init ==
    /\ content \in Contents
    /\ \E threads \in Threads :
         n = Larger(Smaller(ChunkCount(Size, threads), Larger(Size, 1)), 1)
    /\ shards = [i \in Chunks |-> [pos |-> ScanStart(i), records |-> <<>>,
                                   handoff |-> None, ended |-> FALSE]]
    /\ phase = IF n = 1 THEN "walk" ELSE "scan"
    /\ chunk = 0
    /\ at = 1
    /\ expected = None
    /\ position = FirstByte(content)
    /\ index = <<>>
-----------------------------------------------------------------------------
(* scan_shard, on its own thread *)

Scanning(i) == phase = "scan" /\ ~shards[i].ended

Found(i) == NextRec(content, shards[i].pos)

\* Mutation: The scanner is left at the record it answered.
ScanRecordAgain(i) ==
    /\ Scanning(i)
    /\ Found(i) # NoRecord /\ Found(i).start < RangeEnd(i)
    /\ shards' = [shards EXCEPT ![i].records = Append(@, Found(i)),
                                ![i].pos = Found(i).start]
    /\ UNCHANGED <<content, n, stitchVars>>

ScanRecord(i) ==
    /\ Scanning(i)
    /\ Found(i) # NoRecord /\ Found(i).start < RangeEnd(i)
    /\ shards' = [shards EXCEPT ![i].records = Append(@, Found(i)),
                                ![i].pos = Found(i).end]
    /\ UNCHANGED <<content, n, stitchVars>>

ScanHandoff(i) ==
    /\ Scanning(i)
    /\ Found(i) # NoRecord /\ Found(i).start >= RangeEnd(i)
    /\ shards' = [shards EXCEPT ![i].handoff = Found(i).start, ![i].ended = TRUE]
    /\ UNCHANGED <<content, n, stitchVars>>

ScanEof(i) ==
    /\ Scanning(i)
    /\ Found(i) = NoRecord
    /\ shards' = [shards EXCEPT ![i].ended = TRUE]
    /\ UNCHANGED <<content, n, stitchVars>>
-----------------------------------------------------------------------------
(* stitch, once every range is scanned *)

Collect ==
    /\ phase = "scan"
    /\ \A i \in Chunks : shards[i].ended
    /\ phase' = "insert"
    /\ UNCHANGED <<content, n, shards, chunk, at, expected, position, index>>

Kept == shards[chunk].records

InsertKept ==
    /\ phase = "insert"
    /\ at <= Len(Kept)
    /\ index' = Append(index, Kept[at])
    /\ at' = at + 1
    /\ UNCHANGED <<content, n, shards, phase, chunk, expected, position>>

KeptDone ==
    /\ phase = "insert"
    /\ at > Len(Kept)
    /\ expected' = shards[chunk].handoff
    /\ phase' = "stitch"
    /\ UNCHANGED <<content, n, shards, chunk, at, position, index>>

\* binary_search_by over the records of a range.
Hits(i) == {k \in 1..Len(shards[i].records) : shards[i].records[k].start = expected}

\* Mutation: A range that missed the record is taken as it was scanned.
NextChunkTrusts ==
    /\ phase = "stitch"
    /\ chunk + 1 < n /\ expected # None
    /\ chunk' = chunk + 1
    /\ at' = 1
    /\ phase' = "insert"
    /\ UNCHANGED <<content, n, shards, expected, position, index>>

\* Mutation: The rescan is repeated for the range before.
NextChunkStays ==
    /\ phase = "stitch"
    /\ chunk + 1 < n /\ expected # None
    /\ phase' = "walk"
    /\ position' = expected
    /\ UNCHANGED <<content, n, shards, chunk, at, expected, index>>

NextChunk ==
    /\ phase = "stitch"
    /\ chunk + 1 < n /\ expected # None
    /\ chunk' = chunk + 1
    /\ \/ /\ at' \in Hits(chunk + 1)
          /\ phase' = "insert"
          /\ UNCHANGED position
       \/ /\ Hits(chunk + 1) = {}
          /\ phase' = "walk"
          /\ position' = expected
          /\ UNCHANGED at
    /\ UNCHANGED <<content, n, shards, expected, index>>

Stop ==
    /\ phase = "stitch"
    /\ chunk + 1 = n \/ expected = None
    /\ phase' = "done"
    /\ UNCHANGED <<content, n, shards, chunk, at, expected, position, index>>
-----------------------------------------------------------------------------
(* rescan_range, and build_entity_index where the file is one range *)

Walked == NextRec(content, position)

\* Mutation: The scanner is left past the byte after the semicolon.
WalkRecordOvershoots ==
    /\ phase = "walk"
    /\ Walked # NoRecord /\ Walked.start < RangeEnd(chunk)
    /\ index' = Append(index, Walked)
    /\ position' = Walked.end + 1
    /\ UNCHANGED <<content, n, shards, phase, chunk, at, expected>>

WalkRecord ==
    /\ phase = "walk"
    /\ Walked # NoRecord /\ Walked.start < RangeEnd(chunk)
    /\ index' = Append(index, Walked)
    /\ position' = Walked.end
    /\ UNCHANGED <<content, n, shards, phase, chunk, at, expected>>

\* Mutation: A rescan hands over the end of its range instead of a record.
WalkEndAtRange ==
    /\ phase = "walk"
    /\ \/ /\ Walked # NoRecord /\ Walked.start >= RangeEnd(chunk)
          /\ expected' = RangeEnd(chunk)
       \/ /\ Walked = NoRecord
          /\ expected' = None
    /\ phase' = "stitch"
    /\ UNCHANGED <<content, n, shards, chunk, at, position, index>>

WalkEnd ==
    /\ phase = "walk"
    /\ \/ /\ Walked # NoRecord /\ Walked.start >= RangeEnd(chunk)
          /\ expected' = Walked.start
       \/ /\ Walked = NoRecord
          /\ expected' = None
    /\ phase' = "stitch"
    /\ UNCHANGED <<content, n, shards, chunk, at, position, index>>
-----------------------------------------------------------------------------
Next ==
    \/ \E i \in Chunks : ScanRecord(i) \/ ScanHandoff(i) \/ ScanEof(i)
    \/ Collect \/ InsertKept \/ KeptDone \/ NextChunk \/ Stop
    \/ WalkRecord \/ WalkEnd

Spec == Init /\ [][Next]_vars

\* Every range has a thread, and the stitch has one.
FairSpec ==
    /\ Spec
    /\ WF_vars(\E i \in Chunks : ScanRecord(i) \/ ScanHandoff(i) \/ ScanEof(i))
    /\ WF_vars(Collect \/ InsertKept \/ KeptDone \/ NextChunk \/ Stop
               \/ WalkRecord \/ WalkEnd)
-----------------------------------------------------------------------------
Serial == INSTANCE SerialScan WITH finished <- (phase = "done")

\* The records go into the index exactly as the serial builder inserts them,
\* in the same order and with no other, wherever the ranges are cut: the claim
\* "byte-identical to build_entity_index" of build_entity_index_parallel.
MatchesSerial == Serial!Spec

\* The records of a range start one after the other, which the binary search
\* for the record handed over relies on (comment in stitch).
SearchedSorted ==
    \A i \in Chunks : \A j, k \in 1..Len(shards[i].records) :
        j < k => shards[i].records[j].start < shards[i].records[k].start

\* The record handed to the next range is the one the serial builder would
\* insert next, and nothing is handed over only at the end of the file, however
\* the range was scanned (comment on expected_start in stitch).
HandoffIsReal ==
    phase = "stitch" =>
        LET r == NextRec(content, Serial!Position)
        IN  IF expected = None THEN r = NoRecord ELSE r # NoRecord /\ r.start = expected

\* Every file is indexed in the end, whatever its records look like.
ScanEnds == <>(phase = "done")
=============================================================================
