---------------------------- MODULE StepScanner ----------------------------
(***************************************************************************)
(* core/src/parser/scanner.rs: EntityScanner, the byte scanner behind every *)
(* entity index.  A file is a sequence of tokens: a single byte that means  *)
(* something to the scanner, the section mark DATA;, or "x", any other      *)
(* byte.  Offsets start at 0, as in the code.                              *)
(***************************************************************************)
EXTENDS Integers, Sequences, FiniteSetsExt

CONSTANTS
    HeaderLimit,  \* how far data_section_start looks for the section mark
    IdSpan,       \* express ids wrap at this number (2^32)
    NoRecord      \* the answer None

Digit == [d \in {"1", "2"} |-> IF d = "1" THEN 1 ELSE 2]
Blank == "_"

Byte(c, p) == c[p + 1]

\* Outside a quoted string the quotes so far pair up; a doubled quote within a
\* string is a pair itself.
Unquoted(c, from, p) ==
    Cardinality({i \in from..(p - 1) : Byte(c, i) = "'"}) % 2 = 0

DataStart(c) ==
    LET marks == {p \in 0..(Len(c) - 1) :
                    p < HeaderLimit /\ Byte(c, p) = "DATA;" /\ Unquoted(c, 0, p)}
    IN  IF marks = {} THEN 0 ELSE Min(marks) + 1

\* Where a run of the bytes in S that starts at p is over.
RunEnd(c, p, S) == Min({q \in p..Len(c) : q = Len(c) \/ Byte(c, q) \notin S})

OpensComment(c, p) == p + 1 < Len(c) /\ Byte(c, p) = "/" /\ Byte(c, p + 1) = "*"

CommentEnds(c, p) ==
    {q + 2 : q \in {i \in (p + 2)..(Len(c) - 2) : Byte(c, i) = "*" /\ Byte(c, i + 1) = "/"}}

\* #<digits>[blanks]= starts a record; any other # is skipped with its digits.
OpensRecord(c, p) ==
    LET digitEnd == RunEnd(c, p + 1, DOMAIN Digit)
        probe == RunEnd(c, digitEnd, {Blank})
    IN  /\ Byte(c, p) = "#"
        /\ digitEnd > p + 1
        /\ probe < Len(c) /\ Byte(c, probe) = "="

\* The offsets just past an unquoted semicolon.
EntityEnds(c, p) ==
    {q + 1 : q \in {i \in p..(Len(c) - 1) : Byte(c, i) \in {";", "DATA;"} /\ Unquoted(c, p, i)}}

ParseId(c, p) ==
    LET last == RunEnd(c, p, DOMAIN Digit)
        value[q \in p..last] ==
            IF q = p THEN 0 ELSE (value[q - 1] * 10 + Digit[Byte(c, q - 1)]) % IdSpan
    IN  value[last]

RecordAt(c, p) ==
    IF EntityEnds(c, p) = {} THEN NoRecord
    ELSE [id |-> ParseId(c, p + 1), start |-> p, end |-> Min(EntityEnds(c, p))]

\* What next_entity answers from each position of content c.
NextEntity(c) ==
    LET next[p \in 0..Len(c)] ==
            IF p = Len(c) THEN NoRecord
            ELSE CASE OpensComment(c, p) ->
                        IF CommentEnds(c, p) = {} THEN NoRecord ELSE next[Min(CommentEnds(c, p))]
                   [] OpensRecord(c, p) -> RecordAt(c, p)
                   [] Byte(c, p) = "#" -> next[RunEnd(c, p + 1, DOMAIN Digit)]
                   [] OTHER -> next[p + 1]
    IN  next
=============================================================================
