------------------------ MODULE ParallelScan_proofs ------------------------
(***************************************************************************)
(* The parallel index is the serial one for every file, every scanner that  *)
(* answers a record again when it is put at its start, and every way of     *)
(* cutting the file: where a range ends plays no part in the argument.      *)
(***************************************************************************)
EXTENDS ParallelScan, TLAPS

\* What the serial builder would insert next.
NextSerial == NextRec(content, Serial!Position)

\* The records of a range are the scanner's answers, one after the other.
Chained(i) ==
    LET s == shards[i]
    IN  /\ \A k \in 1..Len(s.records) :
            /\ s.records[k] # NoRecord
            /\ NextRec(content, s.records[k].start) = s.records[k]
            /\ s.records[k].start < s.pos
            /\ IF k = Len(s.records) THEN s.pos = s.records[k].end
               ELSE s.records[k + 1] = NextRec(content, s.records[k].end)
        /\ s.records # <<>> => s.records[1] = NextRec(content, ScanStart(i))
        /\ s.records = <<>> => s.pos = ScanStart(i)

\* A range that is scanned says what comes next, and that it lies further on.
HandedOver(i) ==
    LET r == NextRec(content, shards[i].pos)
    IN  shards[i].ended =>
          IF shards[i].handoff = None THEN r = NoRecord
          ELSE r # NoRecord /\ r.start = shards[i].handoff /\ r.start >= RangeEnd(i)

\* Where the stitch is, it is in step with the serial builder.
InStep ==
    /\ phase = "scan" => chunk = 0 /\ at = 1 /\ index = <<>>
    /\ phase = "insert" =>
         /\ \A i \in Chunks : shards[i].ended
         /\ at <= Len(Kept) + 1
         /\ IF at <= Len(Kept) THEN NextSerial = Kept[at]
            ELSE Serial!Position = shards[chunk].pos
    /\ phase = "stitch" =>
         IF expected = None THEN NextSerial = NoRecord
         ELSE NextSerial # NoRecord /\ NextSerial.start = expected /\ expected >= RangeEnd(chunk)
    /\ phase = "walk" => Walked = NextSerial
    /\ phase = "done" => NextSerial = NoRecord
    /\ phase \in {"stitch", "walk"} /\ chunk + 1 < n => \A i \in Chunks : shards[i].ended

\* A range hands nothing over before it is scanned.
NotYet == \A i \in Chunks : ~shards[i].ended => shards[i].handoff = None

IInv ==
    /\ TypeOK
    /\ SearchedSorted
    /\ NotYet
    /\ \A i \in Chunks : Chained(i) /\ HandedOver(i)
    /\ InStep
-----------------------------------------------------------------------------
LEMMA DivisionIsNatural ==
  ASSUME NEW a \in Nat, NEW b \in Nat \ {0}
  PROVE  a \div b \in Nat
OBVIOUS

LEMMA ChunkCountPositive ==
  ASSUME NEW len \in Nat, NEW threads \in Nat
  PROVE  ChunkCount(len, threads) \in Nat \ {0}
<1>1. len \div MinChunk \in Nat
  BY SizesAssumption, DivisionIsNatural
<1>2. QED
  BY <1>1 DEF ChunkCount, Smaller, Larger

LEMMA ScanStartWithin ==
  ASSUME content \in Contents, n \in Nat \ {0}, NEW i \in Chunks
  PROVE  ScanStart(i) \in 0..Size
<1>1. Size \in Nat /\ FirstByte(content) \in 0..Size
  BY ScannerAssumption DEF Size
<1>2. i \in Nat
  BY DEF Chunks
<1>3. i * Size \in Nat
  BY <1>1, <1>2
<1>4. RangeStart(i) \in Nat
  BY <1>3, DivisionIsNatural DEF RangeStart
<1>5. QED
  BY <1>1, <1>4 DEF ScanStart, Smaller

\* What the scanner answers is a record that lies further on, and it answers it
\* again from the record's start.
LEMMA Answers ==
  ASSUME content \in Contents, NEW p \in 0..Size, NextRec(content, p) # NoRecord
  PROVE  LET r == NextRec(content, p)
         IN  /\ r \in Record
             /\ r.start \in Nat /\ r.end \in Nat
             /\ p <= r.start /\ r.start < r.end /\ r.end <= Size
             /\ NextRec(content, r.start) = r
<1>1. Size \in Nat
  BY ScannerAssumption DEF Size
<1>2. NextRec(content, p) \in [id : Nat, start : p..Len(content), end : 0..Len(content)]
  BY ScannerAssumption DEF Size
<1>3. /\ NextRec(content, p).start < NextRec(content, p).end
      /\ NextRec(content, NextRec(content, p).start) = NextRec(content, p)
  BY ScannerAssumption DEF Size
<1>4. QED
  BY <1>1, <1>2, <1>3 DEF Record, Size

\* A record appended to a range continues its chain.
LEMMA AppendKeepsChain ==
  ASSUME TypeOK, NEW i \in Chunks, Chained(i), ScanRecord(i),
         \A j, k \in 1..Len(shards[i].records) :
            j < k => shards[i].records[j].start < shards[i].records[k].start
  PROVE  /\ Chained(i)'
         /\ \A j, k \in 1..Len(shards'[i].records) :
              j < k => shards'[i].records[j].start < shards'[i].records[k].start
<1> DEFINE s == shards[i]
           t == shards'[i]
           r == NextRec(content, shards[i].pos)
<1>1. /\ s.pos \in 0..Size /\ s.records \in Seq(Record)
      /\ content \in Contents /\ Size \in Nat
  BY ScannerAssumption DEF TypeOK, Size
<1>2. /\ r # NoRecord /\ r \in Record /\ r.start \in Nat /\ r.end \in Nat
      /\ s.pos <= r.start /\ r.start < r.end /\ NextRec(content, r.start) = r
  BY <1>1, Answers DEF ScanRecord, Found
<1>3. /\ t.records = Append(s.records, r) /\ t.pos = r.end
      /\ content' = content /\ n' = n
  BY DEF ScanRecord, Found, TypeOK
<1>4. ScanStart(i)' = ScanStart(i)
  BY <1>3 DEF ScanStart, RangeStart, Size
<1>5. /\ Len(t.records) = Len(s.records) + 1 /\ Len(s.records) \in Nat
      /\ \A k \in 1..Len(s.records) : t.records[k] = s.records[k]
      /\ t.records[Len(s.records) + 1] = r
      /\ t.records # <<>>
  BY <1>1, <1>2, <1>3, SMTT(20)
<1>6. \A k \in 1..Len(s.records) : s.records[k].start \in Nat /\ s.records[k].start < s.pos
  <2>1. \A k \in 1..Len(s.records) : s.records[k] \in Record
    BY <1>1
  <2>2. QED
    BY <1>1, <2>1, SMTT(20) DEF Chained, Record
<1>7. \A k \in 1..Len(t.records) :
        /\ t.records[k] # NoRecord
        /\ NextRec(content, t.records[k].start) = t.records[k]
        /\ t.records[k].start < t.pos
        /\ IF k = Len(t.records) THEN t.pos = t.records[k].end
           ELSE t.records[k + 1] = NextRec(content, t.records[k].end)
  <2> SUFFICES ASSUME NEW k \in 1..Len(t.records)
               PROVE  /\ t.records[k] # NoRecord
                      /\ NextRec(content, t.records[k].start) = t.records[k]
                      /\ t.records[k].start < t.pos
                      /\ IF k = Len(t.records) THEN t.pos = t.records[k].end
                         ELSE t.records[k + 1] = NextRec(content, t.records[k].end)
    OBVIOUS
  <2>1. CASE k = Len(t.records)
    BY <1>2, <1>3, <1>5, <2>1
  <2>2. CASE k < Len(s.records)
    <3>1. k \in 1..Len(s.records) /\ k + 1 \in 1..Len(s.records) /\ k # Len(t.records)
      BY <1>5, <2>2
    <3>2. t.records[k] = s.records[k] /\ t.records[k + 1] = s.records[k + 1]
      BY <1>5, <3>1
    <3>3. /\ s.records[k] # NoRecord
          /\ NextRec(content, s.records[k].start) = s.records[k]
          /\ s.records[k + 1] = NextRec(content, s.records[k].end)
      BY <1>5, <2>2, <3>1 DEF Chained
    <3>4. s.records[k].start < r.end
      BY <1>1, <1>2, <1>6, <3>1
    <3>5. QED
      BY <1>3, <3>1, <3>2, <3>3, <3>4
  <2>3. CASE k = Len(s.records)
    BY <1>1, <1>2, <1>3, <1>5, <1>6, <2>3, SMTT(20) DEF Chained
  <2>4. QED
    BY <1>5, <2>1, <2>2, <2>3
<1>8. t.records[1] = NextRec(content, ScanStart(i))
  <2>1. CASE s.records = <<>>
    BY <1>3, <1>5, <2>1 DEF Chained
  <2>2. CASE s.records # <<>>
    <3>1. 1 \in 1..Len(s.records)
      BY <1>1, <2>2
    <3>2. QED
      BY <1>5, <2>2, <3>1 DEF Chained
  <2>3. QED
    BY <2>1, <2>2
<1>9. Chained(i)'
  BY <1>3, <1>4, <1>5, <1>7, <1>8 DEF Chained
<1>10. \A j, k \in 1..Len(t.records) : j < k => t.records[j].start < t.records[k].start
  <2> SUFFICES ASSUME NEW j \in 1..Len(t.records), NEW k \in 1..Len(t.records), j < k
               PROVE  t.records[j].start < t.records[k].start
    OBVIOUS
  <2>1. j \in 1..Len(s.records) /\ t.records[j] = s.records[j]
    BY <1>5
  <2>2. CASE k = Len(s.records) + 1
    <3>1. t.records[k] = r /\ s.records[j].start < s.pos /\ s.records[j].start \in Nat
      BY <1>5, <1>6, <2>1, <2>2
    <3>2. s.records[j].start < r.start
      BY <1>1, <1>2, <3>1
    <3>3. QED
      BY <2>1, <3>1, <3>2
  <2>3. CASE k \in 1..Len(s.records)
    BY <1>5, <2>1, <2>3
  <2>4. QED
    BY <1>5, <2>2, <2>3
<1>11. QED
  BY <1>9, <1>10

\* A range that no step touches stays as it was.
LEMMA OthersKeep ==
  ASSUME NEW i \in Chunks, n' = n, content' = content, shards'[i] = shards[i]
  PROVE  /\ Chained(i) => Chained(i)'
         /\ HandedOver(i) => HandedOver(i)'
<1>1. ScanStart(i)' = ScanStart(i) /\ RangeEnd(i)' = RangeEnd(i)
  BY DEF ScanStart, RangeStart, RangeEnd, Size
<1>2. QED
  BY <1>1 DEF Chained, HandedOver

\* The stitch goes by its own state and by the ranges that are scanned.
LEMMA StitchUntouched ==
  ASSUME IInv, phase = "scan", UNCHANGED <<content, n, stitchVars>>
  PROVE  InStep'
BY DEF IInv, InStep, stitchVars

\* The step of one range.
LEMMA ScanStep ==
  ASSUME IInv, NEW i \in Chunks, ScanRecord(i) \/ ScanHandoff(i) \/ ScanEof(i)
  PROVE  IInv'
<1> DEFINE r == NextRec(content, shards[i].pos)
<1>1. /\ phase = "scan" /\ ~shards[i].ended
      /\ content' = content /\ n' = n /\ UNCHANGED stitchVars
      /\ Chunks' = Chunks /\ Size' = Size /\ Record' = Record
  BY DEF ScanRecord, ScanHandoff, ScanEof, Scanning, Chunks, Size, Record
<1>2. \A j \in Chunks \ {i} : shards'[j] = shards[j]
  BY DEF IInv, TypeOK, ScanRecord, ScanHandoff, ScanEof
<1>3. r # NoRecord => /\ r \in Record /\ r.start \in Nat /\ r.end \in Nat
                      /\ r.start < r.end /\ r.end <= Size
  BY Answers DEF IInv, TypeOK
<1>4. Size \in Nat
  BY ScannerAssumption DEF IInv, TypeOK, Size
<1>5. TypeOK'
  <2>1. CASE ScanRecord(i)
    <3> DEFINE S == [pos : 0..Size, records : Seq(Record),
                     handoff : 0..Size \cup {None}, ended : BOOLEAN]
    <3>1. Append(shards[i].records, r) \in Seq(Record) /\ r.end \in 0..Size
      BY <1>3, <1>4, <2>1 DEF IInv, TypeOK, ScanRecord, Found
    <3>2. shards' = [shards EXCEPT ![i].records = Append(@, r), ![i].pos = r.end]
      BY <2>1 DEF ScanRecord, Found
    <3>3. shards' \in [Chunks -> S]
      BY <3>1, <3>2 DEF IInv, TypeOK
    <3>4. QED
      BY <1>1, <3>3 DEF IInv, TypeOK, stitchVars
  <2>2. CASE ScanHandoff(i)
    BY <1>1, <1>3, <1>4, <2>2 DEF IInv, TypeOK, ScanHandoff, Found, stitchVars
  <2>3. CASE ScanEof(i)
    BY <1>1, <1>4, <2>3, ZenonT(30) DEF IInv, TypeOK, ScanEof, stitchVars
  <2>4. QED
    BY <2>1, <2>2, <2>3
<1>6. /\ Chained(i)'
      /\ \A j, k \in 1..Len(shards'[i].records) :
           j < k => shards'[i].records[j].start < shards'[i].records[k].start
  <2>1. CASE ScanRecord(i)
    BY <2>1, AppendKeepsChain DEF IInv, SearchedSorted
  <2>2. CASE ScanHandoff(i) \/ ScanEof(i)
    <3>1. shards'[i].records = shards[i].records /\ shards'[i].pos = shards[i].pos
      BY <2>2 DEF IInv, TypeOK, ScanHandoff, ScanEof
    <3>2. ScanStart(i)' = ScanStart(i)
      BY <1>1 DEF ScanStart, RangeStart
    <3>3. QED
      BY <1>1, <3>1, <3>2 DEF IInv, SearchedSorted, Chained
  <2>3. QED
    BY <2>1, <2>2
<1>7. HandedOver(i)'
  <2>1. RangeEnd(i)' = RangeEnd(i)
    BY <1>1 DEF RangeEnd
  <2>2. CASE ScanRecord(i)
    BY <1>1, <2>2 DEF IInv, TypeOK, ScanRecord, HandedOver
  <2>3. CASE ScanHandoff(i)
    <3>1. shards'[i].handoff = r.start /\ shards'[i].pos = shards[i].pos
      BY <2>3 DEF IInv, TypeOK, ScanHandoff, Found
    <3>2. r # NoRecord /\ r.start >= RangeEnd(i)
      BY <2>3 DEF ScanHandoff, Found
    <3>3. r.start # None
      BY <1>3, <3>2 DEF None
    <3>4. QED
      BY <1>1, <2>1, <3>1, <3>2, <3>3 DEF HandedOver
  <2>4. CASE ScanEof(i)
    <3>1. shards'[i].handoff = shards[i].handoff /\ shards'[i].pos = shards[i].pos
      BY <2>4 DEF IInv, TypeOK, ScanEof
    <3>2. r = NoRecord
      BY <2>4 DEF ScanEof, Found
    <3>3. shards[i].handoff = None
      BY <1>1 DEF IInv, NotYet
    <3>4. QED
      BY <1>1, <3>1, <3>2, <3>3 DEF HandedOver
  <2>5. QED
    BY <2>2, <2>3, <2>4
<1>8. InStep'
  BY <1>1, StitchUntouched
<1>9. \A j \in Chunks \ {i} : Chained(j)' /\ HandedOver(j)'
  BY <1>1, <1>2, OthersKeep DEF IInv
<1>10. SearchedSorted'
  BY <1>1, <1>2, <1>6 DEF IInv, SearchedSorted
<1>11. NotYet'
  <2>1. CASE ScanRecord(i)
    BY <1>1, <1>2, <2>1 DEF IInv, TypeOK, NotYet, ScanRecord
  <2>2. CASE ScanHandoff(i) \/ ScanEof(i)
    BY <1>1, <1>2, <2>2 DEF IInv, TypeOK, NotYet, ScanHandoff, ScanEof
  <2>3. QED
    BY <2>1, <2>2
<1>12. QED
  BY <1>1, <1>5, <1>6, <1>7, <1>8, <1>9, <1>10, <1>11 DEF IInv

\* What the scans found is not touched by the stitch.
LEMMA ShardsUntouched ==
  ASSUME IInv, UNCHANGED <<content, n, shards>>
  PROVE  /\ SearchedSorted' /\ NotYet'
         /\ \A i \in Chunks' : Chained(i)' /\ HandedOver(i)'
         /\ Chunks' = Chunks /\ Size' = Size /\ Record' = Record
<1>1. Chunks' = Chunks /\ Size' = Size /\ Record' = Record
  BY DEF Chunks, Size, Record
<1>2. \A i \in Chunks : Chained(i)' /\ HandedOver(i)'
  BY OthersKeep DEF IInv
<1>3. SearchedSorted' /\ NotYet'
  BY <1>1 DEF IInv, SearchedSorted, NotYet
<1>4. QED
  BY <1>1, <1>2, <1>3

\* The serial builder goes on behind the record that is inserted.
LEMMA SerialAdvances ==
  ASSUME TypeOK, NEW r \in Record, index' = Append(index, r)
  PROVE  Serial!Position' = r.end
<1>1. index \in Seq(Record)
  BY DEF TypeOK
<1>2. Len(index') = Len(index) + 1 /\ Len(index) \in Nat /\ index'[Len(index) + 1] = r
  BY <1>1
<1>3. index' # <<>>
  BY <1>1
<1>4. QED
  BY <1>2, <1>3 DEF Serial!Position

LEMMA PositionWithin ==
  ASSUME TypeOK
  PROVE  Serial!Position \in 0..Size
<1>1. FirstByte(content) \in 0..Size /\ Size \in Nat
  BY ScannerAssumption DEF TypeOK, Size
<1>2. CASE index = <<>>
  BY <1>1, <1>2 DEF Serial!Position
<1>3. CASE index # <<>>
  <2>1. index[Len(index)] \in Record
    BY <1>3 DEF TypeOK
  <2>2. QED
    BY <1>3, <2>1 DEF Serial!Position, Record
<1>4. QED
  BY <1>2, <1>3

LEMMA CollectStep == ASSUME IInv, Collect PROVE IInv'
<1>1. /\ phase = "scan" /\ phase' = "insert"
      /\ UNCHANGED <<content, n, shards, chunk, at, expected, position, index>>
      /\ \A i \in Chunks : shards[i].ended
  BY DEF Collect
<1>2. /\ SearchedSorted' /\ NotYet' /\ (\A i \in Chunks' : Chained(i)' /\ HandedOver(i)')
      /\ Chunks' = Chunks /\ Size' = Size /\ Record' = Record
  BY <1>1, ShardsUntouched
<1>3. TypeOK'
  BY <1>1, <1>2 DEF IInv, TypeOK
<1>4. chunk = 0 /\ at = 1 /\ index = <<>>
  BY <1>1 DEF IInv, InStep
<1>5. Serial!Position = FirstByte(content) /\ ScanStart(0) = FirstByte(content)
  BY <1>4 DEF Serial!Position, ScanStart
<1>6. 0 \in Chunks /\ Kept = shards[0].records /\ Kept \in Seq(Record)
  BY <1>4 DEF IInv, TypeOK, Kept
<1>7. /\ at <= Len(Kept) + 1
      /\ IF at <= Len(Kept) THEN NextSerial = Kept[at] ELSE Serial!Position = shards[chunk].pos
  <2>1. CASE Kept = <<>>
    <3>1. shards[0].pos = ScanStart(0)
      BY <1>6, <2>1 DEF IInv, Chained
    <3>2. Len(Kept) = 0
      BY <2>1
    <3>3. QED
      BY <1>4, <1>5, <3>1, <3>2
  <2>2. CASE Kept # <<>>
    <3>1. Kept[1] = NextRec(content, ScanStart(0))
      BY <1>6, <2>2 DEF IInv, Chained
    <3>2. Len(Kept) \in Nat /\ Len(Kept) >= 1
      BY <1>6, <2>2
    <3>3. QED
      BY <1>4, <1>5, <3>1, <3>2 DEF NextSerial
  <2>3. QED
    BY <2>1, <2>2
<1>8. NextSerial' = NextSerial /\ Kept' = Kept /\ Serial!Position' = Serial!Position
  BY <1>1 DEF NextSerial, Kept, Serial!Position
<1>9. InStep'
  BY <1>1, <1>2, <1>7, <1>8 DEF InStep
<1>10. QED
  BY <1>2, <1>3, <1>9 DEF IInv

LEMMA InsertKeptStep == ASSUME IInv, InsertKept PROVE IInv' /\ Serial!Insert
<1> DEFINE s == shards[chunk]
<1>1. /\ phase = "insert" /\ at <= Len(Kept)
      /\ index' = Append(index, Kept[at]) /\ at' = at + 1
      /\ UNCHANGED <<content, n, shards, phase, chunk, expected, position>>
  BY DEF InsertKept
<1>2. /\ SearchedSorted' /\ NotYet' /\ (\A i \in Chunks' : Chained(i)' /\ HandedOver(i)')
      /\ Chunks' = Chunks /\ Size' = Size /\ Record' = Record
  BY <1>1, ShardsUntouched
<1>3. /\ chunk \in Chunks /\ Kept \in Seq(Record) /\ at \in 1..Len(Kept) /\ Kept = s.records
  BY <1>1 DEF IInv, TypeOK, Kept
<1>4. Kept[at] \in Record
  BY <1>3
<1>5. TypeOK'
  <2>1. index' \in Seq(Record) /\ at' \in Nat \ {0}
    BY <1>1, <1>3, <1>4 DEF IInv, TypeOK
  <2>2. QED
    BY <1>1, <1>2, <2>1 DEF IInv, TypeOK
<1>6. Serial!Position' = Kept[at].end
  BY <1>1, <1>4, SerialAdvances DEF IInv
<1>7. /\ Kept[at] # NoRecord
      /\ IF at = Len(Kept) THEN s.pos = Kept[at].end ELSE Kept[at + 1] = NextRec(content, Kept[at].end)
  BY <1>3 DEF IInv, Chained
<1>8. Kept' = Kept /\ Len(Kept) \in Nat /\ at \in Nat
  BY <1>1, <1>3 DEF Kept
<1>9. /\ at' <= Len(Kept') + 1
      /\ IF at' <= Len(Kept') THEN NextSerial' = Kept'[at'] ELSE Serial!Position' = shards'[chunk'].pos
  <2>1. CASE at = Len(Kept)
    BY <1>1, <1>6, <1>7, <1>8, <2>1
  <2>2. CASE at < Len(Kept)
    BY <1>1, <1>6, <1>7, <1>8, <2>2 DEF NextSerial
  <2>3. QED
    BY <1>1, <1>8, <2>1, <2>2
<1>10. InStep'
  BY <1>1, <1>2, <1>9 DEF IInv, InStep
<1>11. NextSerial = Kept[at]
  BY <1>1 DEF IInv, InStep
<1>12. Serial!Insert
  BY <1>1, <1>7, <1>11 DEF Serial!Insert, NextSerial
<1>13. QED
  BY <1>2, <1>5, <1>10, <1>12 DEF IInv

LEMMA KeptDoneStep == ASSUME IInv, KeptDone PROVE IInv'
<1>1. /\ phase = "insert" /\ at > Len(Kept) /\ phase' = "stitch"
      /\ expected' = shards[chunk].handoff
      /\ UNCHANGED <<content, n, shards, chunk, at, position, index>>
  BY DEF KeptDone
<1>2. /\ SearchedSorted' /\ NotYet' /\ (\A i \in Chunks' : Chained(i)' /\ HandedOver(i)')
      /\ Chunks' = Chunks /\ Size' = Size /\ Record' = Record
  BY <1>1, ShardsUntouched
<1>3. chunk \in Chunks /\ Kept \in Seq(Record) /\ at \in Nat
  BY DEF IInv, TypeOK, Kept
<1>4. TypeOK'
  BY <1>1, <1>2, <1>3 DEF IInv, TypeOK
<1>5. Serial!Position = shards[chunk].pos /\ \A i \in Chunks : shards[i].ended
  BY <1>1, <1>3 DEF IInv, InStep
<1>6. NextSerial' = NextSerial /\ RangeEnd(chunk)' = RangeEnd(chunk)
  BY <1>1 DEF NextSerial, RangeEnd, Size, Serial!Position
<1>7. IF expected' = None THEN NextSerial = NoRecord
      ELSE NextSerial # NoRecord /\ NextSerial.start = expected' /\ expected' >= RangeEnd(chunk)
  BY <1>1, <1>3, <1>5 DEF IInv, HandedOver, NextSerial
<1>8. InStep'
  BY <1>1, <1>2, <1>5, <1>6, <1>7 DEF InStep
<1>9. QED
  BY <1>2, <1>4, <1>8 DEF IInv

LEMMA NextChunkStep == ASSUME IInv, NextChunk PROVE IInv'
<1> DEFINE i == chunk + 1
           s == shards[i]
<1>1. /\ phase = "stitch" /\ i < n /\ expected # None /\ chunk' = i
      /\ UNCHANGED <<content, n, shards, expected, index>>
      /\ \/ at' \in Hits(i) /\ phase' = "insert" /\ position' = position
         \/ phase' = "walk" /\ position' = expected /\ at' = at
  BY DEF NextChunk
<1>2. /\ SearchedSorted' /\ NotYet' /\ (\A j \in Chunks' : Chained(j)' /\ HandedOver(j)')
      /\ Chunks' = Chunks /\ Size' = Size /\ Record' = Record
  BY <1>1, ShardsUntouched
<1>3. /\ i \in Chunks /\ s.records \in Seq(Record) /\ expected \in 0..Size
      /\ content \in Contents
  BY <1>1 DEF IInv, TypeOK, Chunks
<1>4. TypeOK'
  BY <1>1, <1>2, <1>3 DEF IInv, TypeOK, Hits
<1>5. \A j \in Chunks : shards[j].ended
  BY <1>1, <1>3 DEF IInv, InStep
\* Put at the start it hands over, the scanner answers what the serial one does.
<1>6. /\ NextSerial # NoRecord /\ NextSerial.start = expected
      /\ NextRec(content, expected) = NextSerial
  <2>1. NextSerial # NoRecord /\ NextSerial.start = expected
    BY <1>1 DEF IInv, InStep
  <2>2. Serial!Position \in 0..Size
    BY PositionWithin DEF IInv
  <2>3. QED
    BY <1>3, <2>1, <2>2, Answers DEF NextSerial
<1>7. NextSerial' = NextSerial /\ Serial!Position' = Serial!Position
  BY <1>1 DEF NextSerial, Serial!Position
<1>8. CASE at' \in Hits(i) /\ phase' = "insert"
  <2>1. /\ at' \in 1..Len(s.records) /\ s.records[at'].start = expected
        /\ Kept' = s.records
    BY <1>1, <1>8 DEF Hits, Kept
  <2>2. s.records[at'] = NextSerial
    BY <1>3, <1>6, <2>1 DEF IInv, Chained
  <2>3. at' <= Len(Kept') /\ at' <= Len(Kept') + 1
    BY <1>3, <2>1
  <2>4. InStep'
    BY <1>1, <1>2, <1>5, <1>7, <1>8, <2>1, <2>2, <2>3 DEF InStep
  <2>5. QED
    BY <1>2, <1>4, <2>4 DEF IInv
<1>9. CASE phase' = "walk" /\ position' = expected
  <2>1. Walked' = NextSerial
    BY <1>1, <1>6, <1>9 DEF Walked
  <2>2. InStep'
    BY <1>1, <1>2, <1>5, <1>7, <1>9, <2>1 DEF InStep
  <2>3. QED
    BY <1>2, <1>4, <2>2 DEF IInv
<1>10. QED
  BY <1>1, <1>8, <1>9

LEMMA StopStep == ASSUME IInv, Stop PROVE IInv' /\ Serial!Finish
<1>1. /\ phase = "stitch" /\ phase' = "done" /\ (chunk + 1 = n \/ expected = None)
      /\ UNCHANGED <<content, n, shards, chunk, at, expected, position, index>>
  BY DEF Stop
<1>2. /\ SearchedSorted' /\ NotYet' /\ (\A j \in Chunks' : Chained(j)' /\ HandedOver(j)')
      /\ Chunks' = Chunks /\ Size' = Size /\ Record' = Record
  BY <1>1, ShardsUntouched
<1>3. TypeOK'
  BY <1>1, <1>2 DEF IInv, TypeOK
\* Behind the last range there is no record: its end is the end of the file.
<1>4. expected = None
  <2>1. SUFFICES ASSUME expected # None, chunk + 1 = n PROVE FALSE
    BY <1>1
  <2>2. NextSerial # NoRecord /\ NextSerial.start >= Size
    BY <1>1, <2>1 DEF IInv, InStep, RangeEnd
  <2>3. Serial!Position \in 0..Size /\ content \in Contents /\ Size \in Nat
    BY PositionWithin, ScannerAssumption DEF IInv, TypeOK, Size
  <2>4. NextSerial.start \in Nat /\ NextSerial.start < Size
    BY <2>2, <2>3, Answers DEF NextSerial
  <2>5. QED
    BY <2>2, <2>3, <2>4
<1>5. NextSerial = NoRecord /\ NextSerial' = NextSerial
  BY <1>1, <1>4 DEF IInv, InStep, NextSerial, Serial!Position
<1>6. InStep'
  BY <1>1, <1>5 DEF InStep
<1>7. Serial!Finish
  BY <1>1, <1>5 DEF Serial!Finish, NextSerial
<1>8. QED
  BY <1>2, <1>3, <1>6, <1>7 DEF IInv

LEMMA WalkRecordStep == ASSUME IInv, WalkRecord PROVE IInv' /\ Serial!Insert
<1>1. /\ phase = "walk" /\ Walked # NoRecord
      /\ index' = Append(index, Walked) /\ position' = Walked.end
      /\ UNCHANGED <<content, n, shards, phase, chunk, at, expected>>
  BY DEF WalkRecord
<1>2. /\ SearchedSorted' /\ NotYet' /\ (\A j \in Chunks' : Chained(j)' /\ HandedOver(j)')
      /\ Chunks' = Chunks /\ Size' = Size /\ Record' = Record
  BY <1>1, ShardsUntouched
<1>3. Walked \in Record
  BY <1>1, Answers DEF IInv, TypeOK, Walked
<1>4. TypeOK'
  <2>1. index' \in Seq(Record) /\ position' \in 0..Size
    BY <1>1, <1>3 DEF IInv, TypeOK, Record
  <2>2. QED
    BY <1>1, <1>2, <2>1 DEF IInv, TypeOK
<1>5. Serial!Position' = position'
  BY <1>1, <1>3, SerialAdvances DEF IInv
<1>6. Walked' = NextSerial'
  BY <1>1, <1>5 DEF Walked, NextSerial
<1>7. InStep'
  BY <1>1, <1>2, <1>6 DEF IInv, InStep
<1>8. NextSerial = Walked
  BY <1>1 DEF IInv, InStep
<1>9. Serial!Insert
  BY <1>1, <1>8 DEF Serial!Insert, NextSerial
<1>10. QED
  BY <1>2, <1>4, <1>7, <1>9 DEF IInv

LEMMA WalkEndStep == ASSUME IInv, WalkEnd PROVE IInv'
<1>1. /\ phase = "walk" /\ phase' = "stitch"
      /\ \/ Walked # NoRecord /\ Walked.start >= RangeEnd(chunk) /\ expected' = Walked.start
         \/ Walked = NoRecord /\ expected' = None
      /\ UNCHANGED <<content, n, shards, chunk, at, position, index>>
  BY DEF WalkEnd
<1>2. /\ SearchedSorted' /\ NotYet' /\ (\A j \in Chunks' : Chained(j)' /\ HandedOver(j)')
      /\ Chunks' = Chunks /\ Size' = Size /\ Record' = Record
  BY <1>1, ShardsUntouched
<1>3. Walked # NoRecord => Walked \in Record /\ Walked.start \in Nat
  BY Answers DEF IInv, TypeOK, Walked
<1>4. TypeOK'
  <2>1. expected' \in 0..Size \cup {None}
    BY <1>1, <1>3 DEF Record
  <2>2. QED
    BY <1>1, <1>2, <2>1 DEF IInv, TypeOK
<1>5. NextSerial = Walked /\ NextSerial' = NextSerial /\ RangeEnd(chunk)' = RangeEnd(chunk)
  BY <1>1 DEF IInv, InStep, NextSerial, RangeEnd, Size, Serial!Position
<1>6. IF expected' = None THEN NextSerial = NoRecord
      ELSE NextSerial # NoRecord /\ NextSerial.start = expected' /\ expected' >= RangeEnd(chunk)
  BY <1>1, <1>3, <1>5 DEF None
<1>7. InStep'
  BY <1>1, <1>2, <1>5, <1>6 DEF IInv, InStep
<1>8. QED
  BY <1>2, <1>4, <1>7 DEF IInv
-----------------------------------------------------------------------------
LEMMA InitIInv == Init => IInv /\ Serial!Init
<1> SUFFICES ASSUME Init PROVE IInv /\ Serial!Init
  OBVIOUS
<1>1. content \in Contents /\ Size \in Nat /\ FirstByte(content) \in 0..Size
  BY ScannerAssumption DEF Init, Size
<1>2. n \in Nat \ {0}
  <2>1. PICK threads \in Threads : n = Larger(Smaller(ChunkCount(Size, threads), Larger(Size, 1)), 1)
    BY DEF Init
  <2>2. ChunkCount(Size, threads) \in Nat \ {0}
    BY <1>1, ChunkCountPositive, SizesAssumption
  <2>3. QED
    BY <1>1, <2>1, <2>2 DEF Larger, Smaller
<1>3. \A i \in Chunks : ScanStart(i) \in 0..Size
  BY <1>1, <1>2, ScanStartWithin
<1>4. TypeOK
  <2>1. 0 \in Chunks
    BY <1>2 DEF Chunks
  <2>2. QED
    BY <1>1, <1>2, <1>3, <2>1 DEF Init, TypeOK
<1>5. SearchedSorted /\ NotYet /\ \A i \in Chunks : Chained(i) /\ HandedOver(i)
  BY DEF Init, SearchedSorted, NotYet, Chained, HandedOver
<1>6. Walked = NextSerial
  BY DEF Init, Walked, NextSerial, Serial!Position
<1>7. InStep
  BY <1>2, <1>6 DEF Init, InStep
<1>8. QED
  BY <1>4, <1>5, <1>7 DEF IInv, Init, Serial!Init

\* Every step keeps the invariant and is a step of the serial builder or none.
LEMMA NextIInv ==
  ASSUME IInv, [Next]_vars
  PROVE  IInv' /\ [Serial!Insert \/ Serial!Finish]_(Serial!serialVars)
<1> DEFINE Same == UNCHANGED <<content, index, (phase = "done")>>
<1>1. CASE UNCHANGED vars
  <2>1. UNCHANGED <<content, n, shards, phase, chunk, at, expected, position, index>>
    BY <1>1 DEF vars
  <2>2. /\ SearchedSorted' /\ NotYet' /\ (\A j \in Chunks' : Chained(j)' /\ HandedOver(j)')
        /\ Chunks' = Chunks /\ Size' = Size /\ Record' = Record
    BY <2>1, ShardsUntouched
  <2>3. TypeOK'
    BY <2>1, <2>2 DEF IInv, TypeOK
  <2>4. /\ NextSerial' = NextSerial /\ Kept' = Kept /\ Walked' = Walked
        /\ Serial!Position' = Serial!Position /\ RangeEnd(chunk)' = RangeEnd(chunk)
    BY <2>1, <2>2 DEF NextSerial, Kept, Walked, Serial!Position, RangeEnd
  <2>5. InStep'
    BY <2>1, <2>2, <2>4 DEF IInv, InStep
  <2>6. QED
    BY <2>1, <2>2, <2>3, <2>5 DEF IInv, Serial!serialVars
<1>2. ASSUME NEW i \in Chunks, ScanRecord(i) \/ ScanHandoff(i) \/ ScanEof(i)
      PROVE  IInv' /\ Same
  <2>1. IInv'
    BY <1>2, ScanStep
  <2>2. Same
    BY <1>2 DEF ScanRecord, ScanHandoff, ScanEof, stitchVars
  <2>3. QED
    BY <2>1, <2>2
<1>3. CASE Collect
  BY <1>3, CollectStep DEF Collect, Serial!serialVars
<1>4. CASE InsertKept
  BY <1>4, InsertKeptStep
<1>5. CASE KeptDone
  BY <1>5, KeptDoneStep DEF KeptDone, Serial!serialVars
<1>6. CASE NextChunk
  BY <1>6, NextChunkStep DEF NextChunk, Serial!serialVars
<1>7. CASE Stop
  BY <1>7, StopStep
<1>8. CASE WalkRecord
  BY <1>8, WalkRecordStep
<1>9. CASE WalkEnd
  BY <1>9, WalkEndStep DEF WalkEnd, Serial!serialVars
<1>10. QED
  BY <1>1, <1>2, <1>3, <1>4, <1>5, <1>6, <1>7, <1>8, <1>9 DEF Next, Serial!serialVars

LEMMA Inductive == Spec => []IInv
<1>1. Init => IInv
  BY InitIInv
<1>2. IInv /\ [Next]_vars => IInv'
  BY NextIInv
<1>3. QED
  BY <1>1, <1>2, PTL DEF Spec
-----------------------------------------------------------------------------
\* The builder keeps its types: every offset it uses lies within the file,
\* for every file and number of ranges.
THEOREM ScanTyped == Spec => []TypeOK
<1>1. IInv => TypeOK
  BY DEF IInv
<1>2. QED
  BY <1>1, Inductive, PTL

\* The binary search of the stitch runs on a sorted range.
THEOREM ScanSorted == Spec => []SearchedSorted
<1>1. IInv => SearchedSorted
  BY DEF IInv
<1>2. QED
  BY <1>1, Inductive, PTL

\* What one range hands to the next is the serial builder's next record.
THEOREM ScanHandsOver == Spec => []HandoffIsReal
<1>1. IInv => HandoffIsReal
  BY DEF IInv, InStep, HandoffIsReal, NextSerial
<1>2. QED
  BY <1>1, Inductive, PTL

\* The parallel builder implements the serial one: same records, same order.
THEOREM ScanIsSerial == Spec => MatchesSerial
<1>1. Init => Serial!Init
  BY InitIInv
<1>2. IInv /\ [Next]_vars => [Serial!Insert \/ Serial!Finish]_(Serial!serialVars)
  BY NextIInv
<1>3. QED
  BY <1>1, <1>2, Inductive, PTL DEF Spec, MatchesSerial, Serial!Spec
=============================================================================
