------------------------- MODULE SessionWriterProofs -------------------------
(***************************************************************************)
(* Proofs about SessionWriter for any sources, lengths, flush interval and *)
(* numbers of samples and failures.  They look at what has been written to *)
(* a file, on disk or not: it only ever grows, whatever fails, and what is *)
(* on disk is always the beginning of it (Puts, FilesGrow).  On that rest  *)
(* the rows that match their data (MatchInv) and the samples that are all  *)
(* there (RecordedInv, ClosingInv), at most an interval of them buffered   *)
(* (LossInv).  The analysis buffers are what the samples counted so far    *)
(* would leave in them (TailInv).                                          *)
(***************************************************************************)
EXTENDS SessionWriter, SequenceTheorems, FiniteSetTheorems, TLAPS

Data2 == {"raw", "cond"}
IndexOf(d) == IF d = "raw" THEN "index" ELSE "condIndex"
\* The steps of write_sample that write d, and the row for it.
PutAt(d) == IF d = "raw" THEN 2 ELSE 3
RowAt(d) == IF d = "raw" THEN 4 ELSE 5

\* What has been written to f: what is on disk, then what is buffered.
Written(f) == disk[f] \o buf[f]

\* A row points at the bytes of its sample, among those written to d.
Matches(row, d) ==
  /\ row.offset + row.length <= Len(Written(d))
  /\ \A i \in 1..row.length :
       Written(d)[row.offset + i] = [sample |-> row.sample, pos |-> i]

\* The bytes of the sample being written lie at the end of d.
AtEnd(d) ==
  /\ Len(Written(d)) = offset[d] + cur[d]
  /\ \A i \in 1..cur[d] : Written(d)[offset[d] + i] = [sample |-> cur, pos |-> i]

\* Every row matches; and as long as nothing failed, the offset is where the
\* next bytes go.
MatchInv ==
  \A d \in Data2 :
    /\ \A i \in 1..Len(Written(IndexOf(d))) : Matches(Written(IndexOf(d))[i], d)
    /\ mode \in {"idle", "flush"} => Len(Written(d)) = offset[d]
    /\ mode = "write" => IF at > PutAt(d) THEN AtEnd(d)
                         ELSE Len(Written(d)) = offset[d]

\* A sample is written: it is in the CSV, and a row for it that a reader does
\* not skip is in each index.
RowWritten(s, d) ==
  \E i \in 1..Len(Written(IndexOf(d))) :
    /\ Written(IndexOf(d))[i].sample = s
    /\ Written(IndexOf(d))[i].offset + Written(IndexOf(d))[i].length <= Len(Written(d))
CsvWritten(s) == \E i \in 1..Len(Written("csv")) : Written("csv")[i] = s
Recorded(s) == CsvWritten(s) /\ \A d \in Data2 : RowWritten(s, d)

\* How far write_sample has got with cur; what it accepted is written.
RecordedInv ==
  /\ \A d \in Data2 : offset[d] <= Len(Written(d))
  /\ mode = "write" =>
       /\ at > 1 => CsvWritten(cur)
       /\ \A d \in Data2 :
            /\ at > PutAt(d) => offset[d] + cur[d] <= Len(Written(d))
            /\ at > RowAt(d) => RowWritten(cur, d)
  /\ mode = "flush" => Recorded(cur)
  /\ \A i \in 1..Len(accepted) : Recorded(accepted[i])

\* What flush_all and finish have achieved, unless drop ignored an error.
ClosingInv ==
  /\ mode \in {"flush", "finish"} \/ (mode = "drop" /\ failures = 0) =>
       \A j \in 1..5 : j < at => buf[Files[j]] = <<>>
  /\ mode \in {"fields", "gone"} /\ (finished \/ failures = 0) =>
       json = {total} /\ \A f \in FileNames : buf[f] = <<>>
  /\ finished => mode \in {"fields", "gone", "killed"}
  /\ mode # "killed" =>
       total - Len(accepted) - (IF mode = "flush" THEN 1 ELSE 0) \in 0..failures

\* The samples up to the last flush are safe, and the rest are fewer than an
\* interval: a flush comes before their number reaches it.
LossInv ==
  /\ \E m \in 0..Len(accepted) :
       /\ \A i \in 1..m : Safe(accepted[i])
       /\ Len(accepted) - m < FlushInterval
       /\ mode \in {"idle", "write"} => Len(accepted) - m = total % FlushInterval
  /\ mode \in {"idle", "write"} => total = Len(accepted)
  /\ mode = "flush" => total = Len(accepted) + 1 /\ total % FlushInterval = 0
-----------------------------------------------------------------------------
\* The files are five, and each is written at its own step.
LEMMA FilesAre ==
  /\ FileNames = {"csv", "raw", "cond", "index", "condIndex"}
  /\ Done = 6
  /\ \A j \in 1..5 : Files[j] \in FileNames
<1>1. DOMAIN Files = 1..5 /\ Len(Files) = 5
  BY DEF Files
<1>2. /\ Files[1] = "csv" /\ Files[2] = "raw" /\ Files[3] = "cond"
      /\ Files[4] = "index" /\ Files[5] = "condIndex"
  BY DEF Files
<1>3. \A j \in 1..5 : j = 1 \/ j = 2 \/ j = 3 \/ j = 4 \/ j = 5
  OBVIOUS
<1> HIDE DEF Files
<1>4. FileNames = {Files[j] : j \in 1..5}
  BY <1>1 DEF FileNames, ToSet
<1> QED
  BY <1>1, <1>2, <1>3, <1>4 DEF Done

\* t begins with s.
Begins(s, t) == Len(s) <= Len(t) /\ \A i \in 1..Len(s) : t[i] = s[i]

\* Concatenation, element by element.
LEMMA Concat ==
  ASSUME NEW S, NEW s \in Seq(S), NEW t \in Seq(S)
  PROVE  /\ s \o t \in Seq(S) /\ Len(s \o t) = Len(s) + Len(t)
         /\ Begins(s, s \o t)
         /\ \A i \in 1..Len(t) : (s \o t)[Len(s) + i] = t[i]
<1>1. Len(s) \in Nat /\ Len(t) \in Nat
  BY LenProperties
<1>2. \A i \in 1..Len(s) : (s \o t)[i] = s[i]
  BY <1>1, ConcatProperties
<1>3. \A i \in 1..Len(t) : (s \o t)[Len(s) + i] = t[i]
  <2> TAKE i \in 1..Len(t)
  <2>1. Len(s) + i \in 1..Len(s) + Len(t) /\ ~(Len(s) + i <= Len(s)) /\ Len(s) + i - Len(s) = i
    BY <1>1
  <2> QED
    BY <2>1, ConcatProperties
<1> QED
  BY <1>1, <1>2, <1>3, ConcatProperties DEF Begins

\* The first n elements of a sequence and the rest.
LEMMA Split ==
  ASSUME NEW S, NEW s \in Seq(S), NEW n \in 0..Len(s)
  PROVE  /\ SubSeq(s, 1, n) \in Seq(S) /\ Len(SubSeq(s, 1, n)) = n
         /\ \A i \in 1..n : SubSeq(s, 1, n)[i] = s[i]
         /\ SubSeq(s, n + 1, Len(s)) \in Seq(S)
         /\ Len(SubSeq(s, n + 1, Len(s))) = Len(s) - n
         /\ \A i \in 1..(Len(s) - n) : SubSeq(s, n + 1, Len(s))[i] = s[n + i]
         /\ SubSeq(s, 1, n) \o SubSeq(s, n + 1, Len(s)) = s
<1>1. Len(s) \in Nat /\ \A i \in 1..Len(s) : s[i] \in S
  BY LenProperties, ElementOfSeq
<1>2. /\ SubSeq(s, 1, n) \in Seq(S)
      /\ Len(SubSeq(s, 1, n)) = IF 1 <= n THEN n - 1 + 1 ELSE 0
      /\ \A i \in 1..n - 1 + 1 : SubSeq(s, 1, n)[i] = s[1 + i - 1]
  <2>1. \A i \in 1..n : s[i] \in S
    BY <1>1
  <2> QED
    BY <1>1, <2>1, SubSeqProperties
<1>3. /\ SubSeq(s, n + 1, Len(s)) \in Seq(S)
      /\ Len(SubSeq(s, n + 1, Len(s))) =
           IF n + 1 <= Len(s) THEN Len(s) - (n + 1) + 1 ELSE 0
      /\ \A i \in 1..Len(s) - (n + 1) + 1 :
           SubSeq(s, n + 1, Len(s))[i] = s[n + 1 + i - 1]
  <2>1. \A i \in n + 1..Len(s) : s[i] \in S
    BY <1>1
  <2> QED
    BY <1>1, <2>1, SubSeqProperties
<1>4. /\ n - 1 + 1 = n /\ (IF 1 <= n THEN n - 1 + 1 ELSE 0) = n
      /\ (IF n + 1 <= Len(s) THEN Len(s) - (n + 1) + 1 ELSE 0) = Len(s) - n
      /\ Len(s) - (n + 1) + 1 = Len(s) - n
  BY <1>1
<1>5. \A i \in 1..n : 1 + i - 1 = i
  OBVIOUS
<1>6. \A i \in 1..(Len(s) - n) : n + 1 + i - 1 = n + i
  BY <1>1
<1>7. SubSeq(s, 1, n) \o SubSeq(s, n + 1, Len(s)) = s
  <2>1. 1 \in 1..Len(s) + 1 /\ n \in 1 - 1..Len(s) /\ Len(s) \in n..Len(s)
    BY <1>1
  <2>2. SubSeq(s, 1, n) \o SubSeq(s, n + 1, Len(s)) = SubSeq(s, 1, Len(s))
    BY <2>1, ConcatAdjacentSubSeq
  <2> QED
    BY <2>2, SubSeqFull
<1> QED
  BY <1>1, <1>2, <1>3, <1>4, <1>5, <1>6, <1>7

\* The beginning of two sequences put together.
LEMMA ConcatBegin ==
  ASSUME NEW S, NEW s \in Seq(S), NEW t \in Seq(S), NEW n \in 0..Len(s) + Len(t)
  PROVE  SubSeq(s \o t, 1, n) = IF n <= Len(s) THEN SubSeq(s, 1, n)
                                ELSE s \o SubSeq(t, 1, n - Len(s))
<1> DEFINE u == SubSeq(s \o t, 1, n)
           v == IF n <= Len(s) THEN SubSeq(s, 1, n) ELSE s \o SubSeq(t, 1, n - Len(s))
<1>1. Len(s) \in Nat /\ Len(t) \in Nat
  BY LenProperties
<1>2. s \o t \in Seq(S) /\ Len(s \o t) = Len(s) + Len(t) /\ Begins(s, s \o t)
      /\ \A i \in 1..Len(t) : (s \o t)[Len(s) + i] = t[i]
  BY Concat
<1>3. u \in Seq(S) /\ Len(u) = n /\ \A i \in 1..n : u[i] = (s \o t)[i]
  BY <1>1, <1>2, Split
<1>4. CASE n <= Len(s)
  <2>1. v \in Seq(S) /\ Len(v) = n /\ \A i \in 1..n : v[i] = s[i]
    BY <1>1, <1>4, Split
  <2>2. \A i \in 1..n : u[i] = v[i]
    BY <1>1, <1>2, <1>3, <1>4, <2>1 DEF Begins
  <2> HIDE DEF u, v
  <2>3. u = v
    BY <1>3, <2>1, <2>2, SeqEqual
  <2> QED
    BY <2>3 DEF u, v
<1>5. CASE ~(n <= Len(s))
  <2> DEFINE w == SubSeq(t, 1, n - Len(s))
  <2>1. n - Len(s) \in 0..Len(t)
    BY <1>1, <1>5
  <2>2. w \in Seq(S) /\ Len(w) = n - Len(s) /\ \A i \in 1..n - Len(s) : w[i] = t[i]
    BY <2>1, Split
  <2> HIDE DEF w
  <2>3. /\ s \o w \in Seq(S) /\ Len(s \o w) = Len(s) + Len(w)
        /\ \A i \in 1..Len(s) + Len(w) :
             (s \o w)[i] = IF i <= Len(s) THEN s[i] ELSE w[i - Len(s)]
    BY <2>2, ConcatProperties
  <2>4. \A i \in 1..Len(s) + Len(t) :
             (s \o t)[i] = IF i <= Len(s) THEN s[i] ELSE t[i - Len(s)]
    BY ConcatProperties
  <2>5. \A i \in 1..n : u[i] = (s \o w)[i]
    <3> TAKE i \in 1..n
    <3>1. i \in 1..Len(s) + Len(t) /\ i \in 1..Len(s) + Len(w)
          /\ (~(i <= Len(s)) => i - Len(s) \in 1..n - Len(s))
      BY <1>1, <2>2
    <3> QED
      BY <1>3, <2>2, <2>3, <2>4, <3>1
  <2>6. v = s \o w
    BY <1>5 DEF w
  <2> HIDE DEF u, v
  <2>7. u = s \o w
    <3>1. Len(u) = Len(s \o w)
      BY <1>1, <1>3, <2>2, <2>3
    <3> QED
      BY <1>3, <2>3, <2>5, <3>1, SeqEqual
  <2> QED
    BY <2>6, <2>7 DEF u, v
<1> QED
  BY <1>4, <1>5

\* What spilling a buffer b and more data d after s comes to.
SpillsTo(S, s, b, d) ==
  /\ s \o b \in Seq(S) /\ b \o d \in Seq(S) /\ s \o b \o d \in Seq(S)
  /\ s \o (b \o d) = s \o b \o d
  /\ Begins(s, s) /\ Begins(s, s \o b) /\ Begins(s, s \o b \o d)
  /\ s \o b \o <<>> = s \o b /\ s \o b \o d \o <<>> = s \o b \o d

LEMMA Spill ==
  ASSUME NEW S, NEW s \in Seq(S), NEW b \in Seq(S), NEW d \in Seq(S)
  PROVE  SpillsTo(S, s, b, d)
<1>1. s \o b \in Seq(S) /\ Len(s \o b) = Len(s) + Len(b) /\ Begins(s, s \o b)
  BY Concat
<1>2. b \o d \in Seq(S)
  BY Concat
<1> DEFINE u == s \o b
<1> HIDE DEF u
<1>3. u \in Seq(S)
  BY <1>1 DEF u
<1>4. u \o d \in Seq(S) /\ Begins(u, u \o d)
  BY <1>3, Concat
<1>5. s \o (b \o d) = u \o d
  BY ConcatAssociative DEF u
<1>6. Len(s) \in Nat /\ Len(b) \in Nat
  BY LenProperties
<1>7. Begins(s, s)
  BY <1>6 DEF Begins
<1>8. Begins(s, u \o d)
  <2>1. Len(u) = Len(s) + Len(b) /\ \A i \in 1..Len(s) : u[i] = s[i]
    BY <1>1 DEF Begins, u
  <2>2. Len(u \o d) \in Nat /\ Len(u) <= Len(u \o d)
        /\ \A i \in 1..Len(u) : (u \o d)[i] = u[i]
    BY <1>4, LenProperties DEF Begins
  <2>3. \A i \in 1..Len(s) : i \in 1..Len(u)
    BY <1>6, <2>1
  <2> QED
    BY <1>6, <2>1, <2>2, <2>3 DEF Begins
<1>9. u \o <<>> = u /\ u \o d \o <<>> = u \o d
  BY <1>3, <1>4, ConcatEmptySeq
<1> QED
  BY <1>1, <1>2, <1>4, <1>5, <1>7, <1>8, <1>9 DEF u, SpillsTo

-----------------------------------------------------------------------------
(* What a write, a flush or a failure of either does to the files.         *)

\* d is written to f and nothing else: some of it, and of what was buffered,
\* may now be on disk.
Puts(f, d) ==
  /\ DOMAIN disk' = FileNames /\ DOMAIN buf' = FileNames
  /\ disk'[f] \in Seq(Item(f)) /\ buf'[f] \in Seq(Item(f))
  /\ Begins(disk[f], disk'[f])
  /\ Written(f)' = Written(f) \o d
  /\ \A g \in FileNames \ {f} : disk'[g] = disk[g] /\ buf'[g] = buf[g]

\* However the BufWriter divides it, exactly data is written.
LEMMA BufferedPuts ==
  ASSUME TypeOK, NEW f \in FileNames, NEW data \in Seq(Item(f)), Buffered(f, data)
  PROVE  Puts(f, data) /\ UNCHANGED failures
<1>1. /\ DOMAIN disk = FileNames /\ disk[f] \in Seq(Item(f))
      /\ DOMAIN buf = FileNames /\ buf[f] \in Seq(Item(f))
  BY DEF TypeOK
<1> DEFINE S == Item(f)
<1> HIDE DEF S
<1>2. disk[f] \in Seq(S) /\ buf[f] \in Seq(S) /\ data \in Seq(S)
  BY <1>1 DEF S
<1> DEFINE s == disk[f]
           b == buf[f]
<1>3. /\ s \o b \in Seq(S) /\ b \o data \in Seq(S) /\ s \o b \o data \in Seq(S)
      /\ s \o (b \o data) = s \o b \o data
      /\ Begins(s, s) /\ Begins(s, s \o b) /\ Begins(s, s \o b \o data)
      /\ s \o b \o data \o <<>> = s \o b \o data
  <2>1. SpillsTo(S, s, b, data)
    BY <1>2, Spill
  <2> QED
    BY <2>1 DEF SpillsTo
<1>7. CASE buf' = [buf EXCEPT ![f] = @ \o data] /\ UNCHANGED disk
  BY <1>1, <1>2, <1>3, <1>7 DEF Puts, Written, Buffered, S
<1>8. CASE disk' = [disk EXCEPT ![f] = @ \o buf[f]] /\ buf' = [buf EXCEPT ![f] = data]
  BY <1>1, <1>2, <1>3, <1>8 DEF Puts, Written, Buffered, S
<1>9. CASE /\ disk' = [disk EXCEPT ![f] = @ \o buf[f] \o data]
           /\ buf' = [buf EXCEPT ![f] = <<>>]
  <2>1. disk'[f] = disk[f] \o buf[f] \o data /\ buf'[f] = <<>>
    BY <1>1, <1>9
  <2> QED
    BY <1>1, <1>2, <1>3, <1>9, <2>1, EmptySeq DEF Puts, Written, Buffered, S
<1> QED
  BY <1>7, <1>8, <1>9 DEF Buffered

\* A flush writes nothing more and leaves nothing buffered.
LEMMA FlushedPuts ==
  ASSUME TypeOK, NEW f \in FileNames, Flushed(f)
  PROVE  Puts(f, <<>>) /\ buf'[f] = <<>> /\ UNCHANGED failures
<1>1. /\ DOMAIN disk = FileNames /\ disk[f] \in Seq(Item(f))
      /\ DOMAIN buf = FileNames /\ buf[f] \in Seq(Item(f))
  BY DEF TypeOK
<1> DEFINE S == Item(f)
<1> HIDE DEF S
<1>2. disk[f] \in Seq(S) /\ buf[f] \in Seq(S)
  BY <1>1 DEF S
<1>3. disk[f] \o buf[f] \in Seq(S) /\ Begins(disk[f], disk[f] \o buf[f]) /\ <<>> \in Seq(S)
  BY <1>2, Concat, EmptySeq
<1>4. disk[f] \o buf[f] \o <<>> = disk[f] \o buf[f]
  BY <1>3, ConcatEmptySeq
<1>5. disk'[f] = disk[f] \o buf[f] /\ buf'[f] = <<>>
  BY <1>1 DEF Flushed
<1> QED
  BY <1>1, <1>2, <1>3, <1>4, <1>5 DEF Flushed, Puts, Written, S

\* A failure writes a part of data: not the last of it.
LEMMA FailedPuts ==
  ASSUME TypeOK, NEW f \in FileNames, NEW data \in Seq(Item(f)), Failed(f, data)
  PROVE  /\ failures' = failures + 1
         /\ \E n \in 0..Len(data) :
              /\ Puts(f, SubSeq(data, 1, n))
              /\ Len(data) # 0 => n < Len(data)
<1>1. /\ DOMAIN disk = FileNames /\ disk[f] \in Seq(Item(f))
      /\ DOMAIN buf = FileNames /\ buf[f] \in Seq(Item(f))
  BY DEF TypeOK
<1> DEFINE S == Item(f)
           b == buf[f]
<1> HIDE DEF S
<1>2. disk[f] \in Seq(S) /\ b \in Seq(S) /\ data \in Seq(S)
      /\ Len(b) \in Nat /\ Len(data) \in Nat
  BY <1>1, LenProperties DEF S
<1>3. PICK n \in 0..Len(b) + Len(data) :
        /\ n < Len(b) + Len(data)
        /\ disk' = [disk EXCEPT ![f] = @ \o SubSeq(b \o data, 1, n)]
        /\ buf' = [buf EXCEPT ![f] = SubSeq(@, n + 1, Len(@))]
  BY DEF Failed
<1>4. disk'[f] = disk[f] \o SubSeq(b \o data, 1, n) /\ buf'[f] = SubSeq(b, n + 1, Len(b))
  BY <1>1, <1>3
<1>6. CASE n <= Len(b)
  <2> DEFINE p == SubSeq(b, 1, n)
             r == SubSeq(b, n + 1, Len(b))
  <2>1. p \in Seq(S) /\ r \in Seq(S) /\ p \o r = b
    <3>1. n \in 0..Len(b)
      BY <1>2, <1>6
    <3> QED
      BY <1>2, <3>1, Split
  <2>2. SubSeq(b \o data, 1, n) = p
    BY <1>2, <1>6, ConcatBegin
  <2>3. SubSeq(data, 1, 0) = <<>>
    BY SubSeqEmpty
  <2> HIDE DEF p, b
  <2>4. disk'[f] = disk[f] \o p /\ buf'[f] = r
    BY <1>4, <2>2
  <2> HIDE DEF r
  <2>5. /\ disk[f] \o p \in Seq(S) /\ Begins(disk[f], disk[f] \o p)
        /\ disk[f] \o (p \o r) = disk[f] \o p \o r
        /\ disk[f] \o b \o <<>> = disk[f] \o b
    <3>1. SpillsTo(S, disk[f], p, r) /\ SpillsTo(S, disk[f], b, b)
      BY <1>2, <2>1, Spill
    <3> QED
      BY <3>1 DEF SpillsTo
  <2>6. Written(f)' = Written(f) \o <<>>
    BY <2>1, <2>4, <2>5 DEF Written, b
  <2>7. Puts(f, SubSeq(data, 1, 0))
    BY <1>1, <1>3, <2>1, <2>3, <2>4, <2>5, <2>6 DEF Puts, S
  <2> QED
    BY <1>2, <2>7 DEF Failed
<1>7. CASE ~(n <= Len(b))
  <2> DEFINE k == n - Len(b)
             d == SubSeq(data, 1, k)
  <2>1. k \in 0..Len(data) /\ k < Len(data)
    BY <1>2, <1>3, <1>7
  <2>2. d \in Seq(S)
    BY <1>2, <2>1, Split
  <2>3. SubSeq(b \o data, 1, n) = b \o d
    BY <1>2, <1>7, ConcatBegin
  <2>4. SubSeq(b, n + 1, Len(b)) = <<>>
    BY <1>2, <1>7, SubSeqEmpty
  <2> HIDE DEF k, d, b
  <2>5. disk'[f] = disk[f] \o (b \o d) /\ buf'[f] = <<>>
    BY <1>4, <2>3, <2>4
  <2>6. /\ disk[f] \o b \o d \in Seq(S) /\ disk[f] \o (b \o d) = disk[f] \o b \o d
        /\ Begins(disk[f], disk[f] \o b \o d)
        /\ disk[f] \o b \o d \o <<>> = disk[f] \o b \o d
    <3>1. SpillsTo(S, disk[f], b, d)
      BY <1>2, <2>2, Spill
    <3> QED
      BY <3>1 DEF SpillsTo
  <2>7. Written(f)' = Written(f) \o d
    BY <2>5, <2>6 DEF Written, b
  <2>8. Puts(f, d)
    BY <1>1, <1>3, <2>5, <2>6, <2>7, EmptySeq DEF Puts, S
  <2> QED
    BY <2>1, <2>8 DEF Failed, d
<1> QED
  BY <1>6, <1>7

\* A flush that fails finds something buffered, and writes nothing more.
LEMMA FlushFailedPuts ==
  ASSUME TypeOK, NEW f \in FileNames, Failed(f, <<>>)
  PROVE  Puts(f, <<>>) /\ failures' = failures + 1 /\ buf[f] # <<>>
<1>1. <<>> \in Seq(Item(f)) /\ Len(<<>>) = 0
  BY EmptySeq
<1>2. PICK n \in 0..Len(<<>>) : Puts(f, SubSeq(<<>>, 1, n))
  BY <1>1, FailedPuts
<1>3. n = 0
  BY <1>1
<1>4. SubSeq(<<>>, 1, 0) = <<>>
  BY SubSeqEmpty
<1>5. buf[f] # <<>>
  BY <1>1 DEF Failed
<1> QED
  BY <1>1, <1>2, <1>3, <1>4, <1>5, FailedPuts

\* Nothing on disk or written is ever taken back.
Grow ==
  \A g \in FileNames : Begins(disk[g], disk'[g]) /\ Begins(Written(g), Written(g)')

FilesTyped ==
  /\ DOMAIN disk = FileNames /\ \A f \in FileNames : disk[f] \in Seq(Item(f))
  /\ DOMAIN buf = FileNames /\ \A f \in FileNames : buf[f] \in Seq(Item(f))

LEMMA WrittenType ==
  ASSUME FilesTyped
  PROVE  \A f \in FileNames : Written(f) \in Seq(Item(f)) /\ Begins(disk[f], Written(f))
                              /\ (buf[f] = <<>> => Written(f) = disk[f])
<1> TAKE f \in FileNames
<1>1. disk[f] \in Seq(Item(f)) /\ buf[f] \in Seq(Item(f))
  BY DEF FilesTyped
<1> DEFINE S == Item(f)
<1> HIDE DEF S
<1>2. disk[f] \o buf[f] \in Seq(S) /\ Begins(disk[f], disk[f] \o buf[f])
  BY <1>1, Concat DEF S
<1>3. disk[f] \o <<>> = disk[f]
  BY <1>1, ConcatEmptySeq
<1> QED
  BY <1>2, <1>3 DEF Written, S

LEMMA WrittenTypeNext ==
  ASSUME FilesTyped'
  PROVE  \A f \in FileNames : Written(f)' \in Seq(Item(f)) /\ Begins(disk'[f], Written(f)')
                              /\ (buf'[f] = <<>> => Written(f)' = disk'[f])
<1> TAKE f \in FileNames
<1>1. disk'[f] \in Seq(Item(f)) /\ buf'[f] \in Seq(Item(f))
  BY DEF FilesTyped
<1> DEFINE S == Item(f)
<1> HIDE DEF S
<1>2. disk'[f] \o buf'[f] \in Seq(S) /\ Begins(disk'[f], disk'[f] \o buf'[f])
  BY <1>1, Concat DEF S
<1>3. disk'[f] \o <<>> = disk'[f]
  BY <1>1, ConcatEmptySeq
<1> QED
  BY <1>2, <1>3 DEF Written, S

LEMMA BeginsItself ==
  ASSUME NEW S, NEW s \in Seq(S)
  PROVE  Begins(s, s)
BY LenProperties DEF Begins

LEMMA PutsGrow ==
  ASSUME FilesTyped, NEW f \in FileNames, NEW d \in Seq(Item(f)), Puts(f, d)
  PROVE  FilesTyped' /\ Grow
<1>1. FilesTyped'
  BY DEF FilesTyped, Puts
<1>2. ASSUME NEW g \in FileNames
      PROVE  Begins(disk[g], disk'[g]) /\ Begins(Written(g), Written(g)')
  <2>1. disk[g] \in Seq(Item(g)) /\ Written(g) \in Seq(Item(g))
    BY WrittenType DEF FilesTyped
  <2>2. CASE g # f
    <3>1. disk'[g] = disk[g] /\ Written(g)' = Written(g)
      BY <2>2 DEF Puts, Written
    <3> QED
      BY <2>1, <3>1, BeginsItself
  <2>3. CASE g = f
    <3> DEFINE S == Item(f)
    <3> HIDE DEF S
    <3>1. Written(f) \in Seq(S) /\ d \in Seq(S)
      BY <2>1, <2>3 DEF S
    <3>2. Begins(Written(f), Written(f) \o d)
      BY <3>1, Concat
    <3> QED
      BY <2>3, <3>2 DEF Puts
  <2> QED
    BY <2>2, <2>3
<1> QED
  BY <1>1, <1>2 DEF Grow

LEMMA KeptGrow ==
  ASSUME FilesTyped, UNCHANGED <<disk, buf>>
  PROVE  FilesTyped' /\ Grow
<1>1. \A g \in FileNames : Begins(disk[g], disk[g]) /\ Begins(Written(g), Written(g))
  <2> TAKE g \in FileNames
  <2>1. disk[g] \in Seq(Item(g)) /\ Written(g) \in Seq(Item(g))
    BY WrittenType DEF FilesTyped
  <2> QED
    BY <2>1, BeginsItself
<1>2. \A g \in FileNames : Written(g)' = Written(g)
  BY DEF Written
<1> QED
  BY <1>1, <1>2 DEF FilesTyped, Grow

\* What write_sample writes is what the files are made of.
LEMMA DataType ==
  ASSUME TypeOK, mode = "write", NEW f \in FileNames
  PROVE  Data(f) \in Seq(Item(f)) /\ (f # "raw" /\ f # "cond" => Len(Data(f)) = 1)
<1>1. cur \in Samples /\ cur.raw \in Nat /\ cur.cond \in Nat
  <2>1. cur \in Samples
    BY DEF TypeOK
  <2> QED
    BY <2>1, SessionConstants DEF Samples
<1>2. offset["raw"] \in Nat /\ offset["cond"] \in Nat
  BY DEF TypeOK
<1>3. \A S, x : x \in S => <<x>> \in Seq(S) /\ Len(<<x>>) = 1
  OBVIOUS
<1>4. \A n \in Nat : Bytes(cur, n) \in Seq([sample : Samples, pos : Nat])
  BY <1>1 DEF Bytes
<1>5. CASE f = "csv"
  BY <1>1, <1>3, <1>5 DEF Data, Item
<1>6. CASE f = "raw"
  BY <1>1, <1>4, <1>6 DEF Data, Item
<1>7. CASE f = "cond"
  BY <1>1, <1>4, <1>7 DEF Data, Item
<1>8. CASE f = "index"
  <2>1. [offset |-> offset["raw"], length |-> cur.raw, sample |-> cur] \in Item(f)
    BY <1>1, <1>2, <1>8 DEF Item
  <2> QED
    BY <1>3, <1>8, <2>1 DEF Data
<1>9. CASE f = "condIndex"
  <2>1. [offset |-> offset["cond"], length |-> cur.cond, sample |-> cur] \in Item(f)
    BY <1>1, <1>2, <1>9 DEF Item
  <2> QED
    BY <1>3, <1>9, <2>1 DEF Data
<1> QED
  BY <1>5, <1>6, <1>7, <1>8, <1>9, FilesAre

-----------------------------------------------------------------------------
\* A step writes to one file or to none.
FileStep ==
  \/ UNCHANGED <<disk, buf>>
  \/ \E f \in FileNames : \E d \in Seq(Item(f)) : Puts(f, d)

\* What the writing and flushing actions do to the file they are at.
LEMMA PutNextPuts ==
  ASSUME TypeOK, PutNext
  PROVE  /\ Files[at] \in FileNames /\ UNCHANGED failures
         /\ \A f \in FileNames : f = Files[at] =>
              Data(f) \in Seq(Item(f)) /\ Puts(f, Data(f))
<1>1. at \in 1..5 /\ mode = "write" /\ Buffered(Files[at], Data(Files[at]))
  BY FilesAre DEF PutNext, TypeOK
<1>2. Files[at] \in FileNames
  BY <1>1, FilesAre
<1>3. ASSUME NEW f \in FileNames, f = Files[at]
      PROVE  Data(f) \in Seq(Item(f)) /\ Puts(f, Data(f)) /\ UNCHANGED failures
  <2>1. Buffered(f, Data(f))
    BY <1>1, <1>3
  <2> QED
    BY <1>1, <2>1, DataType, BufferedPuts
<1> QED
  BY <1>2, <1>3

LEMMA PutFailsPuts ==
  ASSUME TypeOK, PutFails
  PROVE  /\ failures' = failures + 1
         /\ \E f \in FileNames : \E d \in Seq(Item(f)) :
              Puts(f, d) /\ (f \notin {"raw", "cond"} => d = <<>>)
<1>1. at \in 1..5 /\ mode = "write" /\ Failed(Files[at], Data(Files[at]))
  BY FilesAre DEF PutFails, TypeOK
<1>2. PICK f \in FileNames : f = Files[at]
  BY <1>1, FilesAre
<1> DEFINE data == Data(f)
<1>3. data \in Seq(Item(f)) /\ (f # "raw" /\ f # "cond" => Len(data) = 1) /\ Failed(f, data)
  BY <1>1, <1>2, DataType
<1> HIDE DEF data
<1>4. failures' = failures + 1
  BY <1>3, FailedPuts
<1>5. PICK n \in 0..Len(data) : Puts(f, SubSeq(data, 1, n)) /\ (Len(data) # 0 => n < Len(data))
  BY <1>3, FailedPuts
<1>6. SubSeq(data, 1, n) \in Seq(Item(f))
  BY <1>3, <1>5, Split
<1>7. f \notin {"raw", "cond"} => SubSeq(data, 1, n) = <<>>
  <2>1. ASSUME Len(data) = 1 PROVE n = 0
    <3>1. n \in 0..1 /\ n < 1
      BY <1>5, <2>1
    <3> QED
      BY <3>1
  <2>2. SubSeq(data, 1, 0) = <<>>
    BY SubSeqEmpty
  <2> QED
    BY <1>3, <2>1, <2>2
<1> QED
  BY <1>4, <1>5, <1>6, <1>7

LEMMA FlushNextPuts ==
  ASSUME TypeOK, FlushNext
  PROVE  /\ Files[at] \in FileNames /\ UNCHANGED failures
         /\ \A f \in FileNames : f = Files[at] => Puts(f, <<>>) /\ buf'[f] = <<>>
<1>1. at \in 1..5 /\ Flushed(Files[at])
  BY FilesAre DEF FlushNext, TypeOK
<1>2. Files[at] \in FileNames
  BY <1>1, FilesAre
<1>3. ASSUME NEW f \in FileNames, f = Files[at]
      PROVE  Puts(f, <<>>) /\ buf'[f] = <<>> /\ UNCHANGED failures
  BY <1>1, <1>3, FlushedPuts
<1> QED
  BY <1>2, <1>3

LEMMA FlushFailsPuts ==
  ASSUME TypeOK, FlushFails
  PROVE  /\ Files[at] \in FileNames /\ failures' = failures + 1
         /\ \A f \in FileNames : f = Files[at] => Puts(f, <<>>)
<1>1. at \in 1..5 /\ Failed(Files[at], <<>>)
  BY FilesAre DEF FlushFails, TypeOK
<1>2. Files[at] \in FileNames
  BY <1>1, FilesAre
<1>3. ASSUME NEW f \in FileNames, f = Files[at]
      PROVE  Puts(f, <<>>) /\ failures' = failures + 1
  BY <1>1, <1>3, FlushFailedPuts
<1> QED
  BY <1>2, <1>3

LEMMA DropFieldPuts ==
  ASSUME TypeOK, DropField
  PROVE  /\ Files[at] \in FileNames
         /\ \A f \in FileNames : f = Files[at] =>
              /\ Puts(f, <<>>)
              /\ \/ buf'[f] = <<>> /\ UNCHANGED failures
                 \/ buf[f] # <<>> /\ failures' = failures + 1
<1>1. at \in 1..5 /\ (Flushed(Files[at]) \/ Failed(Files[at], <<>>))
  BY FilesAre DEF DropField, TypeOK
<1>2. Files[at] \in FileNames
  BY <1>1, FilesAre
<1>3. ASSUME NEW f \in FileNames, f = Files[at]
      PROVE  /\ Puts(f, <<>>)
             /\ \/ buf'[f] = <<>> /\ UNCHANGED failures
                \/ buf[f] # <<>> /\ failures' = failures + 1
  BY <1>1, <1>3, FlushedPuts, FlushFailedPuts
<1> QED
  BY <1>2, <1>3

\* Every step keeps what is on disk and what was written.
LEMMA FilesGrow ==
  ASSUME TypeOK, [Next]_vars
  PROVE  FilesTyped' /\ Grow
<1>0. FilesTyped
  BY DEF TypeOK, FilesTyped
<1>1. \A f \in FileNames : <<>> \in Seq(Item(f))
  BY EmptySeq
<1>2. FileStep
  <2>1. CASE PutNext
    BY <2>1, PutNextPuts DEF FileStep
  <2>2. CASE PutFails
    BY <2>2, PutFailsPuts DEF FileStep
  <2>3. CASE FlushNext
    BY <1>1, <2>3, FlushNextPuts DEF FileStep
  <2>4. CASE FlushFails
    BY <1>1, <2>4, FlushFailsPuts DEF FileStep
  <2>5. CASE DropField
    BY <1>1, <2>5, DropFieldPuts DEF FileStep
  <2>6. ASSUME NEW s \in Undeclared, Refuse(s) PROVE FileStep
    BY <2>6 DEF Refuse, FileStep
  <2>7. ASSUME NEW s \in Declared, NEW r \in RawLens, NEW k \in CondLens, WriteSample(s, r, k)
        PROVE  FileStep
    BY <2>7 DEF WriteSample, FileStep
  <2>8. CASE Count
    BY <2>8 DEF Count, FileStep
  <2>9. CASE SampleFlushed
    BY <2>9 DEF SampleFlushed, FileStep
  <2>10. CASE Finish \/ Drop
    BY <2>10 DEF Finish, Drop, FileStep
  <2>11. CASE WriteJson \/ WriteJsonFails
    BY <2>11 DEF WriteJson, WriteJsonFails, FileStep
  <2>12. CASE Closed \/ Kill
    BY <2>12 DEF Closed, Kill, FileStep
  <2>13. CASE UNCHANGED vars
    BY <2>13 DEF vars, FileStep
  <2> QED
    BY <2>1, <2>2, <2>3, <2>4, <2>5, <2>6, <2>7, <2>8, <2>9, <2>10, <2>11,
       <2>12, <2>13 DEF Next
<1> QED
  BY <1>0, <1>2, PutsGrow, KeptGrow DEF FileStep

-----------------------------------------------------------------------------
\* AnalysisBuffer::push never keeps more than its capacity.
LEMMA PushedType ==
  ASSUME NEW S, NEW old \in Seq(S), NEW new \in Seq(S), Len(old) <= AnalysisCap
  PROVE  Pushed(old, new) \in Seq(S) /\ Len(Pushed(old, new)) <= AnalysisCap
<1>1. AnalysisCap \in Nat /\ Len(old) \in Nat /\ Len(new) \in Nat
  BY SessionConstants, LenProperties
<1>2. CASE Len(new) >= AnalysisCap
  <2> DEFINE n == Len(new) - AnalysisCap
  <2>1. n \in 0..Len(new) /\ Len(new) - n = AnalysisCap
    BY <1>1, <1>2
  <2>2. Pushed(old, new) = SubSeq(new, n + 1, Len(new))
    BY <1>2 DEF Pushed
  <2> HIDE DEF n
  <2>3. SubSeq(new, n + 1, Len(new)) \in Seq(S) /\ Len(SubSeq(new, n + 1, Len(new))) = Len(new) - n
    BY <2>1, Split
  <2> QED
    BY <1>1, <2>1, <2>2, <2>3
<1>3. CASE ~(Len(new) >= AnalysisCap)
  <2> DEFINE overflow == Len(old) + Len(new)
             drop == IF overflow > AnalysisCap THEN overflow - AnalysisCap ELSE 0
  <2>1. drop \in 0..Len(old) /\ Len(old) - drop + Len(new) <= AnalysisCap
    BY <1>1, <1>3
  <2>2. Pushed(old, new) = SubSeq(old, drop + 1, Len(old)) \o new
    BY <1>3 DEF Pushed
  <2> HIDE DEF drop
  <2> DEFINE kept == SubSeq(old, drop + 1, Len(old))
  <2>3. kept \in Seq(S) /\ Len(kept) = Len(old) - drop
    BY <2>1, Split
  <2> HIDE DEF kept
  <2>4. kept \o new \in Seq(S) /\ Len(kept \o new) = Len(kept) + Len(new)
    BY <2>3, ConcatProperties
  <2> QED
    BY <1>1, <2>1, <2>2, <2>3, <2>4 DEF kept
<1> QED
  BY <1>2, <1>3

\* The variables other than the files keep their types.
RestTyped ==
  /\ offset \in [{"raw", "cond"} -> Nat] /\ total \in Nat
  /\ counts \in [Declared -> Nat]
  /\ DOMAIN tail = Declared
  /\ \A s \in Declared : tail[s] \in Seq(Item("raw")) /\ Len(tail[s]) <= AnalysisCap
  /\ json \subseteq Nat /\ Cardinality(json) <= 1
  /\ finished \in BOOLEAN
ControlTyped ==
  /\ mode \in Modes /\ at \in 1..Done
  /\ cur \in Samples \cup {NoSample} /\ (mode \in {"write", "flush"} => cur \in Samples)
  /\ accepted \in Seq(Samples)
  /\ started \in 0..MaxSamples /\ failures \in 0..MaxFailures

LEMMA TypedParts == TypeOK <=> FilesTyped /\ RestTyped /\ ControlTyped
BY DEF TypeOK, FilesTyped, RestTyped, ControlTyped

LEMMA RestStep ==
  ASSUME TypeOK, [Next]_vars
  PROVE  RestTyped'
<1> DEFINE rest == <<offset, total, counts, tail, json, finished>>
<1>0. RestTyped
  BY TypedParts
<1>1. CASE UNCHANGED rest
  BY <1>0, <1>1 DEF RestTyped
<1>2. CASE Count
  <2>1. /\ cur \in Samples
        /\ cur.raw \in Nat /\ cur.cond \in Nat /\ cur.source \in Declared
    <3>1. cur \in Samples
      BY <1>2 DEF TypeOK, Count
    <3> QED
      BY <3>1, SessionConstants DEF Samples
  <2>2. Bytes(cur, cur.raw) \in Seq(Item("raw"))
    <3>1. \A n \in Nat : Bytes(cur, n) \in Seq([sample : Samples, pos : Nat])
      BY <2>1 DEF Bytes
    <3> QED
      BY <2>1, <3>1 DEF Item
  <2>3. offset' \in [{"raw", "cond"} -> Nat] /\ total' \in Nat /\ counts' \in [Declared -> Nat]
    BY <1>0, <1>2, <2>1 DEF RestTyped, Count
  <2>4. DOMAIN tail' = Declared
    BY <1>0, <1>2 DEF RestTyped, Count
  <2>5. ASSUME NEW s \in Declared
        PROVE  tail'[s] \in Seq(Item("raw")) /\ Len(tail'[s]) <= AnalysisCap
    <3>1. tail[s] \in Seq(Item("raw")) /\ Len(tail[s]) <= AnalysisCap
      BY <1>0 DEF RestTyped
    <3>2. tail'[s] = IF s = cur.source THEN Pushed(tail[s], Bytes(cur, cur.raw)) ELSE tail[s]
      BY <1>0, <1>2 DEF RestTyped, Count
    <3> QED
      BY <2>2, <3>1, <3>2, PushedType
  <2> QED
    BY <1>0, <1>2, <2>3, <2>4, <2>5 DEF RestTyped, Count
<1>3. CASE WriteJson \/ WriteJsonFails
  <2>1. Cardinality({}) = 0 /\ Cardinality({total}) = 1
    BY FS_EmptySet, FS_Singleton, Zenon
  <2>2. json' = {} \/ json' = {total}
    BY <1>3 DEF WriteJson, WriteJsonFails
  <2>3. json' \subseteq Nat /\ Cardinality(json') <= 1
    <3>1. Cardinality(json') \in {0, 1}
      BY <2>1, <2>2
    <3>2. json' \subseteq Nat
      BY <1>0, <2>2 DEF RestTyped
    <3> QED
      BY <3>1, <3>2
  <2>4. finished' \in BOOLEAN
    BY <1>0, <1>3 DEF RestTyped, WriteJson, WriteJsonFails
  <2> QED
    BY <1>0, <1>3, <2>3, <2>4 DEF RestTyped, WriteJson, WriteJsonFails
<1>4. ASSUME NEW s \in Undeclared, Refuse(s) PROVE UNCHANGED rest
  BY <1>4 DEF Refuse
<1>5. ASSUME NEW s \in Declared, NEW r \in RawLens, NEW k \in CondLens, WriteSample(s, r, k)
      PROVE  UNCHANGED rest
  BY <1>5 DEF WriteSample
<1>6. CASE PutNext \/ PutFails \/ FlushNext \/ FlushFails \/ SampleFlushed \/ Finish
           \/ Drop \/ DropField \/ Closed \/ Kill
  BY <1>1, <1>6 DEF PutNext, PutFails, FlushNext, FlushFails, SampleFlushed, Finish,
     Drop, DropField, Closed, Kill
<1>7. CASE UNCHANGED vars
  BY <1>1, <1>7 DEF vars
<1> QED
  BY <1>1, <1>2, <1>3, <1>4, <1>5, <1>6, <1>7 DEF Next

LEMMA ControlStep ==
  ASSUME TypeOK, [Next]_vars
  PROVE  ControlTyped'
<1>0. ControlTyped /\ Done = 6
  BY TypedParts, FilesAre
<1>1. MaxSamples \in Nat /\ MaxFailures \in Nat
  BY SessionConstants
<1> USE <1>0, <1>1 DEF ControlTyped, Modes, NoSample, Erred
<1>2. ASSUME NEW s \in Undeclared, Refuse(s) PROVE ControlTyped'
  BY <1>2 DEF Refuse
<1>3. ASSUME NEW s \in Declared, NEW r \in RawLens, NEW k \in CondLens, WriteSample(s, r, k)
      PROVE  ControlTyped'
  <2>1. started' \in 0..MaxSamples /\ started' \in Nat
    BY <1>3 DEF WriteSample
  <2>2. cur' \in Samples
    BY <1>3, <2>1 DEF WriteSample, Samples
  <2> QED
    BY <1>3, <2>1, <2>2 DEF WriteSample
<1>4. CASE PutNext
  BY <1>4, PutNextPuts DEF PutNext
<1>5. CASE PutFails
  <2>1. failures' \in 0..MaxFailures
    BY <1>5 DEF PutFails, Failed
  <2> QED
    BY <1>5, <2>1 DEF PutFails
<1>6. CASE Count
  <2>1. cur \in Samples
    BY <1>6 DEF Count
  <2>2. Append(accepted, cur) \in Seq(Samples)
    BY <2>1, AppendProperties
  <2>3. \/ mode' = "flush" /\ at' = 1 /\ UNCHANGED <<cur, accepted>>
        \/ mode' = "idle" /\ at' = 1 /\ cur' = NoSample /\ accepted' = Append(accepted, cur)
    BY <1>6 DEF Count
  <2>4. UNCHANGED <<started, failures>>
    BY <1>6 DEF Count
  <2> QED
    BY <2>1, <2>2, <2>3, <2>4
<1>7. CASE FlushNext
  BY <1>7, FlushNextPuts DEF FlushNext
<1>8. CASE FlushFails
  <2>1. failures' \in 0..MaxFailures
    BY <1>8 DEF FlushFails, Failed
  <2>2. UNCHANGED <<accepted, started>>
    BY <1>8 DEF FlushFails
  <2>3. \/ mode' \in {"finish", "drop", "idle"} /\ at' = 1 /\ cur' = NoSample
        \/ mode' = "drop" /\ at' = 1 /\ UNCHANGED cur
        \/ mode' = "drop" /\ at' = Done /\ UNCHANGED cur
    <3>1. CASE mode = "flush"
      BY <1>8, <3>1 DEF FlushFails
    <3>2. CASE mode = "finish"
      BY <1>8, <3>2 DEF FlushFails
    <3>3. CASE mode = "drop"
      BY <1>8, <3>3 DEF FlushFails
    <3> QED
      BY <1>8, <3>1, <3>2, <3>3 DEF FlushFails
  <2> QED
    BY <2>1, <2>2, <2>3
<1>9. CASE SampleFlushed
  <2>1. Append(accepted, cur) \in Seq(Samples)
    BY <1>9, AppendProperties DEF SampleFlushed
  <2> QED
    BY <1>9, <2>1 DEF SampleFlushed
<1>10. CASE Finish \/ Drop \/ WriteJson \/ WriteJsonFails
  BY <1>10 DEF Finish, Drop, WriteJson, WriteJsonFails
<1>11. CASE DropField
  <2>1. failures' \in 0..MaxFailures
    <3>1. CASE Flushed(Files[at])
      BY <3>1 DEF Flushed
    <3>2. CASE Failed(Files[at], <<>>)
      BY <3>2 DEF Failed
    <3> QED
      BY <1>11, <3>1, <3>2 DEF DropField
  <2> QED
    BY <1>11, <2>1 DEF DropField
<1>12. CASE Closed \/ Kill
  BY <1>12 DEF Closed, Kill
<1>13. CASE UNCHANGED vars
  BY <1>13 DEF vars
<1> QED
  BY <1>2, <1>3, <1>4, <1>5, <1>6, <1>7, <1>8, <1>9, <1>10, <1>11, <1>12, <1>13 DEF Next

(* The writer's variables keep their types: what is in each file is what     *)
(* belongs there, the analysis buffers stay within their capacity, and a     *)
(* sample is at hand while one is written or flushed.                        *)
THEOREM SessionTypeCorrect == Spec => []TypeOK
<1>1. Init => TypeOK
  <2> SUFFICES ASSUME Init PROVE TypeOK
    OBVIOUS
  <2>1. FilesTyped
    BY EmptySeq DEF Init, FilesTyped
  <2>2. RestTyped
    <3>1. <<>> \in Seq(Item("raw")) /\ Len(<<>>) <= AnalysisCap
      BY EmptySeq, SessionConstants
    <3>2. Cardinality({}) = 0
      BY FS_EmptySet
    <3>3. /\ offset \in [{"raw", "cond"} -> Nat] /\ total \in Nat
          /\ counts \in [Declared -> Nat] /\ DOMAIN tail = Declared
          /\ finished \in BOOLEAN
      BY DEF Init
    <3>4. \A s \in Declared : tail[s] \in Seq(Item("raw")) /\ Len(tail[s]) <= AnalysisCap
      BY <3>1 DEF Init
    <3>5. json \subseteq Nat /\ Cardinality(json) <= 1
      BY <3>2 DEF Init
    <3> QED
      BY <3>3, <3>4, <3>5 DEF RestTyped
  <2>3. ControlTyped
    BY EmptySeq, FilesAre, SessionConstants DEF Init, ControlTyped, Modes
  <2> QED
    BY <2>1, <2>2, <2>3, TypedParts
<1>2. TypeOK /\ [Next]_vars => TypeOK'
  <2> SUFFICES ASSUME TypeOK, [Next]_vars PROVE TypeOK'
    OBVIOUS
  <2>1. FilesTyped' /\ RestTyped' /\ ControlTyped'
    BY FilesGrow, RestStep, ControlStep
  <2> QED
    BY <2>1 DEF TypeOK, FilesTyped, RestTyped, ControlTyped
<1> QED
  BY <1>1, <1>2, PTL DEF Spec

-----------------------------------------------------------------------------
(* Rows and the bytes they point at.                                       *)

RowsMatch(d) == \A i \in 1..Len(Written(IndexOf(d))) : Matches(Written(IndexOf(d))[i], d)

\* Each data file has its step and its index, and the row for its bytes.
LEMMA Places ==
  ASSUME NEW d \in Data2
  PROVE  /\ d \in FileNames /\ IndexOf(d) \in FileNames
         /\ PutAt(d) \in 1..5 /\ RowAt(d) \in 1..5 /\ PutAt(d) < RowAt(d) /\ 1 < PutAt(d)
         /\ \A j \in 1..5 : (Files[j] = d <=> j = PutAt(d))
                            /\ (Files[j] = IndexOf(d) <=> j = RowAt(d))
         /\ Data(d) = Bytes(cur, cur[d])
         /\ Data(IndexOf(d)) = <<[offset |-> offset[d], length |-> cur[d], sample |-> cur]>>
         /\ Item(d) = [sample : Samples, pos : Nat]
         /\ Item(IndexOf(d)) = [offset : Nat, length : Nat, sample : Samples]
<1>1. /\ Files[1] = "csv" /\ Files[2] = "raw" /\ Files[3] = "cond"
      /\ Files[4] = "index" /\ Files[5] = "condIndex"
  BY DEF Files
<1>2. \A j \in 1..5 : j = 1 \/ j = 2 \/ j = 3 \/ j = 4 \/ j = 5
  OBVIOUS
<1> HIDE DEF Files
<1>3. CASE d = "raw"
  <2>1. IndexOf(d) = "index" /\ PutAt(d) = 2 /\ RowAt(d) = 4
    BY <1>3 DEF IndexOf, PutAt, RowAt
  <2>2. \A j \in 1..5 : (Files[j] = d <=> j = 2) /\ (Files[j] = "index" <=> j = 4)
    BY <1>1, <1>2, <1>3
  <2>3. Data(d) = Bytes(cur, cur[d])
    BY <1>3 DEF Data
  <2>4. Data("index") = <<[offset |-> offset[d], length |-> cur[d], sample |-> cur]>>
    BY <1>3 DEF Data
  <2>5. /\ Item(d) = [sample : Samples, pos : Nat]
        /\ Item("index") = [offset : Nat, length : Nat, sample : Samples]
    BY <1>3 DEF Item
  <2>6. d \in FileNames /\ IndexOf(d) \in FileNames
    BY <1>3, <2>1, FilesAre
  <2>7. /\ PutAt(d) \in 1..5 /\ RowAt(d) \in 1..5
        /\ PutAt(d) < RowAt(d) /\ 1 < PutAt(d)
    BY <2>1
  <2>8. \A j \in 1..5 : (Files[j] = d <=> j = PutAt(d))
                         /\ (Files[j] = IndexOf(d) <=> j = RowAt(d))
    BY <2>1, <2>2
  <2> HIDE DEF Data, Item
  <2> QED
    BY <2>1, <2>3, <2>4, <2>5, <2>6, <2>7, <2>8, Zenon
<1>4. CASE d = "cond"
  <2>1. IndexOf(d) = "condIndex" /\ PutAt(d) = 3 /\ RowAt(d) = 5
    BY <1>4 DEF IndexOf, PutAt, RowAt
  <2>2. \A j \in 1..5 : (Files[j] = d <=> j = 3) /\ (Files[j] = "condIndex" <=> j = 5)
    BY <1>1, <1>2, <1>4
  <2>3. Data(d) = Bytes(cur, cur[d])
    BY <1>4 DEF Data
  <2>4. Data("condIndex") = <<[offset |-> offset[d], length |-> cur[d], sample |-> cur]>>
    BY <1>4 DEF Data
  <2>5. /\ Item(d) = [sample : Samples, pos : Nat]
        /\ Item("condIndex") = [offset : Nat, length : Nat, sample : Samples]
    BY <1>4 DEF Item
  <2>6. d \in FileNames /\ IndexOf(d) \in FileNames
    BY <1>4, <2>1, FilesAre
  <2>7. /\ PutAt(d) \in 1..5 /\ RowAt(d) \in 1..5
        /\ PutAt(d) < RowAt(d) /\ 1 < PutAt(d)
    BY <2>1
  <2>8. \A j \in 1..5 : (Files[j] = d <=> j = PutAt(d))
                         /\ (Files[j] = IndexOf(d) <=> j = RowAt(d))
    BY <2>1, <2>2
  <2> HIDE DEF Data, Item
  <2> QED
    BY <2>1, <2>3, <2>4, <2>5, <2>6, <2>7, <2>8, Zenon
<1> QED
  BY <1>3, <1>4 DEF Data2

\* A row that matches goes on matching, whatever is written after.
LEMMA MatchesKept ==
  ASSUME Grow, FilesTyped, NEW d \in Data2,
         NEW row \in [offset : Nat, length : Nat, sample : Samples], Matches(row, d)
  PROVE  Matches(row, d)'
<1>1. d \in FileNames
  BY Places
<1>2. Len(Written(d)) \in Nat
  BY <1>1, WrittenType, LenProperties
<1>3. /\ Len(Written(d)) <= Len(Written(d)')
      /\ \A i \in 1..Len(Written(d)) : Written(d)'[i] = Written(d)[i]
  BY <1>1 DEF Grow, Begins
<1>4. row.offset \in Nat /\ row.length \in Nat
  OBVIOUS
<1>5. \A i \in 1..row.length : row.offset + i \in 1..Len(Written(d))
  BY <1>2, <1>4 DEF Matches
<1> QED
  BY <1>2, <1>3, <1>4, <1>5 DEF Matches

\* So do all rows of an index to which nothing is written.
LEMMA RowsKept ==
  ASSUME Grow, FilesTyped, NEW d \in Data2, RowsMatch(d),
         Written(IndexOf(d))' = Written(IndexOf(d))
  PROVE  RowsMatch(d)'
<1>1. Written(IndexOf(d)) \in Seq([offset : Nat, length : Nat, sample : Samples])
  <2>1. Written(IndexOf(d)) \in Seq(Item(IndexOf(d)))
    BY Places, WrittenType
  <2> QED
    BY <2>1, Places
<1>2. \A i \in 1..Len(Written(IndexOf(d))) :
        /\ Written(IndexOf(d))[i] \in [offset : Nat, length : Nat, sample : Samples]
        /\ Matches(Written(IndexOf(d))[i], d)
  BY <1>1, ElementOfSeq DEF RowsMatch
<1>3. \A x \in [offset : Nat, length : Nat, sample : Samples] :
        Matches(x, d) => Matches(x, d)'
  BY MatchesKept
<1> QED
  BY <1>2, <1>3 DEF RowsMatch

\* Writing the row of a sample whose bytes are at the end of the data.
LEMMA RowAdded ==
  ASSUME Grow, FilesTyped, FilesTyped', NEW d \in Data2, RowsMatch(d),
         NEW row \in [offset : Nat, length : Nat, sample : Samples], Matches(row, d),
         Written(IndexOf(d))' = Written(IndexOf(d)) \o <<row>>
  PROVE  RowsMatch(d)'
<1> DEFINE S == [offset : Nat, length : Nat, sample : Samples]
           w == Written(IndexOf(d))
           v == Written(IndexOf(d))'
<1>1. w \in Seq(S)
  <2>1. w \in Seq(Item(IndexOf(d)))
    BY Places, WrittenType
  <2> QED
    BY <2>1, Places
<1>2. <<row>> \in Seq(S) /\ Len(<<row>>) = 1 /\ <<row>>[1] = row
  OBVIOUS
<1>3. v = w \o <<row>>
  OBVIOUS
<1> HIDE DEF S, w
<1>4. /\ Len(v) = Len(w) + 1 /\ Len(w) \in Nat
      /\ \A i \in 1..Len(w) + 1 : v[i] = IF i <= Len(w) THEN w[i] ELSE row
  <2>1. /\ Len(w \o <<row>>) = Len(w) + Len(<<row>>)
        /\ \A i \in 1..Len(w) + Len(<<row>>) :
             (w \o <<row>>)[i] = IF i <= Len(w) THEN w[i] ELSE <<row>>[i - Len(w)]
    BY <1>1, <1>2, ConcatProperties
  <2>2. Len(w) \in Nat
    BY <1>1, LenProperties
  <2>3. \A i \in 1..Len(w) + 1 : ~(i <= Len(w)) => i - Len(w) = 1
    BY <2>2
  <2> HIDE DEF v
  <2> QED
    BY <1>2, <1>3, <2>1, <2>2, <2>3
<1>5. \A i \in 1..Len(w) : w[i] \in S /\ Matches(w[i], d)
  BY <1>1, ElementOfSeq DEF RowsMatch, w
<1>6. \A x \in S : Matches(x, d) => (Matches(x, d))'
  BY MatchesKept DEF S
<1>7. \A i \in 1..Len(v) : v[i] \in S /\ Matches(v[i], d)
  <2> HIDE DEF v
  <2> QED
    BY <1>4, <1>5 DEF S
<1> QED
  BY <1>6, <1>7 DEF RowsMatch

\* write_sample's next write moves one file on, by what belongs there.
LEMMA PutNextWrites ==
  ASSUME TypeOK, PutNext
  PROVE  /\ at \in 1..5 /\ mode = "write" /\ mode' = "write" /\ at' = at + 1
         /\ UNCHANGED <<offset, cur, accepted, total, failures, json, finished>>
         /\ FilesTyped' /\ Grow
         /\ \A g \in FileNames :
              Written(g)' = IF g = Files[at] THEN Written(g) \o Data(g) ELSE Written(g)
<1>1. PICK f \in FileNames :
        f = Files[at] /\ Data(f) \in Seq(Item(f)) /\ Puts(f, Data(f)) /\ UNCHANGED failures
  BY PutNextPuts
<1>2. FilesTyped
  BY TypedParts
<1>3. FilesTyped' /\ Grow
  BY <1>1, <1>2, PutsGrow
<1>4. \A g \in FileNames : Written(g)' = IF g = f THEN Written(g) \o Data(g) ELSE Written(g)
  BY <1>1 DEF Puts, Written
<1>5. /\ at \in 1..5 /\ mode = "write" /\ mode' = "write" /\ at' = at + 1
      /\ UNCHANGED <<offset, cur, accepted, total, json, finished>>
  BY FilesAre DEF PutNext, TypeOK
<1> QED
  BY <1>1, <1>3, <1>4, <1>5

\* The bytes of a sample are numbered from one.
LEMMA BytesAre ==
  ASSUME NEW s \in Samples, NEW n \in Nat
  PROVE  /\ Bytes(s, n) \in Seq([sample : Samples, pos : Nat]) /\ Len(Bytes(s, n)) = n
         /\ \A i \in 1..n : Bytes(s, n)[i] = [sample |-> s, pos |-> i]
<1>1. Bytes(s, n) \in Seq([sample : Samples, pos : Nat])
  BY DEF Bytes
<1>2. Len(Bytes(s, n)) = n
  BY DEF Bytes
<1>3. \A i \in 1..n : Bytes(s, n)[i] = [sample |-> s, pos |-> i]
  BY DEF Bytes
<1> QED
  BY <1>1, <1>2, <1>3

\* The bytes of the sample, once written, are at the end of the data.
LEMMA BytesAtEnd ==
  ASSUME TypeOK, PutNext, NEW d \in Data2, at = PutAt(d), Len(Written(d)) = offset[d]
  PROVE  AtEnd(d)'
<1>1. cur \in Samples /\ cur[d] \in Nat
  <2>1. cur \in Samples
    BY DEF TypeOK, PutNext
  <2> QED
    BY <2>1, SessionConstants DEF Samples, Data2
<1>2. Files[at] = d /\ Data(d) = Bytes(cur, cur[d])
  BY PutNextWrites, Places
<1>3. Written(d) \in Seq(Item(d)) /\ Item(d) = [sample : Samples, pos : Nat]
  BY TypedParts, Places, WrittenType
<1> DEFINE S == [sample : Samples, pos : Nat]
           w == Written(d)
           b == Bytes(cur, cur[d])
<1>4. b \in Seq(S) /\ Len(b) = cur[d] /\ \A i \in 1..cur[d] : b[i] = [sample |-> cur, pos |-> i]
  BY <1>1, BytesAre
<1>5. w \in Seq(S)
  BY <1>3
<1> HIDE DEF S, w, b
<1>6. /\ Len(w \o b) = Len(w) + cur[d]
      /\ \A i \in 1..cur[d] : (w \o b)[Len(w) + i] = [sample |-> cur, pos |-> i]
  BY <1>4, <1>5, Concat
<1>7. Written(d)' = w \o b
  <2>1. d \in FileNames
    BY Places
  <2> QED
    BY <1>2, <2>1, PutNextWrites DEF w, b
<1>8. offset' = offset /\ cur' = cur /\ Len(w) = offset[d]
  BY PutNextWrites DEF w
<1> QED
  BY <1>6, <1>7, <1>8 DEF AtEnd

LEMMA MatchPutNext ==
  ASSUME TypeOK, MatchInv, PutNext
  PROVE  MatchInv'
<1>1. FilesTyped /\ FilesTyped' /\ Grow /\ Files[at] \in FileNames
  BY TypedParts, PutNextWrites, PutNextPuts
<1>2. ASSUME NEW d \in Data2
      PROVE  /\ RowsMatch(d)'
             /\ mode' = "write" => IF at' > PutAt(d) THEN AtEnd(d)'
                                   ELSE Len(Written(d)') = offset'[d]
  <2>1. /\ RowsMatch(d)
        /\ IF at > PutAt(d) THEN AtEnd(d) ELSE Len(Written(d)) = offset[d]
    BY PutNextWrites DEF MatchInv, RowsMatch
  <2>2. /\ at \in 1..5 /\ at' = at + 1 /\ offset' = offset /\ cur' = cur
        /\ PutAt(d) \in 1..5 /\ RowAt(d) \in 1..5 /\ PutAt(d) < RowAt(d)
        /\ d \in FileNames /\ IndexOf(d) \in FileNames
        /\ (Files[at] = d <=> at = PutAt(d)) /\ (Files[at] = IndexOf(d) <=> at = RowAt(d))
    BY PutNextWrites, Places
  <2>3. RowsMatch(d)'
    <3>1. CASE at # RowAt(d)
      <4>1. Written(IndexOf(d))' = Written(IndexOf(d))
        BY <2>2, <3>1, PutNextWrites
      <4> QED
        BY <1>1, <2>1, <4>1, RowsKept
    <3>2. CASE at = RowAt(d)
      <4> DEFINE row == [offset |-> offset[d], length |-> cur[d], sample |-> cur]
      <4>1. AtEnd(d)
        BY <2>1, <2>2, <3>2
      <4>2. Data(IndexOf(d)) = <<row>> /\ Data(IndexOf(d)) \in Seq(Item(IndexOf(d)))
            /\ Item(IndexOf(d)) = [offset : Nat, length : Nat, sample : Samples]
        <5>1. \A f \in FileNames : f = Files[at] => Data(f) \in Seq(Item(f))
          BY PutNextPuts
        <5> QED
          BY <2>2, <3>2, <5>1, Places
      <4>3. row \in [offset : Nat, length : Nat, sample : Samples]
        <5>1. cur \in Samples
          BY DEF TypeOK, PutNext
        <5>2. cur[d] \in Nat /\ offset[d] \in Nat
          BY <5>1, SessionConstants DEF Samples, Data2, TypeOK
        <5> QED
          BY <5>1, <5>2
      <4>4. row.offset = offset[d] /\ row.length = cur[d] /\ row.sample = cur
        OBVIOUS
      <4>5. Written(IndexOf(d))' = Written(IndexOf(d)) \o <<row>>
        <5>1. Written(IndexOf(d))' = Written(IndexOf(d)) \o Data(IndexOf(d))
          BY <2>2, <3>2, PutNextWrites
        <5> QED
          BY <4>2, <5>1
      <4> HIDE DEF row
      <4>6. Matches(row, d)
        <5>1. Len(Written(d)) = offset[d] + cur[d]
          BY <4>1 DEF AtEnd
        <5>2. offset[d] + cur[d] \in Nat
          BY <4>3, <4>4
        <5> QED
          BY <4>1, <4>4, <5>1, <5>2 DEF Matches, AtEnd
      <4>7. \A x \in [offset : Nat, length : Nat, sample : Samples] :
              Matches(x, d) /\ Written(IndexOf(d))' = Written(IndexOf(d)) \o <<x>>
                => RowsMatch(d)'
        BY <1>1, <2>1, RowAdded
      <4> QED
        BY <4>3, <4>5, <4>6, <4>7
    <3> QED
      BY <3>1, <3>2
  <2>4. IF at' > PutAt(d) THEN AtEnd(d)' ELSE Len(Written(d)') = offset'[d]
    <3>1. CASE at = PutAt(d)
      <4>1. AtEnd(d)'
        BY <2>1, <2>2, <3>1, BytesAtEnd
      <4> QED
        BY <2>2, <3>1, <4>1
    <3>2. CASE at # PutAt(d)
      <4>1. Written(d)' = Written(d)
        BY <2>2, <3>2, PutNextWrites
      <4>2. AtEnd(d) => AtEnd(d)'
        BY <2>2, <4>1 DEF AtEnd
      <4>3. at' > PutAt(d) <=> at > PutAt(d)
        BY <2>2, <3>2
      <4> QED
        BY <2>1, <2>2, <4>1, <4>2, <4>3
    <3> QED
      BY <3>1, <3>2
  <2> QED
    BY <2>3, <2>4
<1>3. mode' = "write"
  BY PutNextWrites
<1> QED
  BY <1>2, <1>3 DEF MatchInv, RowsMatch

\* Only write_sample's writes put anything into a file; a flush moves it.
LEMMA WrittenKept ==
  ASSUME TypeOK, [Next]_vars
  PROVE  PutNext \/ PutFails \/ \A g \in FileNames : Written(g)' = Written(g)
<1> DEFINE Kept == \A g \in FileNames : Written(g)' = Written(g)
<1>0. FilesTyped
  BY TypedParts
<1>1. ASSUME NEW f \in FileNames, Puts(f, <<>>) PROVE Kept
  <2>1. Written(f) \in Seq(Item(f))
    BY <1>0, WrittenType
  <2>2. Written(f) \o <<>> = Written(f)
    BY <2>1, ConcatEmptySeq
  <2> QED
    BY <1>1, <2>2 DEF Puts, Written
<1>2. ASSUME UNCHANGED <<disk, buf>> PROVE Kept
  BY <1>2 DEF Written
<1>3. CASE FlushNext
  BY <1>1, <1>3, FlushNextPuts
<1>4. CASE FlushFails
  BY <1>1, <1>4, FlushFailsPuts
<1>5. CASE DropField
  BY <1>1, <1>5, DropFieldPuts
<1>6. ASSUME NEW s \in Undeclared, Refuse(s) PROVE Kept
  BY <1>2, <1>6 DEF Refuse
<1>7. ASSUME NEW s \in Declared, NEW r \in RawLens, NEW k \in CondLens, WriteSample(s, r, k)
      PROVE  Kept
  BY <1>2, <1>7 DEF WriteSample
<1>8. CASE Count \/ SampleFlushed \/ Finish \/ Drop \/ WriteJson \/ WriteJsonFails
           \/ Closed \/ Kill \/ UNCHANGED vars
  <2>1. UNCHANGED <<disk, buf>>
    BY <1>8 DEF Count, SampleFlushed, Finish, Drop, WriteJson, WriteJsonFails,
       Closed, Kill, vars
  <2> QED
    BY <1>2, <2>1
<1> QED
  BY <1>3, <1>4, <1>5, <1>6, <1>7, <1>8 DEF Next

\* A write that fails adds nothing to the CSV or to an index.
LEMMA RowsNotTorn ==
  ASSUME TypeOK, PutFails
  PROVE  \A g \in FileNames \ Data2 : Written(g)' = Written(g)
<1>1. PICK f \in FileNames :
        \E d \in Seq(Item(f)) : Puts(f, d) /\ (f \notin Data2 => d = <<>>)
  BY PutFailsPuts DEF Data2
<1> TAKE g \in FileNames \ Data2
<1>2. CASE g = f
  <2>1. Written(f) \in Seq(Item(f))
    BY TypedParts, WrittenType
  <2>2. Written(f) \o <<>> = Written(f)
    BY <2>1, ConcatEmptySeq
  <2>3. Puts(f, <<>>)
    BY <1>1, <1>2
  <2> QED
    BY <1>2, <2>2, <2>3 DEF Puts
<1>3. CASE g # f
  BY <1>1, <1>3 DEF Puts, Written
<1> QED
  BY <1>2, <1>3

LEMMA IndexNotData == \A d \in Data2 : IndexOf(d) \in FileNames \ Data2
BY FilesAre DEF Data2, IndexOf

LEMMA MatchCount ==
  ASSUME TypeOK, MatchInv, Count, NEW d \in Data2
  PROVE  Len(Written(d)') = offset'[d] /\ mode' \in {"idle", "flush"}
<1>1. AtEnd(d)
  <2>1. mode = "write" /\ at = 6 /\ PutAt(d) \in 1..5
    BY Places, FilesAre DEF Count
  <2>2. at > PutAt(d)
    BY <2>1
  <2> QED
    BY <2>1, <2>2 DEF MatchInv
<1>2. offset'[d] = offset[d] + cur[d]
  BY DEF Count, Data2, TypeOK
<1>3. Written(d)' = Written(d)
  BY DEF Count, Written
<1>4. mode' \in {"idle", "flush"}
  BY DEF Count
<1> QED
  BY <1>1, <1>2, <1>3, <1>4 DEF AtEnd

LEMMA MatchStep ==
  ASSUME "ignore" \notin OnError, TypeOK, MatchInv, [Next]_vars
  PROVE  MatchInv'
<1> DEFINE Ends(d) == /\ mode \in {"idle", "flush"} => Len(Written(d)) = offset[d]
                      /\ mode = "write" => IF at > PutAt(d) THEN AtEnd(d)
                                           ELSE Len(Written(d)) = offset[d]
<1>1. FilesTyped /\ FilesTyped' /\ Grow
  BY TypedParts, FilesGrow
<1>2. \A d \in Data2 : RowsMatch(d) /\ Ends(d)
  BY DEF MatchInv, RowsMatch
<1>3. CASE PutNext
  BY <1>3, MatchPutNext
<1>4. ASSUME ~PutNext PROVE \A d \in Data2 : RowsMatch(d)'
  <2> TAKE d \in Data2
  <2>1. Written(IndexOf(d))' = Written(IndexOf(d))
    BY <1>4, WrittenKept, RowsNotTorn, IndexNotData
  <2> QED
    BY <1>1, <1>2, <2>1, RowsKept
<1>5. ASSUME NEW d \in Data2, ~PutNext PROVE Ends(d)'
  <2>1. d \in FileNames /\ 1 < PutAt(d) /\ PutAt(d) \in 1..5
    BY Places
  <2>2. CASE Count
    BY <2>2, MatchCount
  <2>3. ASSUME mode' \notin {"idle", "flush", "write"} PROVE Ends(d)'
    BY <2>3
  <2>4. CASE PutFails
    BY <2>3, <2>4 DEF PutFails, Erred
  <2>5. ASSUME NEW s \in Undeclared, Refuse(s) PROVE Ends(d)'
    BY <2>3, <2>5 DEF Refuse, Erred
  <2>6. ASSUME NEW s \in Declared, NEW r \in RawLens, NEW k \in CondLens, WriteSample(s, r, k)
        PROVE  Ends(d)'
    <3>1. mode = "idle" /\ mode' = "write" /\ at' = 1 /\ UNCHANGED <<disk, buf, offset>>
      BY <2>6 DEF WriteSample
    <3>2. Written(d)' = Written(d) /\ Len(Written(d)) = offset[d]
      BY <1>2, <3>1 DEF Written
    <3> QED
      BY <2>1, <3>1, <3>2
  <2>7. CASE FlushNext \/ SampleFlushed
    <3>1. Written(d)' = Written(d)
      BY <1>5, <2>1, <2>7, WrittenKept DEF FlushNext, SampleFlushed, PutFails
    <3>2. /\ offset' = offset /\ mode \in {"flush", "finish", "drop"}
          /\ mode' = mode \/ (mode = "flush" /\ mode' = "idle")
      BY <2>7 DEF FlushNext, SampleFlushed
    <3> QED
      BY <1>2, <3>1, <3>2
  <2>8. CASE FlushFails
    <3>1. mode' \in {"finish", "drop"}
      <4>1. CASE mode = "flush"
        BY <2>8, <4>1 DEF FlushFails, Erred
      <4>2. CASE mode = "finish"
        BY <2>8, <4>2 DEF FlushFails
      <4>3. CASE mode = "drop"
        BY <2>8, <4>3 DEF FlushFails
      <4> QED
        BY <2>8, <4>1, <4>2, <4>3 DEF FlushFails
    <3> QED
      BY <2>3, <3>1
  <2>9. CASE Finish \/ Drop \/ WriteJson \/ WriteJsonFails \/ DropField \/ Closed \/ Kill
    <3>1. mode' \in {"finish", "drop", "fields", "gone", "killed"}
      BY <2>9 DEF Finish, Drop, WriteJson, WriteJsonFails, DropField, Closed, Kill
    <3> QED
      BY <2>3, <3>1
  <2>10. CASE UNCHANGED vars
    BY <1>2, <2>10 DEF vars, Written, AtEnd
  <2> QED
    BY <1>5, <2>2, <2>4, <2>5, <2>6, <2>7, <2>8, <2>9, <2>10 DEF Next
<1>6. CASE ~PutNext
  BY <1>4, <1>5, <1>6 DEF MatchInv, RowsMatch
<1> QED
  BY <1>3, <1>6

\* A piece of a sequence, element by element.
LEMMA Piece ==
  ASSUME NEW S, NEW s \in Seq(S), NEW o \in Nat, NEW n \in Nat, o + n <= Len(s)
  PROVE  /\ SubSeq(s, o + 1, o + n) \in Seq(S) /\ Len(SubSeq(s, o + 1, o + n)) = n
         /\ \A j \in 1..n : SubSeq(s, o + 1, o + n)[j] = s[o + j]
<1>1. Len(s) \in Nat /\ \A i \in 1..Len(s) : s[i] \in S
  BY LenProperties, ElementOfSeq
<1>2. \A i \in o + 1..o + n : s[i] \in S
  BY <1>1
<1>3. /\ SubSeq(s, o + 1, o + n) \in Seq(S)
      /\ Len(SubSeq(s, o + 1, o + n)) =
           IF o + 1 <= o + n THEN o + n - (o + 1) + 1 ELSE 0
      /\ \A j \in 1..o + n - (o + 1) + 1 :
           SubSeq(s, o + 1, o + n)[j] = s[o + 1 + j - 1]
  BY <1>2, SubSeqProperties
<1>4. o + n - (o + 1) + 1 = n /\ (o + 1 <= o + n <=> n # 0)
  OBVIOUS
<1>5. \A j \in 1..n : o + 1 + j - 1 = o + j
  OBVIOUS
<1> QED
  BY <1>3, <1>4, <1>5

\* A reader who sees only the disk sees the beginning of what was written, so
\* a row that it finds within the data file shows the same bytes.
LEMMA MatchOnDisk ==
  ASSUME TypeOK, MatchInv
  PROVE  IndexMatchesData
<1>1. ASSUME NEW d \in Data2, NEW row \in ToSet(disk[IndexOf(d)]), InBounds(row, d)
      PROVE  Slice(row, d) = Bytes(row.sample, row.length)
  <2>1. /\ d \in FileNames /\ IndexOf(d) \in FileNames
        /\ Item(d) = [sample : Samples, pos : Nat]
        /\ Item(IndexOf(d)) = [offset : Nat, length : Nat, sample : Samples]
    BY Places
  <2>2. /\ disk[d] \in Seq([sample : Samples, pos : Nat])
        /\ disk[IndexOf(d)] \in Seq([offset : Nat, length : Nat, sample : Samples])
        /\ Begins(disk[d], Written(d)) /\ Begins(disk[IndexOf(d)], Written(IndexOf(d)))
    BY <2>1, TypedParts, WrittenType DEF FilesTyped
  <2>3. PICK i \in 1..Len(disk[IndexOf(d)]) : row = disk[IndexOf(d)][i]
    BY <2>2, LenProperties DEF ToSet
  <2>4. /\ row \in [offset : Nat, length : Nat, sample : Samples]
        /\ row.offset \in Nat /\ row.length \in Nat /\ row.sample \in Samples
    <3>1. row \in [offset : Nat, length : Nat, sample : Samples]
      BY <2>2, <2>3, ElementOfSeq
    <3> QED
      BY <3>1
  <2>5. Matches(row, d)
    <3>1. /\ Written(IndexOf(d)) \in Seq(Item(IndexOf(d)))
          /\ Len(disk[IndexOf(d)]) \in Nat
      BY <2>1, <2>2, TypedParts, WrittenType, LenProperties
    <3>2. Len(Written(IndexOf(d))) \in Nat
      BY <3>1, LenProperties
    <3>3. i \in 1..Len(Written(IndexOf(d))) /\ Written(IndexOf(d))[i] = row
      BY <2>2, <2>3, <3>1, <3>2 DEF Begins
    <3> QED
      BY <3>3 DEF MatchInv
  <2>6. /\ Len(disk[d]) \in Nat /\ row.offset + row.length <= Len(disk[d])
        /\ \A j \in 1..Len(disk[d]) : disk[d][j] \in [sample : Samples, pos : Nat]
    BY <1>1, <2>2, LenProperties, ElementOfSeq DEF InBounds
  <2> DEFINE o == row.offset
             n == row.length
             S == [sample : Samples, pos : Nat]
  <2>8. \A j \in 1..n : disk[d][o + j] = [sample |-> row.sample, pos |-> j]
    <3> TAKE j \in 1..n
    <3>1. o + j \in 1..Len(disk[d])
      BY <2>4, <2>6
    <3> QED
      BY <2>2, <2>5, <3>1 DEF Begins, Matches
  <2>9. /\ Bytes(row.sample, n) \in Seq(S) /\ Len(Bytes(row.sample, n)) = n
        /\ \A j \in 1..n : Bytes(row.sample, n)[j] = [sample |-> row.sample, pos |-> j]
    BY <2>4, BytesAre
  <2> DEFINE t == disk[d]
             b == Bytes(row.sample, n)
  <2>10. /\ t \in Seq(S) /\ o \in Nat /\ n \in Nat /\ o + n <= Len(t)
         /\ b \in Seq(S) /\ Len(b) = n /\ \A j \in 1..n : t[o + j] = b[j]
    BY <2>2, <2>4, <2>6, <2>8, <2>9
  <2> DEFINE s == SubSeq(t, o + 1, o + n)
  <2> HIDE DEF S, o, n, t, b
  <2>11. s \in Seq(S) /\ Len(s) = n /\ \A j \in 1..n : s[j] = t[o + j]
    BY <2>10, Piece
  <2> HIDE DEF s
  <2>12. s = b
    BY <2>10, <2>11, SeqEqual
  <2> QED
    BY <2>12 DEF s, b, t, Slice, o, n
<1>2. \A p \in {<<"raw", "index">>, <<"cond", "condIndex">>} : p[1] \in Data2 /\ p[2] = IndexOf(p[1])
  BY DEF Data2, IndexOf
<1> QED
  BY <1>1, <1>2 DEF IndexMatchesData

(* Whenever the directory is read - while recording, after an error, after a *)
(* kill between any two writes - a row that the reader does not skip points  *)
(* at the bytes of its own sample: for any sources, lengths and failures,    *)
(* provided the recorder stops at an error of write_sample, as record does.  *)
(* The bytes of a failed write are never followed by a row.                  *)
THEOREM RowsMatchData ==
  ASSUME "ignore" \notin OnError
  PROVE  Spec => []IndexMatchesData
<1>1. Init => MatchInv
  <2> SUFFICES ASSUME Init PROVE MatchInv
    OBVIOUS
  <2>0. mode = "idle"
    BY DEF Init
  <2> SUFFICES ASSUME NEW d \in Data2
               PROVE  Len(Written(d)) = 0 /\ Len(Written(IndexOf(d))) = 0 /\ offset[d] = 0
    BY <2>0 DEF MatchInv
  <2>1. d \in FileNames /\ IndexOf(d) \in FileNames
    BY Places
  <2>2. <<>> \o <<>> = <<>> /\ Len(<<>>) = 0
    BY EmptySeq, ConcatEmptySeq
  <2> QED
    BY <2>1, <2>2 DEF Init, Written, Data2
<1>2. TypeOK /\ MatchInv /\ [Next]_vars => MatchInv'
  BY MatchStep
<1>3. TypeOK /\ MatchInv => IndexMatchesData
  BY MatchOnDisk
<1> QED
  BY <1>1, <1>2, <1>3, SessionTypeCorrect, PTL DEF Spec

-----------------------------------------------------------------------------
(* What has been written of a sample.                                      *)

\* A sequence with one more at its end.
LEMMA OneMore ==
  ASSUME NEW S, NEW w \in Seq(S), NEW x \in S
  PROVE  /\ Len(w \o <<x>>) = Len(w) + 1 /\ (w \o <<x>>)[Len(w) + 1] = x
         /\ w \o <<x>> \in Seq(S) /\ Append(w, x) = w \o <<x>>
         /\ \A i \in 1..Len(w) : (w \o <<x>>)[i] = w[i]
<1> DEFINE t == <<x>>
<1>1. t \in Seq(S) /\ Len(t) = 1 /\ t[1] = x
  OBVIOUS
<1>2. Append(w, x) = w \o t
  BY AppendIsConcat
<1> HIDE DEF t
<1>3. /\ Len(w \o t) = Len(w) + Len(t) /\ w \o t \in Seq(S)
      /\ \A i \in 1..Len(t) : (w \o t)[Len(w) + i] = t[i]
      /\ Begins(w, w \o t)
  BY <1>1, Concat
<1>4. /\ Len(w \o t) = Len(w) + 1 /\ (w \o t)[Len(w) + 1] = x
      /\ \A i \in 1..Len(w) : (w \o t)[i] = w[i]
  BY <1>1, <1>3 DEF Begins
<1> QED
  BY <1>2, <1>3, <1>4 DEF t

\* Nothing of it is lost from what has been written.
LEMMA RecordedKept ==
  ASSUME FilesTyped, FilesTyped', Grow, NEW s
  PROVE  /\ CsvWritten(s) => CsvWritten(s)'
         /\ \A d \in Data2 : RowWritten(s, d) => RowWritten(s, d)'
         /\ Recorded(s) => Recorded(s)'
<1>1. \A g \in FileNames :
        /\ Len(Written(g)) \in Nat /\ Len(Written(g)') \in Nat
        /\ Len(Written(g)) <= Len(Written(g)')
        /\ \A i \in 1..Len(Written(g)) : Written(g)'[i] = Written(g)[i]
  <2> TAKE g \in FileNames
  <2>1. Written(g) \in Seq(Item(g))
    BY WrittenType
  <2>2. Written(g)' \in Seq(Item(g))
    BY WrittenTypeNext
  <2> QED
    BY <2>1, <2>2, LenProperties DEF Grow, Begins
<1>2. CsvWritten(s) => CsvWritten(s)'
  <2>1. "csv" \in FileNames
    BY FilesAre
  <2> QED
    BY <1>1, <2>1 DEF CsvWritten
<1>3. ASSUME NEW d \in Data2, RowWritten(s, d) PROVE RowWritten(s, d)'
  <2>1. /\ d \in FileNames /\ IndexOf(d) \in FileNames
        /\ Item(IndexOf(d)) = [offset : Nat, length : Nat, sample : Samples]
    BY Places
  <2>2. PICK i \in 1..Len(Written(IndexOf(d))) :
          /\ Written(IndexOf(d))[i].sample = s
          /\ Written(IndexOf(d))[i].offset + Written(IndexOf(d))[i].length <= Len(Written(d))
    BY <1>3 DEF RowWritten
  <2>3. Written(IndexOf(d))[i] \in [offset : Nat, length : Nat, sample : Samples]
    <3>1. Written(IndexOf(d)) \in Seq(Item(IndexOf(d)))
      BY <2>1, WrittenType
    <3> QED
      BY <2>1, <2>2, <3>1, ElementOfSeq
  <2>4. Written(IndexOf(d))[i].offset \in Nat /\ Written(IndexOf(d))[i].length \in Nat
    BY <2>3
  <2>5. Written(IndexOf(d))'[i] = Written(IndexOf(d))[i] /\ i \in 1..Len(Written(IndexOf(d))')
    BY <1>1, <2>1, <2>2
  <2>6. Written(IndexOf(d))'[i].offset + Written(IndexOf(d))'[i].length <= Len(Written(d)')
    BY <1>1, <2>1, <2>2, <2>4, <2>5
  <2> QED
    BY <2>2, <2>5, <2>6 DEF RowWritten
<1> QED
  BY <1>2, <1>3 DEF Recorded

\* write_sample's writes, one file after the other.
LEMMA RecordedPutNext ==
  ASSUME TypeOK, RecordedInv, PutNext, NEW c \in Samples, c = cur
  PROVE  /\ cur' = c
         /\ at' > 1 => CsvWritten(c)'
         /\ \A d \in Data2 :
              /\ offset'[d] <= Len(Written(d)')
              /\ at' > PutAt(d) => offset'[d] + c[d] <= Len(Written(d)')
              /\ at' > RowAt(d) => RowWritten(c, d)'
<1>1. /\ at \in 1..5 /\ at' = at + 1 /\ mode = "write" /\ cur' = c /\ offset' = offset
      /\ FilesTyped /\ FilesTyped' /\ Grow
      /\ \A g \in FileNames :
           Written(g)' = IF g = Files[at] THEN Written(g) \o Data(g) ELSE Written(g)
  BY PutNextWrites, TypedParts
<1>2. at' > 1 => CsvWritten(c)'
  <2>1. CASE at > 1
    <3>1. CsvWritten(c)
      BY <1>1, <2>1 DEF RecordedInv
    <3> QED
      BY <1>1, <3>1, RecordedKept
  <2>2. CASE at = 1
    <3>1. "csv" \in FileNames /\ Files[1] = "csv" /\ Item("csv") = Samples
      BY FilesAre DEF Files, Item
    <3>2. Written("csv")' = Written("csv") \o <<c>>
      <4>1. Written("csv")' = Written("csv") \o Data("csv")
        BY <1>1, <2>2, <3>1
      <4> QED
        BY <4>1 DEF Data
    <3>3. Written("csv") \in Seq(Samples)
      BY <1>1, <3>1, WrittenType
    <3>4. Len(Written("csv")) \in Nat
      BY <3>3, LenProperties
    <3>5. /\ Len(Written("csv")') = Len(Written("csv")) + 1
          /\ Written("csv")'[Len(Written("csv")) + 1] = c
      <4> DEFINE w == Written("csv")
      <4> HIDE DEF w
      <4>1. w \in Seq(Samples)
        BY <3>3 DEF w
      <4>2. Len(w \o <<c>>) = Len(w) + 1 /\ (w \o <<c>>)[Len(w) + 1] = c
        BY <4>1, OneMore
      <4> QED
        BY <3>2, <4>2 DEF w
    <3> QED
      BY <3>4, <3>5 DEF CsvWritten
  <2> QED
    BY <1>1, <2>1, <2>2
<1>3. ASSUME NEW d \in Data2
      PROVE  /\ offset'[d] <= Len(Written(d)')
             /\ at' > PutAt(d) => offset'[d] + c[d] <= Len(Written(d)')
             /\ at' > RowAt(d) => RowWritten(c, d)'
  <2>1. /\ d \in FileNames /\ IndexOf(d) \in FileNames
        /\ PutAt(d) \in 1..5 /\ RowAt(d) \in 1..5 /\ PutAt(d) < RowAt(d)
        /\ (Files[at] = d <=> at = PutAt(d)) /\ (Files[at] = IndexOf(d) <=> at = RowAt(d))
        /\ Data(d) = Bytes(c, c[d])
        /\ Data(IndexOf(d)) = <<[offset |-> offset[d], length |-> c[d], sample |-> c]>>
        /\ Item(d) = [sample : Samples, pos : Nat]
        /\ Item(IndexOf(d)) = [offset : Nat, length : Nat, sample : Samples]
    BY <1>1, Places
  <2>2. c[d] \in Nat /\ offset[d] \in Nat
    BY SessionConstants DEF Samples, Data2, TypeOK
  <2>3. /\ Written(d) \in Seq([sample : Samples, pos : Nat]) /\ Len(Written(d)) \in Nat
        /\ Written(IndexOf(d)) \in Seq([offset : Nat, length : Nat, sample : Samples])
        /\ Len(Written(IndexOf(d))) \in Nat /\ Len(Written(d)') \in Nat
        /\ Len(Written(d)) <= Len(Written(d)')
    <3>1. Written(d) \in Seq(Item(d)) /\ Written(IndexOf(d)) \in Seq(Item(IndexOf(d)))
      BY <1>1, <2>1, WrittenType
    <3>2. Written(d)' \in Seq(Item(d))
      BY <1>1, <2>1, WrittenTypeNext
    <3> QED
      BY <1>1, <2>1, <3>1, <3>2, LenProperties DEF Grow, Begins
  <2>4. offset[d] <= Len(Written(d))
    BY DEF RecordedInv
  <2>5. at' > PutAt(d) => offset'[d] + c[d] <= Len(Written(d)')
    <3>1. CASE at > PutAt(d)
      <4>1. offset[d] + c[d] <= Len(Written(d))
        BY <1>1, <3>1 DEF RecordedInv
      <4>2. offset'[d] + c[d] <= Len(Written(d)')
        BY <1>1, <2>2, <2>3, <4>1
      <4> QED
        BY <4>2
    <3>2. CASE at = PutAt(d)
      <4>1. Written(d)' = Written(d) \o Bytes(c, c[d])
        BY <1>1, <2>1, <3>2
      <4>2. /\ Bytes(c, c[d]) \in Seq([sample : Samples, pos : Nat])
            /\ Len(Bytes(c, c[d])) = c[d]
        BY <2>2, BytesAre
      <4>3. Len(Written(d)') = Len(Written(d)) + c[d]
        <5> DEFINE w == Written(d)
                   b == Bytes(c, c[d])
                   S == [sample : Samples, pos : Nat]
        <5>1. w \in Seq(S) /\ b \in Seq(S)
          BY <2>3, <4>2
        <5> HIDE DEF w, b, S
        <5>2. Len(w \o b) = Len(w) + Len(b)
          BY <5>1, Concat
        <5> QED
          BY <4>1, <4>2, <5>2 DEF w, b
      <4> QED
        BY <1>1, <2>2, <2>3, <2>4, <4>3
    <3>3. at' > PutAt(d) => at > PutAt(d) \/ at = PutAt(d)
      <4>1. at \in 1..5 /\ at' = at + 1 /\ PutAt(d) \in 1..5
        BY <1>1, <2>1
      <4> QED
        BY <4>1
    <3> QED
      BY <3>1, <3>2, <3>3
  <2>6. at' > RowAt(d) => RowWritten(c, d)'
    <3>1. CASE at > RowAt(d)
      <4>1. RowWritten(c, d)
        BY <1>1, <3>1 DEF RecordedInv
      <4> QED
        BY <1>1, <4>1, RecordedKept
    <3>2. CASE at = RowAt(d)
      <4> DEFINE row == [offset |-> offset[d], length |-> c[d], sample |-> c]
                 w == Written(IndexOf(d))
                 S == [offset : Nat, length : Nat, sample : Samples]
      <4>1. /\ row \in S /\ row.sample = c
            /\ row.offset = offset[d] /\ row.length = c[d] /\ w \in Seq(S)
        BY <2>2, <2>3
      <4>2. Written(IndexOf(d))' = w \o <<row>>
        BY <1>1, <2>1, <3>2
      <4>3. offset[d] + c[d] <= Len(Written(d)')
        <5>1. at \in 1..5 /\ at' = at + 1 /\ PutAt(d) \in 1..5 /\ PutAt(d) < at
          BY <1>1, <2>1, <3>2
        <5>2. at' > PutAt(d)
          BY <5>1
        <5> QED
          BY <1>1, <2>5, <5>2
      <4> HIDE DEF row, w, S
      <4>4. /\ Len(w \o <<row>>) = Len(w) + 1 /\ (w \o <<row>>)[Len(w) + 1] = row
            /\ Len(w) \in Nat
        BY <4>1, OneMore, LenProperties
      <4>5. Len(w) + 1 \in 1..Len(Written(IndexOf(d))')
        BY <4>2, <4>4
      <4>6. Written(IndexOf(d))'[Len(w) + 1] = row
        BY <4>2, <4>4
      <4> QED
        BY <4>1, <4>3, <4>5, <4>6 DEF RowWritten
    <3>3. at' > RowAt(d) => at > RowAt(d) \/ at = RowAt(d)
      <4>1. at \in 1..5 /\ at' = at + 1 /\ RowAt(d) \in 1..5
        BY <1>1, <2>1
      <4> QED
        BY <4>1
    <3> QED
      BY <3>1, <3>2, <3>3
  <2> QED
    BY <1>1, <2>2, <2>3, <2>4, <2>5, <2>6
<1> QED
  BY <1>1, <1>2, <1>3

\* What is accepted has been written.
LEMMA AcceptedKept ==
  ASSUME TypeOK, TypeOK', Grow, \A i \in 1..Len(accepted) : Recorded(accepted[i]),
         accepted' = accepted \/ (accepted' = Append(accepted, cur) /\ Recorded(cur))
  PROVE  (\A i \in 1..Len(accepted) : Recorded(accepted[i]))'
<1>1. FilesTyped /\ FilesTyped'
  BY TypedParts DEF TypeOK, FilesTyped
<1>2. accepted \in Seq(Samples) /\ accepted' \in Seq(Samples)
  BY DEF TypeOK
<1>3. \A i \in 1..Len(accepted') : Recorded(accepted'[i])
  <2>1. CASE accepted' = accepted
    BY <2>1
  <2>2. CASE accepted' = Append(accepted, cur) /\ Recorded(cur)
    <3>1. /\ Len(accepted') = Len(accepted) + 1 /\ Len(accepted) \in Nat
          /\ \A i \in 1..Len(accepted) + 1 :
               accepted'[i] = IF i <= Len(accepted) THEN accepted[i] ELSE cur
      BY <1>2, <2>2, LenProperties, AppendProperties
    <3>2. \A i \in 1..Len(accepted') :
            \/ i \in 1..Len(accepted) /\ accepted'[i] = accepted[i]
            \/ accepted'[i] = cur
      BY <3>1
    <3> QED
      BY <2>2, <3>2
  <2> QED
    BY <2>1, <2>2
<1>4. ASSUME NEW i \in 1..Len(accepted')
      PROVE  /\ \E j \in 1..Len(Written("csv")') : Written("csv")'[j] = accepted'[i]
             /\ \A d \in Data2 : \E j \in 1..Len(Written(IndexOf(d))') :
                  /\ Written(IndexOf(d))'[j].sample = accepted'[i]
                  /\ Written(IndexOf(d))'[j].offset + Written(IndexOf(d))'[j].length
                       <= Len(Written(d)')
  <2>1. PICK s \in Samples : s = accepted'[i]
    BY <1>2, ElementOfSeq
  <2>2. Recorded(s)
    BY <1>3, <2>1
  <2>3. Recorded(s)'
    BY <1>1, <2>2, RecordedKept
  <2> QED
    BY <2>1, <2>3 DEF Recorded, CsvWritten, RowWritten
<1> QED
  BY <1>4 DEF Recorded, CsvWritten, RowWritten

\* All five writes of a sample done, it has been written.
LEMMA RecordedAtEnd ==
  ASSUME TypeOK, RecordedInv, mode = "write", at = Done
  PROVE  Recorded(cur) /\ \A d \in Data2 : offset[d] + cur[d] <= Len(Written(d))
<1>1. at > 1 /\ \A d \in Data2 : at > PutAt(d) /\ at > RowAt(d)
  <2>1. at = 6 /\ \A d \in Data2 : PutAt(d) \in 1..5 /\ RowAt(d) \in 1..5
    BY FilesAre, Places
  <2> QED
    BY <2>1
<1> QED
  BY <1>1 DEF RecordedInv, Recorded

LEMMA RecordedStep ==
  ASSUME TypeOK, TypeOK', RecordedInv, [Next]_vars
  PROVE  RecordedInv'
<1> DEFINE Offsets == \A d \in Data2 : offset[d] <= Len(Written(d))
           Writing == mode = "write" =>
                        /\ at > 1 => CsvWritten(cur)
                        /\ \A d \in Data2 :
                             /\ at > PutAt(d) => offset[d] + cur[d] <= Len(Written(d))
                             /\ at > RowAt(d) => RowWritten(cur, d)
           Flushing == mode = "flush" => Recorded(cur)
           Accepted == \A i \in 1..Len(accepted) : Recorded(accepted[i])
<1>1. FilesTyped /\ FilesTyped' /\ Grow
  BY TypedParts, FilesGrow
<1>2. Offsets /\ Writing /\ Flushing /\ Accepted
  BY DEF RecordedInv
<1>3. ASSUME offset' = offset PROVE Offsets'
  <2> TAKE d \in Data2
  <2>1. d \in FileNames /\ offset[d] \in Nat /\ offset[d] <= Len(Written(d))
    BY <1>2, Places DEF TypeOK, Data2
  <2>2. Written(d) \in Seq(Item(d)) /\ Written(d)' \in Seq(Item(d))
        /\ Len(Written(d)) <= Len(Written(d)')
    BY <1>1, <2>1, WrittenType, WrittenTypeNext DEF Grow, Begins
  <2> QED
    BY <1>3, <2>1, <2>2, LenProperties
<1>4. ASSUME accepted' = accepted PROVE Accepted'
  BY <1>1, <1>2, <1>4, AcceptedKept
<1>5. ASSUME mode = "flush", cur' = cur PROVE Recorded(cur)'
  <2>1. PICK c \in Samples : c = cur
    BY <1>5 DEF TypeOK
  <2>2. Recorded(c)'
    BY <1>1, <1>2, <1>5, <2>1, RecordedKept
  <2> QED
    BY <1>5, <2>1, <2>2 DEF Recorded, CsvWritten, RowWritten
<1>6. ASSUME UNCHANGED <<offset, accepted>>, mode' \notin {"write", "flush"} PROVE RecordedInv'
  BY <1>3, <1>4, <1>6 DEF RecordedInv
<1>7. CASE PutNext
  <2>1. PICK c \in Samples : c = cur
    BY <1>7 DEF TypeOK, PutNext
  <2>2. /\ cur' = c
        /\ at' > 1 => CsvWritten(c)'
        /\ \A d \in Data2 :
             /\ offset'[d] <= Len(Written(d)')
             /\ at' > PutAt(d) => offset'[d] + c[d] <= Len(Written(d)')
             /\ at' > RowAt(d) => RowWritten(c, d)'
    BY <1>7, <2>1, RecordedPutNext
  <2>3. Writing' /\ Offsets'
    BY <2>2 DEF CsvWritten, RowWritten
  <2>4. Accepted' /\ mode' = "write"
    BY <1>4, <1>7 DEF PutNext
  <2> QED
    BY <2>3, <2>4 DEF RecordedInv
<1>8. CASE Count
  <2>1. Recorded(cur) /\ \A d \in Data2 : offset[d] + cur[d] <= Len(Written(d))
    BY <1>8, RecordedAtEnd DEF Count
  <2>2. Offsets'
    <3>1. \A d \in Data2 : offset'[d] = offset[d] + cur[d]
      BY <1>8 DEF Count, Data2, TypeOK
    <3>2. \A d \in Data2 : Written(d)' = Written(d)
      BY <1>8 DEF Count, Written
    <3> QED
      BY <2>1, <3>1, <3>2
  <2>3. Accepted'
    <3>1. accepted' = accepted \/ accepted' = Append(accepted, cur)
      BY <1>8 DEF Count
    <3> QED
      BY <1>1, <1>2, <2>1, <3>1, AcceptedKept
  <2>4. mode' # "write" /\ (mode' = "flush" => cur' = cur)
    BY <1>8 DEF Count
  <2>5. mode' = "flush" => Recorded(cur)'
    <3>1. cur' = cur => Recorded(cur)'
      <4>1. UNCHANGED <<disk, buf>>
        BY <1>8 DEF Count
      <4> QED
        BY <2>1, <4>1 DEF Recorded, CsvWritten, RowWritten, Written
    <3> QED
      BY <2>4, <3>1
  <2> QED
    BY <2>2, <2>3, <2>4, <2>5 DEF RecordedInv
<1>9. CASE SampleFlushed
  <2>1. mode' = "idle" /\ offset' = offset
    BY <1>9 DEF SampleFlushed
  <2>2. Accepted'
    <3>1. accepted' = Append(accepted, cur) /\ Recorded(cur)
      BY <1>2, <1>9 DEF SampleFlushed
    <3> QED
      BY <1>1, <1>2, <3>1, AcceptedKept
  <2> QED
    BY <1>3, <2>1, <2>2 DEF RecordedInv
<1>10. ASSUME NEW s \in Declared, NEW r \in RawLens, NEW k \in CondLens, WriteSample(s, r, k)
       PROVE  RecordedInv'
  <2>1. mode' = "write" /\ at' = 1 /\ UNCHANGED <<offset, accepted>>
    BY <1>10 DEF WriteSample
  <2>2. Writing'
    <3>1. \A d \in Data2 : ~(1 > PutAt(d)) /\ ~(1 > RowAt(d))
      <4>1. \A d \in Data2 : PutAt(d) \in 1..5 /\ RowAt(d) \in 1..5
        BY Places
      <4> QED
        BY <4>1
    <3> QED
      BY <2>1, <3>1
  <2> QED
    BY <1>3, <1>4, <2>1, <2>2 DEF RecordedInv
<1>11. CASE FlushNext
  <2>1. mode' = mode /\ mode \in {"flush", "finish", "drop"} /\ UNCHANGED <<offset, accepted, cur>>
    BY <1>11 DEF FlushNext
  <2> QED
    BY <1>3, <1>4, <1>5, <2>1 DEF RecordedInv
<1>12. CASE FlushFails
  <2>1. mode' \notin {"write", "flush"}
    <3>1. CASE mode = "flush"
      BY <1>12, <3>1 DEF FlushFails, Erred
    <3>2. CASE mode = "finish"
      BY <1>12, <3>2 DEF FlushFails
    <3>3. CASE mode = "drop"
      BY <1>12, <3>3 DEF FlushFails
    <3> QED
      BY <1>12, <3>1, <3>2, <3>3 DEF FlushFails
  <2> QED
    BY <1>6, <1>12, <2>1 DEF FlushFails
<1>13. CASE PutFails
  BY <1>6, <1>13 DEF PutFails, Erred
<1>14. ASSUME NEW s \in Undeclared, Refuse(s) PROVE RecordedInv'
  BY <1>6, <1>14 DEF Refuse, Erred
<1>15. CASE Finish \/ Drop \/ WriteJson \/ WriteJsonFails \/ DropField \/ Closed \/ Kill
  <2>1. mode' \in {"finish", "drop", "fields", "gone", "killed"} /\ UNCHANGED <<offset, accepted>>
    BY <1>15 DEF Finish, Drop, WriteJson, WriteJsonFails, DropField, Closed, Kill
  <2> QED
    BY <1>6, <2>1
<1>16. CASE UNCHANGED vars
  BY <1>16 DEF vars, RecordedInv, Recorded, CsvWritten, RowWritten, Written
<1> QED
  BY <1>7, <1>8, <1>9, <1>10, <1>11, <1>12, <1>13, <1>14, <1>15, <1>16 DEF Next

-----------------------------------------------------------------------------
(* What finish and drop leave behind.                                      *)

LEMMA FailuresStep ==
  ASSUME TypeOK, [Next]_vars
  PROVE  failures \in Nat /\ failures' \in Nat /\ (failures' = failures \/ failures' = failures + 1)
<1>1. failures \in Nat
  BY SessionConstants DEF TypeOK
<1>2. failures' = failures \/ failures' = failures + 1
  <2>1. CASE PutNext \/ PutFails
    BY <2>1, PutNextPuts, PutFailsPuts
  <2>2. CASE FlushNext \/ FlushFails
    BY <2>2, FlushNextPuts, FlushFailsPuts
  <2>3. CASE DropField
    BY <2>3, DropFieldPuts
  <2>4. ASSUME NEW s \in Undeclared, Refuse(s) PROVE failures' = failures
    BY <2>4 DEF Refuse
  <2>5. ASSUME NEW s \in Declared, NEW r \in RawLens, NEW k \in CondLens, WriteSample(s, r, k)
        PROVE  failures' = failures
    BY <2>5 DEF WriteSample
  <2>6. CASE Count \/ SampleFlushed \/ Finish \/ Drop \/ WriteJson \/ WriteJsonFails
             \/ Closed \/ Kill \/ UNCHANGED vars
    BY <2>6 DEF Count, SampleFlushed, Finish, Drop, WriteJson, WriteJsonFails,
       Closed, Kill, vars
  <2> QED
    BY <2>1, <2>2, <2>3, <2>4, <2>5, <2>6 DEF Next
<1> QED
  BY <1>1, <1>2

\* The four parts of ClosingInv.
FlushedSoFar ==
  mode \in {"flush", "finish"} \/ (mode = "drop" /\ failures = 0) =>
    \A j \in 1..5 : j < at => buf[Files[j]] = <<>>
AllFlushed ==
  mode \in {"fields", "gone"} /\ (finished \/ failures = 0) =>
    json = {total} /\ \A f \in FileNames : buf[f] = <<>>
FinishedLast == finished => mode \in {"fields", "gone", "killed"}
Counted ==
  mode # "killed" =>
    total - Len(accepted) - (IF mode = "flush" THEN 1 ELSE 0) \in 0..failures

LEMMA ClosingParts ==
  /\ ClosingInv <=> FlushedSoFar /\ AllFlushed /\ FinishedLast /\ Counted
  /\ ClosingInv' <=> FlushedSoFar' /\ AllFlushed' /\ FinishedLast' /\ Counted'
BY DEF ClosingInv, FlushedSoFar, AllFlushed, FinishedLast, Counted

\* After an error the recorder is done with the writer, or goes on.
LEMMA FlushFailsEnds ==
  ASSUME TypeOK, FlushFails
  PROVE  /\ mode' \in {"finish", "drop", "idle"}
         /\ mode = "flush" => at' = 1
         /\ mode # "flush" => mode' = "drop"
         /\ failures' = failures + 1 /\ failures \in Nat
         /\ UNCHANGED <<total, accepted, finished>>
<1>1. failures' = failures + 1 /\ failures \in Nat
  BY FlushFailsPuts, SessionConstants DEF TypeOK
<1>2. CASE mode = "flush"
  BY <1>1, <1>2 DEF FlushFails, Erred
<1>3. CASE mode = "finish"
  BY <1>1, <1>3 DEF FlushFails
<1>4. CASE mode = "drop"
  BY <1>1, <1>4 DEF FlushFails
<1> QED
  BY <1>2, <1>3, <1>4 DEF FlushFails

LEMMA FlushedSoFarStep ==
  ASSUME TypeOK, FlushedSoFar, [Next]_vars
  PROVE  FlushedSoFar'
<1>1. ASSUME at' = 1 PROVE FlushedSoFar'
  BY <1>1 DEF FlushedSoFar
<1>2. ASSUME mode' \notin {"flush", "finish", "drop"} PROVE FlushedSoFar'
  BY <1>2 DEF FlushedSoFar
<1>3. CASE FlushNext
  <2>1. /\ Files[at] \in FileNames /\ UNCHANGED failures
        /\ \A f \in FileNames : f = Files[at] => Puts(f, <<>>) /\ buf'[f] = <<>>
    BY <1>3, FlushNextPuts
  <2>2. at' = at + 1 /\ mode' = mode /\ at \in Nat
    BY <1>3 DEF FlushNext, TypeOK
  <2>3. \A g \in FileNames : buf[g] = <<>> \/ g = Files[at] => buf'[g] = <<>>
    BY <2>1 DEF Puts
  <2>4. ASSUME NEW j \in 1..5, j < at', \A k \in 1..5 : k < at => buf[Files[k]] = <<>>
        PROVE  buf'[Files[j]] = <<>>
    <3>1. j < at \/ j = at
      BY <2>2, <2>4
    <3> QED
      BY <2>3, <2>4, <3>1, FilesAre
  <2> QED
    BY <2>1, <2>2, <2>4 DEF FlushedSoFar
<1>4. CASE FlushFails
  <2>1. CASE mode = "flush"
    BY <1>1, <1>4, <2>1, FlushFailsEnds
  <2>2. CASE mode # "flush"
    <3>1. mode' = "drop" /\ failures' # 0
      BY <1>4, <2>2, FlushFailsEnds
    <3> QED
      BY <3>1 DEF FlushedSoFar
  <2> QED
    BY <2>1, <2>2
<1>5. ASSUME NEW s \in Undeclared, Refuse(s) PROVE FlushedSoFar'
  BY <1>1, <1>5 DEF Refuse, Erred
<1>6. ASSUME NEW s \in Declared, NEW r \in RawLens, NEW k \in CondLens, WriteSample(s, r, k)
      PROVE  FlushedSoFar'
  BY <1>1, <1>6 DEF WriteSample
<1>7. CASE PutNext
  BY <1>2, <1>7 DEF PutNext
<1>8. CASE PutFails
  BY <1>1, <1>8 DEF PutFails, Erred
<1>9. CASE Count \/ SampleFlushed \/ Finish \/ Drop \/ WriteJson \/ WriteJsonFails
  <2>1. at' = 1
    BY <1>9 DEF Count, SampleFlushed, Finish, Drop, WriteJson, WriteJsonFails
  <2> QED
    BY <1>1, <2>1
<1>10. CASE DropField \/ Closed \/ Kill
  <2>1. mode' \notin {"flush", "finish", "drop"}
    BY <1>10 DEF DropField, Closed, Kill
  <2> QED
    BY <1>2, <2>1
<1>11. CASE UNCHANGED vars
  BY <1>11 DEF vars, FlushedSoFar
<1> QED
  BY <1>3, <1>4, <1>5, <1>6, <1>7, <1>8, <1>9, <1>10, <1>11 DEF Next

LEMMA AllFlushedStep ==
  ASSUME TypeOK, FlushedSoFar, FinishedLast, AllFlushed, [Next]_vars
  PROVE  AllFlushed' /\ FinishedLast'
<1>1. ASSUME mode' \notin {"fields", "gone"}, finished' = finished,
             mode \notin {"fields", "gone", "killed"}
      PROVE  AllFlushed' /\ FinishedLast'
  BY <1>1 DEF AllFlushed, FinishedLast
<1>2. CASE WriteJson
  <2>1. /\ mode \in {"finish", "drop"} /\ at = 6 /\ mode' = "fields" /\ json' = {total}
        /\ finished' = (mode = "finish") /\ UNCHANGED <<total, failures, buf>>
    BY <1>2, FilesAre DEF WriteJson
  <2>2. ASSUME finished' \/ failures' = 0 PROVE \A f \in FileNames : buf[f] = <<>>
    <3>1. mode = "finish" \/ (mode = "drop" /\ failures = 0)
      BY <2>1, <2>2
    <3>2. \A j \in 1..5 : buf[Files[j]] = <<>>
      BY <2>1, <3>1 DEF FlushedSoFar
    <3>3. \A f \in FileNames : \E j \in 1..5 : f = Files[j]
      BY DEF FileNames, ToSet, Files
    <3> QED
      BY <3>2, <3>3
  <2>3. AllFlushed'
    BY <2>1, <2>2 DEF AllFlushed
  <2> QED
    BY <2>1, <2>3 DEF FinishedLast
<1>3. CASE WriteJsonFails
  <2>1. /\ mode \in {"finish", "drop"} /\ failures' # 0 /\ finished' = finished
    BY <1>3, SessionConstants DEF WriteJsonFails, TypeOK
  <2>2. ~finished
    BY <2>1 DEF FinishedLast
  <2> QED
    BY <2>1, <2>2 DEF AllFlushed, FinishedLast
<1>4. CASE DropField
  <2>1. /\ Files[at] \in FileNames
        /\ \A f \in FileNames : f = Files[at] =>
             Puts(f, <<>>) /\ (buf'[f] = <<>> \/ buf[f] # <<>>)
    BY <1>4, DropFieldPuts
  <2>2. failures' = 0 => failures = 0
    BY FailuresStep
  <2>3. mode = "fields" /\ UNCHANGED <<mode, finished, json, total>>
    BY <1>4 DEF DropField
  <2>4. \A g \in FileNames : buf[g] = <<>> => buf'[g] = <<>>
    BY <2>1 DEF Puts
  <2>5. AllFlushed'
    BY <2>2, <2>3, <2>4 DEF AllFlushed
  <2> QED
    BY <2>3, <2>5 DEF FinishedLast
<1>5. CASE Closed
  BY <1>5 DEF Closed, AllFlushed, FinishedLast
<1>6. CASE Kill
  BY <1>6 DEF Kill, AllFlushed, FinishedLast
<1>7. ASSUME NEW s \in Undeclared, Refuse(s) PROVE AllFlushed' /\ FinishedLast'
  BY <1>1, <1>7 DEF Refuse, Erred
<1>8. ASSUME NEW s \in Declared, NEW r \in RawLens, NEW k \in CondLens, WriteSample(s, r, k)
      PROVE  AllFlushed' /\ FinishedLast'
  BY <1>1, <1>8 DEF WriteSample
<1>9. CASE PutFails
  BY <1>1, <1>9 DEF PutFails, Erred
<1>10. CASE FlushFails
  <2>1. /\ mode' \in {"finish", "drop", "idle"} /\ finished' = finished
        /\ mode \in {"flush", "finish", "drop"}
    BY <1>10, FlushFailsEnds DEF FlushFails
  <2> QED
    BY <1>1, <2>1
<1>11. CASE PutNext \/ Count \/ FlushNext \/ SampleFlushed \/ Finish \/ Drop
  <2>1. /\ mode' \notin {"fields", "gone"} /\ finished' = finished
        /\ mode \notin {"fields", "gone", "killed"}
    BY <1>11 DEF PutNext, Count, FlushNext, SampleFlushed, Finish, Drop
  <2> QED
    BY <1>1, <2>1
<1>12. CASE UNCHANGED vars
  BY <1>12 DEF vars, AllFlushed, FinishedLast
<1> QED
  BY <1>2, <1>3, <1>4, <1>5, <1>6, <1>7, <1>8, <1>9, <1>10, <1>11, <1>12 DEF Next

LEMMA CountedStep ==
  ASSUME TypeOK, Counted, [Next]_vars
  PROVE  Counted'
<1>1. total \in Nat /\ Len(accepted) \in Nat
  <2>1. accepted \in Seq(Samples) /\ total \in Nat
    BY DEF TypeOK
  <2> QED
    BY <2>1, LenProperties
<1>2. failures \in Nat /\ failures' \in Nat /\ failures <= failures'
  BY FailuresStep
<1>3. ASSUME UNCHANGED <<total, accepted>>, mode' # "killed", mode # "killed",
             mode = "flush" <=> mode' = "flush"
      PROVE  Counted'
  <2> DEFINE n == total - Len(accepted) - (IF mode = "flush" THEN 1 ELSE 0)
  <2>1. n \in 0..failures /\ n' = n
    BY <1>3 DEF Counted
  <2> HIDE DEF n
  <2>2. n' \in 0..failures'
    BY <1>2, <2>1
  <2> QED
    BY <2>2 DEF Counted, n
<1>4. ASSUME cur \in Samples, accepted' = Append(accepted, cur)
      PROVE  Len(accepted') = Len(accepted) + 1
  <2>1. accepted \in Seq(Samples)
    BY DEF TypeOK
  <2> QED
    BY <1>4, <2>1, AppendProperties
<1>5. CASE Count
  <2>1. /\ total - Len(accepted) \in 0..failures /\ total' = total + 1
        /\ cur \in Samples /\ failures' = failures
        /\ \/ mode' = "flush" /\ accepted' = accepted
           \/ mode' = "idle" /\ accepted' = Append(accepted, cur)
    <3>1. mode = "write" /\ cur \in Samples
      BY <1>5 DEF Count, TypeOK
    <3> QED
      BY <1>1, <1>5, <3>1 DEF Count, Counted
  <2>2. CASE mode' = "flush" /\ accepted' = accepted
    BY <1>1, <2>1, <2>2 DEF Counted
  <2>3. CASE mode' = "idle" /\ accepted' = Append(accepted, cur)
    BY <1>1, <1>4, <2>1, <2>3 DEF Counted
  <2> QED
    BY <2>1, <2>2, <2>3
<1>6. CASE SampleFlushed
  <2>1. /\ total - Len(accepted) - 1 \in 0..failures /\ total' = total /\ mode' = "idle"
        /\ cur \in Samples /\ accepted' = Append(accepted, cur) /\ failures' = failures
    BY <1>6 DEF SampleFlushed, Counted, TypeOK
  <2> QED
    BY <1>1, <1>4, <2>1 DEF Counted
<1>7. CASE FlushFails
  <2>1. /\ mode' \in {"finish", "drop", "idle"} /\ mode # "killed"
        /\ mode # "flush" => mode' = "drop"
        /\ failures' = failures + 1 /\ UNCHANGED <<total, accepted>>
    BY <1>7, FlushFailsEnds DEF FlushFails
  <2>2. CASE mode # "flush"
    BY <1>3, <2>1, <2>2
  <2>3. CASE mode = "flush"
    <3>1. total - Len(accepted) - 1 \in 0..failures
      BY <2>3 DEF Counted
    <3> QED
      BY <1>1, <1>2, <2>1, <3>1 DEF Counted
  <2> QED
    BY <2>2, <2>3
<1>8. CASE Kill
  BY <1>8 DEF Kill, Counted
<1>9. ASSUME NEW s \in Undeclared, Refuse(s) PROVE Counted'
  BY <1>3, <1>9 DEF Refuse, Erred
<1>10. ASSUME NEW s \in Declared, NEW r \in RawLens, NEW k \in CondLens, WriteSample(s, r, k)
       PROVE  Counted'
  BY <1>3, <1>10 DEF WriteSample
<1>11. CASE PutFails
  BY <1>3, <1>11 DEF PutFails, Erred
<1>12. CASE PutNext \/ FlushNext \/ Finish \/ Drop \/ WriteJson \/ DropField \/ Closed
  <2>1. /\ UNCHANGED <<total, accepted>> /\ mode # "killed" /\ mode' # "killed"
        /\ mode = "flush" <=> mode' = "flush"
    BY <1>12 DEF PutNext, FlushNext, Finish, Drop, WriteJson, DropField, Closed
  <2> QED
    BY <1>3, <2>1
<1>13. CASE WriteJsonFails
  BY <1>3, <1>13 DEF WriteJsonFails
<1>14. CASE UNCHANGED vars
  BY <1>14 DEF vars, Counted
<1> QED
  BY <1>5, <1>6, <1>7, <1>8, <1>9, <1>10, <1>11, <1>12, <1>13, <1>14 DEF Next

\* Once nothing is buffered, what has been written is safe on disk.
LEMMA RecordedSafe ==
  ASSUME TypeOK, \A f \in FileNames : buf[f] = <<>>, NEW s \in Samples, Recorded(s)
  PROVE  Safe(s)
<1>1. \A f \in FileNames : Written(f) = disk[f] /\ disk[f] \in Seq(Item(f))
  BY TypedParts, WrittenType DEF FilesTyped
<1>2. s \in ToSet(disk["csv"])
  <2>1. "csv" \in FileNames
    BY FilesAre
  <2>2. PICK i \in 1..Len(disk["csv"]) : disk["csv"][i] = s
    BY <1>1, <2>1 DEF Recorded, CsvWritten
  <2> QED
    BY <1>1, <2>1, <2>2 DEF ToSet
<1>3. ASSUME NEW d \in Data2 PROVE s \in Loaded(d, IndexOf(d))
  <2>1. d \in FileNames /\ IndexOf(d) \in FileNames
    BY Places
  <2>2. PICK i \in 1..Len(disk[IndexOf(d)]) :
          /\ disk[IndexOf(d)][i].sample = s
          /\ disk[IndexOf(d)][i].offset + disk[IndexOf(d)][i].length <= Len(disk[d])
    BY <1>1, <2>1 DEF Recorded, RowWritten
  <2>3. disk[IndexOf(d)][i] \in ToSet(disk[IndexOf(d)])
    BY <1>1, <2>1, <2>2 DEF ToSet
  <2> QED
    BY <2>2, <2>3 DEF Loaded, InBounds
<1>4. /\ IndexOf("raw") = "index" /\ IndexOf("cond") = "condIndex"
      /\ "raw" \in Data2 /\ "cond" \in Data2
  BY DEF IndexOf, Data2
<1>5. s \in Loaded("raw", "index") /\ s \in Loaded("cond", "condIndex")
  BY <1>3, <1>4
<1> QED
  BY <1>2, <1>5 DEF Safe

LEMMA AcceptedSafe ==
  ASSUME TypeOK, RecordedInv, \A f \in FileNames : buf[f] = <<>>
  PROVE  \A i \in 1..Len(accepted) : Safe(accepted[i])
<1>1. accepted \in Seq(Samples)
  BY DEF TypeOK
<1>2. \A i \in 1..Len(accepted) : accepted[i] \in Samples /\ Recorded(accepted[i])
  BY <1>1, ElementOfSeq DEF RecordedInv
<1> QED
  BY <1>2, RecordedSafe

\* What the two invariants need to begin with.
LEMMA EmptyAtFirst ==
  ASSUME Init
  PROVE  RecordedInv /\ ClosingInv
<1>1. /\ mode = "idle" /\ at = 1 /\ finished = FALSE /\ total = 0 /\ failures = 0
      /\ accepted = <<>>
  BY DEF Init
<1>2. Len(accepted) = 0 /\ Len(<<>>) = 0 /\ <<>> \o <<>> = <<>>
  BY <1>1, EmptySeq, ConcatEmptySeq
<1>3. \A d \in Data2 : offset[d] <= Len(Written(d))
  <2> TAKE d \in Data2
  <2>1. d \in FileNames
    BY Places
  <2> QED
    BY <1>2, <2>1 DEF Init, Written, Data2
<1>4. RecordedInv
  <2>1. \A i \in 1..Len(accepted) : Recorded(accepted[i])
    BY <1>2
  <2> QED
    BY <1>1, <1>3, <2>1 DEF RecordedInv
<1>5. FlushedSoFar /\ AllFlushed /\ FinishedLast
  BY <1>1 DEF FlushedSoFar, AllFlushed, FinishedLast
<1>6. Counted
  <2>1. total - Len(accepted) - (IF mode = "flush" THEN 1 ELSE 0) = 0 /\ 0 \in 0..failures
    <3>1. 0 - 0 - 0 = 0 /\ 0 \in 0..0 /\ "idle" # "flush"
      OBVIOUS
    <3> QED
      BY <1>1, <1>2, <3>1
  <2> QED
    BY <2>1 DEF Counted
<1> QED
  BY <1>4, <1>5, <1>6, ClosingParts

LEMMA ClosingStep ==
  ASSUME TypeOK, ClosingInv, [Next]_vars
  PROVE  ClosingInv'
BY ClosingParts, FlushedSoFarStep, AllFlushedStep, CountedStep

\* Both hold throughout.
THEOREM ClosingCorrect == Spec => [](RecordedInv /\ ClosingInv)
<1>1. Init => RecordedInv /\ ClosingInv
  BY EmptyAtFirst
<1>2. TypeOK /\ TypeOK' /\ RecordedInv /\ ClosingInv /\ [Next]_vars
        => RecordedInv' /\ ClosingInv'
  BY RecordedStep, ClosingStep
<1> QED
  BY <1>1, <1>2, SessionTypeCorrect, PTL DEF Spec

(* A session that finish returned Ok for, or that was dropped and met no     *)
(* error, is complete, whatever the recorder does about errors it met        *)
(* before: every sample accepted is in the CSV and behind a row a reader     *)
(* does not skip, and session.json counts all of them, and at most one more  *)
(* for each error.                                                           *)
THEOREM ClosedComplete == Spec => []ClosedIsComplete
<1>1. TypeOK /\ RecordedInv /\ ClosingInv => ClosedIsComplete
  <2> SUFFICES ASSUME TypeOK, RecordedInv, ClosingInv, mode = "gone", finished \/ failures = 0
               PROVE  /\ \A i \in 1..Len(accepted) : Safe(accepted[i])
                      /\ json = {total}
                      /\ total - Len(accepted) \in 0..failures
    BY DEF ClosedIsComplete
  <2>1. json = {total} /\ \A f \in FileNames : buf[f] = <<>>
    BY DEF ClosingInv
  <2>2. \A i \in 1..Len(accepted) : Safe(accepted[i])
    BY <2>1, AcceptedSafe
  <2>3. total - Len(accepted) \in 0..failures
    <3>1. total \in Nat /\ accepted \in Seq(Samples)
      BY DEF TypeOK
    <3>2. Len(accepted) \in Nat
      BY <3>1, LenProperties
    <3>3. total - Len(accepted) - 0 \in 0..failures
      BY DEF ClosingInv
    <3> QED
      BY <3>1, <3>2, <3>3
  <2> QED
    BY <2>1, <2>2, <2>3
<1> QED
  BY <1>1, SessionTypeCorrect, ClosingCorrect, PTL

-----------------------------------------------------------------------------
(* What a kill costs.                                                      *)

\* Counting on by one, the remainder does too, or the divisor is reached.
LEMMA Divided ==
  ASSUME NEW n \in Nat, NEW k \in Nat \ {0}
  PROVE  n \div k \in Nat /\ n % k \in 0..k - 1 /\ n = (n \div k) * k + (n % k)
OBVIOUS

LEMMA Remainder ==
  ASSUME NEW n \in Nat, NEW k \in Nat \ {0}, NEW q \in Nat, NEW r \in 0..k - 1, n = q * k + r
  PROVE  n % k = r
OBVIOUS

LEMMA NextRemainder ==
  ASSUME NEW n \in Nat, NEW k \in Nat \ {0}
  PROVE  /\ n % k \in 0..k - 1
         /\ (n + 1) % k = 0 \/ (n + 1) % k = (n % k) + 1
<1> DEFINE q == n \div k
           r == n % k
<1>1. q \in Nat /\ r \in 0..k - 1 /\ n = q * k + r
  BY Divided
<1> HIDE DEF q, r
<1>2. CASE r + 1 < k
  <2>1. n + 1 = q * k + (r + 1) /\ r + 1 \in 0..k - 1
    BY <1>1, <1>2
  <2>2. (n + 1) % k = r + 1
    BY <1>1, <2>1, Remainder
  <2> QED
    BY <1>1, <2>2 DEF r
<1>3. CASE r + 1 = k
  <2>1. n + 1 = (q + 1) * k + 0 /\ 0 \in 0..k - 1
    BY <1>1, <1>3
  <2>2. (n + 1) % k = 0
    BY <1>1, <2>1, Remainder
  <2> QED
    BY <1>1, <2>2 DEF r
<1> QED
  BY <1>1, <1>2, <1>3

\* A sample that is safe stays so: no step takes anything back from the disk.
LEMMA SafeKept ==
  ASSUME FilesTyped, FilesTyped', Grow, NEW s, Safe(s)
  PROVE  Safe(s)'
<1>1. \A g \in FileNames :
        /\ Len(disk[g]) \in Nat /\ Len(disk'[g]) \in Nat
        /\ DOMAIN disk[g] = 1..Len(disk[g]) /\ DOMAIN disk'[g] = 1..Len(disk'[g])
        /\ Len(disk[g]) <= Len(disk'[g])
        /\ \A i \in 1..Len(disk[g]) : disk'[g][i] = disk[g][i]
  <2> TAKE g \in FileNames
  <2>1. disk[g] \in Seq(Item(g)) /\ disk'[g] \in Seq(Item(g))
    BY DEF FilesTyped
  <2> QED
    BY <2>1, LenProperties DEF Grow, Begins
<1>2. \A g \in FileNames : ToSet(disk[g]) \subseteq ToSet(disk'[g])
  BY <1>1 DEF ToSet
<1>3. ASSUME NEW d \in Data2, s \in Loaded(d, IndexOf(d)) PROVE s \in Loaded(d, IndexOf(d))'
  <2>1. /\ d \in FileNames /\ IndexOf(d) \in FileNames
        /\ Item(IndexOf(d)) = [offset : Nat, length : Nat, sample : Samples]
    BY Places
  <2>2. PICK row \in ToSet(disk[IndexOf(d)]) :
          row.offset + row.length <= Len(disk[d]) /\ row.sample = s
    BY <1>3 DEF Loaded, InBounds
  <2>3. row \in [offset : Nat, length : Nat, sample : Samples]
    <3>1. disk[IndexOf(d)] \in Seq([offset : Nat, length : Nat, sample : Samples])
      BY <2>1 DEF FilesTyped
    <3>2. PICK i \in 1..Len(disk[IndexOf(d)]) : row = disk[IndexOf(d)][i]
      BY <1>1, <2>1 DEF ToSet
    <3> QED
      BY <3>1, <3>2, ElementOfSeq
  <2>4. row.offset \in Nat /\ row.length \in Nat
    BY <2>3
  <2>5. row \in ToSet(disk'[IndexOf(d)]) /\ row.offset + row.length <= Len(disk'[d])
    BY <1>1, <1>2, <2>1, <2>2, <2>4
  <2> QED
    BY <2>2, <2>5 DEF Loaded, InBounds
<1>4. /\ IndexOf("raw") = "index" /\ IndexOf("cond") = "condIndex"
      /\ "raw" \in Data2 /\ "cond" \in Data2 /\ "csv" \in FileNames
  BY FilesAre DEF IndexOf, Data2
<1>5. s \in Loaded("raw", "index")' /\ s \in Loaded("cond", "condIndex")'
  BY <1>3, <1>4 DEF Safe
<1>6. s \in ToSet(disk'["csv"])
  BY <1>2, <1>4 DEF Safe
<1> QED
  BY <1>5, <1>6 DEF Safe

\* The first part of LossInv: m samples are known to be safe.
SafeUpTo(m) ==
  /\ m \in 0..Len(accepted) /\ Len(accepted) - m < FlushInterval
  /\ \A i \in 1..m : Safe(accepted[i])

LEMMA SafeUpToKept ==
  ASSUME TypeOK, FilesTyped', Grow, NEW m, SafeUpTo(m),
         \/ accepted' = accepted
         \/ /\ accepted' = Append(accepted, cur) /\ cur \in Samples
            /\ Len(accepted) + 1 - m < FlushInterval
  PROVE  SafeUpTo(m)'
<1>1. accepted \in Seq(Samples) /\ Len(accepted) \in Nat /\ FilesTyped
  <2>1. accepted \in Seq(Samples)
    BY DEF TypeOK
  <2> QED
    BY <2>1, LenProperties, TypedParts
<1>2. /\ \A i \in 1..Len(accepted) : accepted'[i] = accepted[i]
      /\ Len(accepted') \in Nat /\ Len(accepted) <= Len(accepted')
      /\ Len(accepted') - m < FlushInterval
  <2>1. CASE accepted' = accepted
    BY <1>1, <2>1 DEF SafeUpTo
  <2>2. CASE /\ accepted' = Append(accepted, cur) /\ cur \in Samples
             /\ Len(accepted) + 1 - m < FlushInterval
    <3>1. /\ Len(accepted') = Len(accepted) + 1
          /\ \A i \in 1..Len(accepted) : accepted'[i] = accepted[i]
      BY <1>1, <2>2, AppendProperties
    <3>2. m \in 0..Len(accepted)
      BY DEF SafeUpTo
    <3> QED
      BY <1>1, <2>2, <3>1, <3>2
  <2> QED
    BY <2>1, <2>2
<1>3. m \in 0..Len(accepted')
  BY <1>1, <1>2 DEF SafeUpTo
<1>4. ASSUME NEW i \in 1..m PROVE (Safe(accepted[i]))'
  <2>1. PICK s : s = accepted[i]
    OBVIOUS
  <2>2. Safe(s)'
    BY <1>1, <2>1, SafeKept DEF SafeUpTo
  <2>3. accepted'[i] = s
    BY <1>1, <1>2, <2>1 DEF SafeUpTo
  <2> QED
    BY <2>2, <2>3 DEF Safe
<1> QED
  BY <1>2, <1>3, <1>4 DEF SafeUpTo

\* AcceptedSafe, of the state a step leads to.
NothingBuffered == \A f \in FileNames : buf[f] = <<>>
AllSafe == \A i \in 1..Len(accepted) : Safe(accepted[i])

LEMMA AcceptedSafeNext == (TypeOK /\ RecordedInv /\ NothingBuffered)' => AllSafe'
<1>1. TypeOK /\ RecordedInv /\ NothingBuffered => AllSafe
  BY AcceptedSafe DEF NothingBuffered, AllSafe
<1> QED
  BY <1>1, PTL

LEMMA LossCount ==
  ASSUME TypeOK, LossInv, FilesTyped', Grow, Count
  PROVE  LossInv'
<1>1. /\ mode = "write" /\ cur \in Samples /\ total' = total + 1 /\ total \in Nat
      /\ accepted \in Seq(Samples)
      /\ IF total' % FlushInterval = 0 THEN mode' = "flush" /\ accepted' = accepted
         ELSE mode' = "idle" /\ accepted' = Append(accepted, cur)
  BY DEF Count, TypeOK
<1>2. total = Len(accepted) /\ FlushInterval \in Nat \ {0} /\ Len(accepted) \in Nat
  BY <1>1, SessionConstants, LenProperties DEF LossInv
<1>3. PICK m \in 0..Len(accepted) :
        SafeUpTo(m) /\ Len(accepted) - m = total % FlushInterval
  BY <1>1 DEF LossInv, SafeUpTo
<1>4. CASE total' % FlushInterval = 0
  <2>1. SafeUpTo(m)'
    BY <1>1, <1>3, <1>4, SafeUpToKept
  <2>2. total' = Len(accepted') + 1 /\ mode' = "flush"
    BY <1>1, <1>2, <1>4
  <2> QED
    BY <1>4, <2>1, <2>2 DEF LossInv, SafeUpTo
<1>5. CASE total' % FlushInterval # 0
  <2>1. total' % FlushInterval = (total % FlushInterval) + 1
        /\ total' % FlushInterval \in 0..FlushInterval - 1
    <3>1. total' \in Nat
      BY <1>1
    <3>2. total' % FlushInterval \in 0..FlushInterval - 1
      BY <1>2, <3>1, NextRemainder
    <3>3. (total + 1) % FlushInterval = 0
          \/ (total + 1) % FlushInterval = (total % FlushInterval) + 1
      BY <1>1, <1>2, NextRemainder
    <3> QED
      BY <1>1, <1>5, <3>2, <3>3
  <2>2. Len(accepted) + 1 - m = total' % FlushInterval
    <3> DEFINE r == total % FlushInterval
               t == total' % FlushInterval
    <3>1. Len(accepted) - m = r /\ t = r + 1 /\ t \in 0..FlushInterval - 1
      BY <1>3, <2>1
    <3> HIDE DEF r, t
    <3> QED
      BY <1>2, <3>1 DEF t
  <2>3. mode' = "idle" /\ accepted' = Append(accepted, cur)
    BY <1>1, <1>5
  <2>4. Len(accepted) + 1 - m < FlushInterval
    <3> DEFINE t == total' % FlushInterval
    <3>1. t \in 0..FlushInterval - 1 /\ Len(accepted) + 1 - m = t
      BY <2>1, <2>2
    <3> HIDE DEF t
    <3> QED
      BY <1>2, <3>1
  <2>5. SafeUpTo(m)'
    BY <1>1, <1>3, <2>3, <2>4, SafeUpToKept
  <2>6. Len(accepted') = Len(accepted) + 1
    BY <1>1, <2>3, AppendProperties
  <2>7. Len(accepted') - m = total' % FlushInterval /\ total' = Len(accepted')
    BY <1>1, <1>2, <2>2, <2>6
  <2> QED
    BY <2>3, <2>5, <2>7 DEF LossInv, SafeUpTo
<1> QED
  BY <1>4, <1>5

\* A flush that is over leaves everything safe, the sample at hand included.
LEMMA LossSampleFlushed ==
  ASSUME TypeOK, TypeOK', LossInv, RecordedInv', ClosingInv, SampleFlushed
  PROVE  LossInv'
<1>1. /\ mode = "flush" /\ at = 6 /\ mode' = "idle" /\ accepted' = Append(accepted, cur)
      /\ cur \in Samples /\ total' = total /\ accepted \in Seq(Samples) /\ total \in Nat
      /\ UNCHANGED <<disk, buf>>
  BY FilesAre DEF SampleFlushed, TypeOK
<1>2. \A f \in FileNames : buf'[f] = <<>>
  <2>1. \A j \in 1..5 : buf[Files[j]] = <<>>
    BY <1>1 DEF ClosingInv
  <2>2. \A f \in FileNames : \E j \in 1..5 : f = Files[j]
    BY DEF FileNames, ToSet, Files
  <2> QED
    BY <1>1, <2>1, <2>2
<1>3. (\A i \in 1..Len(accepted) : Safe(accepted[i]))'
  <2>1. NothingBuffered'
    BY <1>2 DEF NothingBuffered
  <2>2. AllSafe'
    BY <2>1, AcceptedSafeNext
  <2> QED
    BY <2>2 DEF AllSafe
<1>4. /\ Len(accepted') = Len(accepted) + 1 /\ Len(accepted) \in Nat
      /\ total = Len(accepted) + 1 /\ total % FlushInterval = 0
      /\ FlushInterval \in Nat \ {0}
  BY <1>1, AppendProperties, LenProperties, SessionConstants DEF LossInv
<1>5. LET m == Len(accepted')
      IN /\ m \in 0..Len(accepted') /\ Len(accepted') - m < FlushInterval
         /\ Len(accepted') - m = total' % FlushInterval
  BY <1>1, <1>4
<1> QED
  BY <1>1, <1>3, <1>4, <1>5 DEF LossInv

LEMMA LossStep ==
  ASSUME "ignore" \notin OnError, TypeOK, TypeOK', LossInv, RecordedInv', ClosingInv,
         [Next]_vars
  PROVE  LossInv'
<1>1. FilesTyped' /\ Grow
  BY FilesGrow
<1>2. PICK m : /\ SafeUpTo(m)
               /\ mode \in {"idle", "write"} => Len(accepted) - m = total % FlushInterval
  BY DEF LossInv, SafeUpTo
<1>3. ASSUME accepted' = accepted PROVE SafeUpTo(m)'
  BY <1>1, <1>2, <1>3, SafeUpToKept
<1>4. ASSUME accepted' = accepted, mode' \notin {"idle", "write", "flush"} PROVE LossInv'
  <2>1. SafeUpTo(m)'
    BY <1>3, <1>4
  <2> QED
    BY <1>4, <2>1 DEF LossInv, SafeUpTo
<1>5. ASSUME UNCHANGED <<accepted, total>>,
             \/ mode' = mode
             \/ mode \in {"idle", "write"} /\ mode' \in {"idle", "write"}
      PROVE  LossInv'
  <2>1. SafeUpTo(m)'
    BY <1>3, <1>5
  <2>2. mode' \in {"idle", "write"} => Len(accepted') - m = total' % FlushInterval
                                       /\ total' = Len(accepted')
    BY <1>2, <1>5 DEF LossInv
  <2>3. mode' = "flush" => total' = Len(accepted') + 1 /\ total' % FlushInterval = 0
    BY <1>5 DEF LossInv
  <2> QED
    BY <2>1, <2>2, <2>3 DEF LossInv, SafeUpTo
<1>6. CASE Count
  BY <1>1, <1>6, LossCount
<1>7. CASE SampleFlushed
  BY <1>7, LossSampleFlushed
<1>8. CASE PutNext \/ FlushNext
  <2>1. UNCHANGED <<accepted, total, mode>>
    BY <1>8 DEF PutNext, FlushNext
  <2> QED
    BY <1>5, <2>1
<1>9. ASSUME NEW s \in Declared, NEW r \in RawLens, NEW k \in CondLens, WriteSample(s, r, k)
      PROVE  LossInv'
  BY <1>5, <1>9 DEF WriteSample
<1>10. ASSUME NEW s \in Undeclared, Refuse(s) PROVE LossInv'
  BY <1>4, <1>10 DEF Refuse, Erred
<1>11. CASE PutFails
  BY <1>4, <1>11 DEF PutFails, Erred
<1>12. CASE FlushFails
  <2>1. mode' \in {"finish", "drop"} /\ accepted' = accepted
    <3>1. CASE mode = "flush"
      BY <1>12, <3>1 DEF FlushFails, Erred
    <3>2. CASE mode # "flush"
      BY <1>12, <3>2, FlushFailsEnds
    <3> QED
      BY <3>1, <3>2
  <2> QED
    BY <1>4, <2>1
<1>13. CASE Finish \/ Drop \/ WriteJson \/ WriteJsonFails \/ DropField \/ Closed \/ Kill
  <2>1. mode' \in {"finish", "drop", "fields", "gone", "killed"} /\ accepted' = accepted
    BY <1>13 DEF Finish, Drop, WriteJson, WriteJsonFails, DropField, Closed, Kill
  <2> QED
    BY <1>4, <2>1
<1>14. CASE UNCHANGED vars
  BY <1>5, <1>14 DEF vars
<1> QED
  BY <1>6, <1>7, <1>8, <1>9, <1>10, <1>11, <1>12, <1>13, <1>14 DEF Next

LEMMA LossAtFirst ==
  ASSUME Init
  PROVE  LossInv
<1>1. mode = "idle" /\ total = 0 /\ accepted = <<>> /\ Len(<<>>) = 0
  BY EmptySeq DEF Init
<1>2. FlushInterval \in Nat \ {0} /\ 0 % FlushInterval = 0
  BY SessionConstants
<1>3. LET m == 0
      IN /\ m \in 0..Len(accepted) /\ Len(accepted) - m < FlushInterval
         /\ Len(accepted) - m = total % FlushInterval /\ \A i \in 1..m : Safe(accepted[i])
  BY <1>1, <1>2
<1> QED
  BY <1>1, <1>3 DEF LossInv

(* A kill, at any time, costs fewer than FlushInterval of the samples that   *)
(* write_sample accepted, for any interval and any number of samples, errors *)
(* and flushes, provided the recorder stops at an error of write_sample:     *)
(* the rest are in the CSV and behind rows that a reader does not skip.      *)
THEOREM LossIsBounded ==
  ASSUME "ignore" \notin OnError
  PROVE  Spec => []LossBounded
<1>1. Init => LossInv
  BY LossAtFirst
<1>2. TypeOK /\ TypeOK' /\ LossInv /\ (RecordedInv /\ ClosingInv)
        /\ (RecordedInv /\ ClosingInv)' /\ [Next]_vars => LossInv'
  BY LossStep
<1>3. TypeOK /\ LossInv => LossBounded
  <2> SUFFICES ASSUME TypeOK, LossInv PROVE LossBounded
    OBVIOUS
  <2>1. accepted \in Seq(Samples)
    BY DEF TypeOK
  <2>2. Len(accepted) \in Nat /\ FlushInterval \in Nat \ {0}
    BY <2>1, LenProperties, SessionConstants
  <2>3. PICK m \in 0..Len(accepted) :
          (\A i \in 1..m : Safe(accepted[i])) /\ Len(accepted) - m < FlushInterval
    BY DEF LossInv
  <2> DEFINE lost == {i \in 1..Len(accepted) : ~Safe(accepted[i])}
  <2>4. lost \subseteq m + 1..Len(accepted)
    BY <2>2, <2>3
  <2> HIDE DEF lost
  <2>5. m + 1 \in Int /\ Len(accepted) \in Int
    BY <2>2, <2>3
  <2>6. /\ IsFiniteSet(m + 1..Len(accepted))
        /\ Cardinality(m + 1..Len(accepted)) =
             IF m + 1 > Len(accepted) THEN 0 ELSE Len(accepted) - (m + 1) + 1
    BY <2>5, FS_Interval
  <2>7. Cardinality(m + 1..Len(accepted)) = Len(accepted) - m
    BY <2>2, <2>3, <2>6
  <2>8. IsFiniteSet(lost) /\ Cardinality(lost) <= Cardinality(m + 1..Len(accepted))
    BY <2>4, <2>6, FS_Subset
  <2>9. Cardinality(lost) \in Nat
    BY <2>8, FS_CardinalityType
  <2>10. Cardinality(lost) < FlushInterval
    BY <2>2, <2>3, <2>7, <2>8, <2>9
  <2> QED
    BY <2>10 DEF LossBounded, lost
<1> QED
  BY <1>1, <1>2, <1>3, SessionTypeCorrect, ClosingCorrect, PTL DEF Spec
-----------------------------------------------------------------------------
(* The analysis buffers.                                                   *)

\* While nothing has failed, each buffer ends where the samples counted end: at
\* the flush after a sample that one is counted, and not yet accepted.
TailInv ==
  failures = 0 =>
    \A s \in Declared :
      /\ mode \in {"idle", "write"} => tail[s] = LastOf(BytesFrom(s, accepted))
      /\ mode = "flush" => tail[s] = LastOf(BytesFrom(s, Append(accepted, cur)))

\* A set of numbers that has a member has a least one.
LEMMA LeastExists ==
  ASSUME NEW T \in SUBSET Nat, T # {}
  PROVE  \E x \in T : \A y \in T : x <= y
<1> DEFINE R == OpToRel(<, Nat)
<1>1. IsWellFoundedOn(R, Nat)
  BY NatLessThanWellFounded
<1>2. \A x, y \in Nat : <<y, x>> \in R <=> y < x
  BY DEF OpToRel
<1> HIDE DEF R
<1>3. PICK x \in T : \A y \in T : ~(<<y, x>> \in R)
  BY <1>1, WFMin
<1>4. \A y \in T : x <= y
  <2> TAKE y \in T
  <2>1. x \in Nat /\ y \in Nat
    OBVIOUS
  <2>2. ~(y < x)
    BY <1>2, <1>3, <2>1
  <2> QED
    BY <2>1, <2>2
<1> QED
  BY <1>4

\* What upto[i] is, given upto[i - 1].
Added(s, samples, i, before) ==
  IF samples[i].source = s THEN before \o Bytes(samples[i], samples[i].raw) ELSE before

\* u[i] is what the first i samples recorded, for i up to n.
Upto(u, n, s, samples) ==
  u = [i \in 0..n |-> IF i = 0 THEN <<>> ELSE Added(s, samples, i, u[i-1])]

\* The raw bytes of a sample are items of a raw file.
LEMMA BytesType == ASSUME NEW x \in Samples PROVE Bytes(x, x.raw) \in Seq(Item("raw"))
<1>1. x.raw \in Nat
  BY SessionConstants DEF Samples
<1>2. Item("raw") = [sample : Samples, pos : Nat]
  BY DEF Item
<1>3. \A n \in Nat : Bytes(x, n) \in Seq([sample : Samples, pos : Nat])
  BY DEF Bytes
<1> QED
  BY <1>1, <1>2, <1>3

\* A sample adds items of a raw file to what was recorded before it.
LEMMA AddedType ==
  ASSUME NEW s, NEW samples \in Seq(Samples), NEW i \in 1..Len(samples),
         NEW before \in Seq(Item("raw"))
  PROVE  Added(s, samples, i, before) \in Seq(Item("raw"))
<1> DEFINE x == samples[i]
<1>1. x \in Samples
  BY ElementOfSeq
<1> HIDE DEF x
<1>2. Bytes(x, x.raw) \in Seq(Item("raw"))
  BY <1>1, BytesType
<1> QED
  BY <1>2, ConcatProperties DEF Added, x

\* There is such a function,
LEMMA UptoExists ==
  ASSUME NEW s, NEW samples \in Seq(Samples)
  PROVE  \E u \in [0..Len(samples) -> Seq(Item("raw"))] : Upto(u, Len(samples), s, samples)
<1> DEFINE n == Len(samples)
           Some(k) == {u \in [0..k -> Seq(Item("raw"))] : Upto(u, k, s, samples)}
           T == {k \in 0..n : Some(k) = {}}
<1>1. n \in Nat
  BY LenProperties
<1> SUFFICES ASSUME T # {} PROVE FALSE
  <2>1. n \in 0..n
    BY <1>1
  <2> QED
    BY <2>1
<1>2. PICK k \in T : \A j \in T : k <= j
  <2>1. T \in SUBSET Nat
    OBVIOUS
  <2> QED
    BY <2>1, LeastExists
<1>3. k \in 0..n /\ Some(k) = {}
  OBVIOUS
<1> HIDE DEF T
<1>4. CASE k = 0
  <2> DEFINE u == [i \in 0..0 |-> <<>>]
  <2>1. u \in [0..0 -> Seq(Item("raw"))]
    OBVIOUS
  <2>2. Upto(u, 0, s, samples)
    <3>1. u = [i \in 0..0 |-> IF i = 0 THEN <<>> ELSE Added(s, samples, i, u[i-1])]
      OBVIOUS
    <3> QED
      BY <3>1 DEF Upto
  <2> QED
    BY <1>3, <1>4, <2>1, <2>2
<1>5. CASE k # 0
  <2>1. k - 1 \in 0..n /\ k \in 1..n /\ k \in Nat
    BY <1>1, <1>3, <1>5
  <2>2. k - 1 \notin T
    BY <1>2, <2>1
  <2>3. PICK v \in [0..k - 1 -> Seq(Item("raw"))] : Upto(v, k - 1, s, samples)
    <3>1. Some(k - 1) # {}
      BY <2>1, <2>2 DEF T
    <3> QED
      BY <3>1
  <2> DEFINE last == Added(s, samples, k, v[k - 1])
             w == [i \in 0..k |-> IF i < k THEN v[i] ELSE last]
  <2>4. last \in Seq(Item("raw"))
    <3>1. k - 1 \in 0..k - 1
      BY <2>1
    <3>2. v[k - 1] \in Seq(Item("raw"))
      BY <2>3, <3>1
    <3> QED
      BY <2>1, <3>2, AddedType DEF n
  <2> HIDE DEF last
  <2>5. w \in [0..k -> Seq(Item("raw"))]
    BY <2>1, <2>3, <2>4
  <2>6. \A i \in 0..k : w[i] = IF i = 0 THEN <<>> ELSE Added(s, samples, i, w[i-1])
    <3> TAKE i \in 0..k
    <3>1. \A j \in 0..k - 1 : v[j] = IF j = 0 THEN <<>> ELSE Added(s, samples, j, v[j-1])
      BY <2>3 DEF Upto
    <3>2. CASE i = k
      <4>1. w[i] = last /\ w[i-1] = v[k-1]
        BY <2>1, <3>2
      <4> QED
        BY <1>5, <3>2, <4>1 DEF last
    <3>3. CASE i # k
      <4>1. i \in 0..k - 1 /\ w[i] = v[i] /\ (i # 0 => w[i-1] = v[i-1])
        BY <2>1, <3>3
      <4> QED
        BY <3>1, <4>1
    <3> QED
      BY <3>2, <3>3
  <2> HIDE DEF w
  <2>7. Upto(w, k, s, samples)
    BY <2>5, <2>6 DEF Upto
  <2> QED
    BY <1>3, <2>5, <2>7
<1> QED
  BY <1>4, <1>5

\* BytesFrom is its last value,
LEMMA BytesFromIs ==
  ASSUME NEW s, NEW samples \in Seq(Samples)
  PROVE  \E u : Upto(u, Len(samples), s, samples) /\ BytesFrom(s, samples) = u[Len(samples)]
<1>1. \E u : Upto(u, Len(samples), s, samples)
  BY UptoExists
<1> QED
  BY <1>1 DEF BytesFrom, Upto, Added

\* and two such functions agree as far as the samples do.
LEMMA UptoAgree ==
  ASSUME NEW s, NEW one, NEW two, NEW u, NEW v, NEW m \in Nat, NEW n \in Nat, NEW h \in Nat,
         Upto(u, m, s, one), Upto(v, n, s, two), h <= m, h <= n,
         \A i \in 1..h : one[i] = two[i]
  PROVE  u[h] = v[h]
<1> DEFINE T == {i \in 0..h : u[i] # v[i]}
<1> SUFFICES ASSUME T # {} PROVE FALSE
  <2>1. h \in 0..h
    OBVIOUS
  <2> QED
    BY <2>1
<1>1. PICK k \in T : \A j \in T : k <= j
  <2>1. T \in SUBSET Nat
    OBVIOUS
  <2> QED
    BY <2>1, LeastExists
<1>2. k \in 0..h /\ u[k] # v[k]
  OBVIOUS
<1> HIDE DEF T
<1>3. k # 0 => k - 1 \in 0..h /\ k \in 1..h /\ ~(k <= k - 1)
  BY <1>2
<1>4. k # 0 => u[k - 1] = v[k - 1]
  BY <1>1, <1>3 DEF T
<1>5. k \in 0..m /\ k \in 0..n
  BY <1>2
<1>6. u[k] = IF k = 0 THEN <<>> ELSE Added(s, one, k, u[k-1])
  BY <1>5 DEF Upto
<1>7. v[k] = IF k = 0 THEN <<>> ELSE Added(s, two, k, v[k-1])
  BY <1>5 DEF Upto
<1> QED
  BY <1>2, <1>3, <1>4, <1>6, <1>7 DEF Added

\* What samples recorded from a source is a sequence of raw items.
LEMMA BytesFromType ==
  ASSUME NEW s, NEW samples \in Seq(Samples)
  PROVE  BytesFrom(s, samples) \in Seq(Item("raw"))
<1> DEFINE n == Len(samples)
<1>1. n \in Nat /\ n \in 0..n
  BY LenProperties
<1>2. PICK u : Upto(u, n, s, samples) /\ BytesFrom(s, samples) = u[n]
  BY BytesFromIs
<1>3. PICK v \in [0..n -> Seq(Item("raw"))] : Upto(v, n, s, samples)
  BY UptoExists
<1> HIDE DEF n
<1>4. u[n] = v[n]
  BY <1>1, <1>2, <1>3, UptoAgree
<1> QED
  BY <1>1, <1>2, <1>3, <1>4

\* No samples recorded nothing.
LEMMA BytesFromNothing == ASSUME NEW s PROVE BytesFrom(s, <<>>) = <<>>
<1>1. <<>> \in Seq(Samples) /\ Len(<<>>) = 0
  OBVIOUS
<1>2. PICK u : Upto(u, 0, s, <<>>) /\ BytesFrom(s, <<>>) = u[0]
  BY <1>1, BytesFromIs
<1> QED
  BY <1>2 DEF Upto

\* One sample more adds its bytes, if it is from s.
LEMMA BytesFromAppend ==
  ASSUME NEW s, NEW samples \in Seq(Samples), NEW x \in Samples
  PROVE  BytesFrom(s, Append(samples, x)) =
           IF x.source = s THEN BytesFrom(s, samples) \o Bytes(x, x.raw)
           ELSE BytesFrom(s, samples)
<1> DEFINE n == Len(samples)
           more == Append(samples, x)
<1>1. n \in Nat /\ more \in Seq(Samples) /\ Len(more) = n + 1 /\ more[n + 1] = x
      /\ \A i \in 1..n : more[i] = samples[i]
  BY LenProperties, AppendProperties
<1>2. PICK u : Upto(u, n, s, samples) /\ BytesFrom(s, samples) = u[n]
  BY BytesFromIs
<1>3. PICK v : Upto(v, n + 1, s, more) /\ BytesFrom(s, more) = v[n + 1]
  BY <1>1, BytesFromIs
<1> HIDE DEF n, more
<1>4. v[n] = u[n]
  BY <1>1, <1>2, <1>3, UptoAgree
<1>5. v[n + 1] = Added(s, more, n + 1, v[n])
  <2>1. n + 1 \in 0..n + 1 /\ n + 1 # 0 /\ n + 1 - 1 = n
    BY <1>1
  <2> QED
    BY <1>3, <2>1 DEF Upto
<1> QED
  BY <1>1, <1>2, <1>3, <1>4, <1>5 DEF Added, more

\* The end of a sequence, element by element.
LEMMA LastOfIs ==
  ASSUME NEW S, NEW s \in Seq(S), NEW n \in Nat,
         n = IF Len(s) > AnalysisCap THEN AnalysisCap ELSE Len(s)
  PROVE  /\ LastOf(s) \in Seq(S) /\ Len(LastOf(s)) = n
         /\ Len(s) - n \in Nat
         /\ \A i \in 1..n : LastOf(s)[i] = s[Len(s) - n + i]
<1> DEFINE k == Len(s) - n
<1>1. k \in 0..Len(s) /\ k + 1 = Len(s) - n + 1 /\ Len(s) - k = n /\ k \in Nat
  BY SessionConstants, LenProperties
<1>2. LastOf(s) = SubSeq(s, k + 1, Len(s))
  BY <1>1 DEF LastOf
<1> HIDE DEF k
<1>3. /\ SubSeq(s, k + 1, Len(s)) \in Seq(S)
      /\ Len(SubSeq(s, k + 1, Len(s))) = Len(s) - k
      /\ \A i \in 1..(Len(s) - k) : SubSeq(s, k + 1, Len(s))[i] = s[k + i]
  BY <1>1, Split
<1> QED
  BY <1>1, <1>2, <1>3 DEF k

\* A push into a buffer that holds the end of all leaves in it the end of all
\* and what is pushed.
LEMMA PushedIsLast ==
  ASSUME NEW S, NEW all \in Seq(S), NEW new \in Seq(S)
  PROVE  Pushed(LastOf(all), new) = LastOf(all \o new)
<1> DEFINE a == Len(all)
           b == Len(new)
           old == LastOf(all)
           both == all \o new
<1>0. PICK cap, m, n : /\ cap = AnalysisCap
                       /\ m = IF a > cap THEN cap ELSE a
                       /\ n = IF a + b > cap THEN cap ELSE a + b
  OBVIOUS
<1>1. a \in Nat /\ b \in Nat /\ cap \in Nat /\ m \in Nat /\ n \in Nat
  BY <1>0, SessionConstants, LenProperties
<1>2. /\ both \in Seq(S) /\ Len(both) = a + b
      /\ \A i \in 1..a : both[i] = all[i]
      /\ \A i \in 1..b : both[a + i] = new[i]
  BY Concat DEF Begins
<1>3. old \in Seq(S) /\ Len(old) = m /\ \A i \in 1..m : old[i] = all[a - m + i]
  BY <1>0, <1>1, LastOfIs
<1> HIDE DEF both, old
<1>4. /\ LastOf(both) \in Seq(S) /\ Len(LastOf(both)) = n
      /\ \A i \in 1..n : LastOf(both)[i] = both[a + b - n + i]
  <2>1. n = IF Len(both) > AnalysisCap THEN AnalysisCap ELSE Len(both)
    BY <1>0, <1>2
  <2>2. /\ LastOf(both) \in Seq(S) /\ Len(LastOf(both)) = n
        /\ \A i \in 1..n : LastOf(both)[i] = both[Len(both) - n + i]
    <3>1. both \in Seq(S) /\ n \in Nat
      BY <1>1, <1>2
    <3> HIDE DEF a, b
    <3> QED
      BY <2>1, <3>1, LastOfIs
  <2>3. Len(both) = a + b
    BY <1>2
  <2> HIDE DEF a, b
  <2> QED
    BY <1>1, <2>2, <2>3
<1>5. CASE b >= cap
  <2> DEFINE k == b - cap
             end == SubSeq(new, k + 1, b)
  <2>1. k \in 0..b /\ b - k = cap /\ n = cap
    BY <1>0, <1>1, <1>5
  <2>2. Pushed(old, new) = end
    BY <1>0, <1>5 DEF Pushed
  <2> HIDE DEF k
  <2>3. end \in Seq(S) /\ Len(end) = cap /\ \A i \in 1..cap : end[i] = new[k + i]
    BY <2>1, Split
  <2> HIDE DEF end
  <2>4. \A i \in 1..cap : LastOf(both)[i] = new[k + i]
    <3> TAKE i \in 1..cap
    <3>1. a + b - n + i = a + (k + i) /\ k + i \in 1..b
      BY <1>1, <2>1 DEF k
    <3>2. both[a + (k + i)] = new[k + i]
      BY <1>2, <3>1
    <3> QED
      BY <1>4, <2>1, <3>1, <3>2
  <2>5. end = LastOf(both)
    BY <1>4, <2>1, <2>3, <2>4, SeqEqual
  <2> QED
    BY <2>2, <2>5 DEF old, both
<1>6. CASE ~(b >= cap)
  <2> DEFINE drop == IF m + b > cap THEN m + b - cap ELSE 0
             kept == SubSeq(old, drop + 1, m)
             now == kept \o new
  <2>1. drop \in 0..m /\ m - drop + b = n /\ a - m \in Nat /\ a - m + drop = a + b - n
    <3> HIDE DEF a, b
    <3> QED
      BY <1>0, <1>1, <1>6
  <2>2. Pushed(old, new) = now
    <3>1. Len(old) = m /\ Len(new) = b /\ AnalysisCap = cap /\ ~(Len(new) >= AnalysisCap)
      BY <1>0, <1>3, <1>6
    <3>2. Pushed(old, new) = SubSeq(old, drop + 1, Len(old)) \o new
      <4>1. drop = IF Len(old) + Len(new) > AnalysisCap
                   THEN Len(old) + Len(new) - AnalysisCap ELSE 0
        BY <3>1
      <4> HIDE DEF drop, a, b
      <4> QED
        BY <1>1, <3>1, <4>1 DEF Pushed
    <3> HIDE DEF drop
    <3> QED
      BY <3>1, <3>2
  <2> HIDE DEF drop
  <2>3. /\ kept \in Seq(S) /\ Len(kept) = m - drop
        /\ \A i \in 1..(m - drop) : kept[i] = old[drop + i]
    BY <1>3, <2>1, Split
  <2> HIDE DEF kept
  <2>4. /\ now \in Seq(S) /\ Len(now) = n
        /\ \A i \in 1..(m - drop) : now[i] = kept[i]
        /\ \A i \in 1..b : now[m - drop + i] = new[i]
    <3>1. Len(kept) = m - drop /\ Len(new) = b /\ m - drop + b = n
      BY <2>1, <2>3
    <3>2. kept \in Seq(S)
      BY <2>3
    <3>3. /\ now \in Seq(S) /\ Len(now) = Len(kept) + Len(new) /\ Begins(kept, now)
          /\ \A i \in 1..Len(new) : now[Len(kept) + i] = new[i]
      BY <3>2, Concat
    <3> HIDE DEF now, a, b
    <3> QED
      BY <3>1, <3>3 DEF Begins
  <2> HIDE DEF now
  <2>5. ASSUME NEW i \in 1..n PROVE now[i] = LastOf(both)[i]
    <3>1. CASE i <= m - drop
      <4>1. i \in 1..(m - drop) /\ drop + i \in 1..m /\ a - m + (drop + i) \in 1..a
            /\ a + b - n + i = a - m + (drop + i)
        BY <1>1, <2>1, <3>1
      <4>2. now[i] = all[a - m + (drop + i)]
        BY <1>3, <2>3, <2>4, <4>1
      <4>3. LastOf(both)[i] = both[a - m + (drop + i)]
        BY <1>4, <4>1
      <4> QED
        BY <1>2, <4>1, <4>2, <4>3
    <3>2. CASE ~(i <= m - drop)
      <4> DEFINE j == i - (m - drop)
      <4>1. j \in 1..b /\ m - drop + j = i /\ a + b - n + i = a + j
        BY <1>1, <2>1, <3>2
      <4> HIDE DEF j
      <4>2. now[i] = new[j]
        BY <2>4, <4>1
      <4>3. LastOf(both)[i] = both[a + j]
        BY <1>4, <4>1
      <4> QED
        BY <1>2, <4>1, <4>2, <4>3
    <3> QED
      BY <3>1, <3>2
  <2>6. now = LastOf(both)
    BY <1>4, <2>4, <2>5, SeqEqual
  <2> QED
    BY <2>2, <2>6 DEF old, both
<1> QED
  BY <1>5, <1>6

\* The one step that pushes bytes into a buffer, the counting of a sample.
LEMMA TailCount ==
  ASSUME TypeOK, TailInv, Count
  PROVE  TailInv'
<1> SUFFICES ASSUME failures' = 0, NEW s \in Declared
             PROVE  /\ mode' \in {"idle", "write"} => tail'[s] = LastOf(BytesFrom(s, accepted'))
                    /\ mode' = "flush" => tail'[s] = LastOf(BytesFrom(s, Append(accepted', cur')))
  BY DEF TailInv
<1>1. cur \in Samples /\ accepted \in Seq(Samples) /\ failures = 0 /\ cur.raw \in Nat
      /\ DOMAIN tail = Declared
  <2>1. cur \in Samples /\ accepted \in Seq(Samples) /\ failures = 0 /\ DOMAIN tail = Declared
    BY DEF TypeOK, Count
  <2> QED
    BY <2>1, SessionConstants DEF Samples
<1>2. tail[s] = LastOf(BytesFrom(s, accepted))
  BY <1>1 DEF TailInv, Count
<1>3. tail'[s] = IF s = cur.source THEN Pushed(tail[s], Bytes(cur, cur.raw)) ELSE tail[s]
  BY <1>1 DEF Count
<1>4. tail'[s] = LastOf(BytesFrom(s, Append(accepted, cur)))
  <2>1. BytesFrom(s, accepted) \in Seq(Item("raw"))
    BY <1>1, BytesFromType
  <2>2. Bytes(cur, cur.raw) \in Seq(Item("raw"))
    BY <1>1, BytesType
  <2>3. Pushed(LastOf(BytesFrom(s, accepted)), Bytes(cur, cur.raw))
          = LastOf(BytesFrom(s, accepted) \o Bytes(cur, cur.raw))
    BY <2>1, <2>2, PushedIsLast
  <2>4. BytesFrom(s, Append(accepted, cur)) =
          IF cur.source = s THEN BytesFrom(s, accepted) \o Bytes(cur, cur.raw)
          ELSE BytesFrom(s, accepted)
    BY <1>1, BytesFromAppend
  <2> QED
    BY <1>2, <1>3, <2>3, <2>4
<1>5. \/ mode' = "flush" /\ accepted' = accepted /\ cur' = cur
      \/ mode' = "idle" /\ accepted' = Append(accepted, cur)
  BY DEF Count
<1> QED
  BY <1>4, <1>5

\* Every step keeps TailInv: a failure makes it vacuous, and the others but Count
\* leave the buffers and what was accepted as they are.
LEMMA TailStep ==
  ASSUME TypeOK, TailInv, [Next]_vars
  PROVE  TailInv'
<1>1. CASE Count
  BY <1>1, TailCount
<1>2. CASE SampleFlushed
  BY <1>2 DEF TailInv, SampleFlushed
<1>3. CASE PutNext \/ FlushNext
  <2>1. UNCHANGED <<tail, accepted, cur, mode>>
    BY <1>3 DEF PutNext, FlushNext
  <2>2. failures' = failures
    BY <1>3 DEF PutNext, FlushNext, Buffered, Flushed
  <2> QED
    BY <2>1, <2>2 DEF TailInv
<1>4. CASE PutFails \/ FlushFails \/ WriteJsonFails
  <2>1. failures \in Nat
    BY DEF TypeOK
  <2>2. failures' = failures + 1
    <3>1. \A f, data : Failed(f, data) => failures' = failures + 1
      BY DEF Failed
    <3> QED
      BY <1>4, <3>1 DEF PutFails, FlushFails, WriteJsonFails
  <2> QED
    BY <2>1, <2>2 DEF TailInv
<1>5. ASSUME NEW s \in Declared, NEW r \in RawLens, NEW k \in CondLens, WriteSample(s, r, k)
      PROVE  TailInv'
  BY <1>5 DEF TailInv, WriteSample
<1>6. ASSUME NEW s \in Undeclared, Refuse(s) PROVE TailInv'
  <2>1. mode = "idle" /\ mode' \in {"finish", "drop", "idle"}
        /\ UNCHANGED <<tail, accepted, failures>>
    BY <1>6 DEF Refuse, Erred
  <2> QED
    BY <2>1 DEF TailInv
<1>7. CASE Finish \/ Drop \/ WriteJson \/ DropField \/ Closed \/ Kill
  <2>1. mode' \in {"finish", "drop", "fields", "gone", "killed"}
    BY <1>7 DEF Finish, Drop, WriteJson, DropField, Closed, Kill
  <2> QED
    BY <2>1 DEF TailInv
<1>8. CASE UNCHANGED vars
  BY <1>8 DEF TailInv, vars
<1> QED
  BY <1>1, <1>2, <1>3, <1>4, <1>5, <1>6, <1>7, <1>8 DEF Next

\* As long as no write has failed, an analysis buffer between two samples holds
\* the last AnalysisCap bytes recorded from its source, for any capacity and any
\* lengths of the samples, those longer than the buffer included.
THEOREM TailsKept == Spec => []AnalysisKeepsTail
<1>1. Init => TailInv
  <2> SUFFICES ASSUME Init, NEW s \in Declared
               PROVE  tail[s] = LastOf(BytesFrom(s, accepted))
    BY DEF Init, TailInv
  <2>1. LastOf(<<>>) = <<>>
    <3>1. /\ <<>> \in Seq({}) /\ Len(<<>>) = 0
          /\ 0 = IF Len(<<>>) > AnalysisCap THEN AnalysisCap ELSE Len(<<>>)
      BY SessionConstants
    <3>2. LastOf(<<>>) \in Seq({}) /\ Len(LastOf(<<>>)) = 0
      BY <3>1, LastOfIs
    <3> QED
      BY <3>2, EmptySeq
  <2> QED
    BY <2>1, BytesFromNothing DEF Init
<1>2. TailInv => AnalysisKeepsTail
  BY DEF TailInv, AnalysisKeepsTail
<1>3. TypeOK /\ TailInv /\ [Next]_vars => TailInv'
  BY TailStep
<1> QED
  BY <1>1, <1>2, <1>3, SessionTypeCorrect, PTL DEF Spec
=============================================================================
