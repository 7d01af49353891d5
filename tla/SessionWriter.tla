--------------------------- MODULE SessionWriter ---------------------------
(***************************************************************************)
(* One recording session: SessionWriter and load_session_raw_data          *)
(* (crates/openentropy-core/src/session.rs), driven by a recorder that     *)
(* stops at a write error (record.rs, record_bindings.rs) or ignores it    *)
(* (tui/app.rs).  A sample goes through five files, each behind a          *)
(* BufWriter of its own; the process may be killed between any two writes, *)
(* and any write may fail after putting part of its data on disk.          *)
(*                                                                         *)
(* A file is a sequence: of samples for samples.csv, of bytes for the two  *)
(* data files, of rows for their indexes.  A byte is [sample, pos], a row  *)
(* carries its sample where the file has timestamp and source.             *)
(***************************************************************************)
EXTENDS Naturals, Sequences, FiniteSets, SequencesExt

CONSTANTS
  Declared,      \* config.sources
  Undeclared,    \* sources the recorder also collects from
  RawLens,       \* lengths of raw samples
  CondLens,      \* lengths of conditioned samples
  FlushInterval, \* FLUSH_INTERVAL, 64
  AnalysisCap,   \* bytes the analysis buffer keeps per source, 128 KiB
  OnError,       \* what the recorder does with an error of write_sample
  MaxSamples,    \* bound: calls of write_sample that write
  MaxFailures    \* bound: failing writes

ASSUME SessionConstants ==
  /\ Declared \cap Undeclared = {}
  /\ RawLens \subseteq Nat /\ CondLens \subseteq Nat
  /\ FlushInterval \in Nat \ {0}
  /\ AnalysisCap \in Nat
  /\ OnError \subseteq {"finish", "drop", "ignore"}
  /\ MaxSamples \in Nat /\ MaxFailures \in Nat

\* write_sample writes, and flush_all flushes, in this order.
Files == <<"csv", "raw", "cond", "index", "condIndex">>
FileNames == ToSet(Files)
Done == Len(Files) + 1

VARIABLES
  disk,     \* disk[f]: what has reached file f
  buf,      \* buf[f]: the content of its BufWriter
  offset,   \* offset["raw"] = raw_offset, offset["cond"] = conditioned_offset
  total,    \* total_samples
  counts,   \* samples_per_source
  tail,     \* analysis_buffer
  json,     \* total_samples in session.json, {} while there is no valid one
  finished, \* finished
  mode,     \* what the recorder's thread is doing with the writer
  at,       \* the file its next write or flush is for
  cur,      \* the arguments of write_sample
  accepted, \* history: samples for which write_sample returned Ok
  started,  \* history: calls of write_sample that wrote
  failures  \* history: failed writes

vars == <<disk, buf, offset, total, counts, tail, json, finished, mode, at,
          cur, accepted, started, failures>>

\* "fields": the writer's BufWriters are dropped after its own Drop ran.
Modes == {"idle", "write", "flush", "finish", "drop", "fields", "gone", "killed"}

Samples == [id : Nat, source : Declared, raw : RawLens, cond : CondLens]
NoSample == [id |-> 0]

Bytes(s, n) == [p \in 1..n |-> [sample |-> s, pos |-> p]]

\* What file f is a sequence of.
Item(f) ==
  CASE f = "csv" -> Samples
    [] f \in {"raw", "cond"} -> [sample : Samples, pos : Nat]
    [] OTHER -> [offset : Nat, length : Nat, sample : Samples]

TypeOK ==
  /\ DOMAIN disk = FileNames /\ \A f \in FileNames : disk[f] \in Seq(Item(f))
  /\ DOMAIN buf = FileNames /\ \A f \in FileNames : buf[f] \in Seq(Item(f))
  /\ offset \in [{"raw", "cond"} -> Nat]
  /\ total \in Nat
  /\ counts \in [Declared -> Nat]
  /\ DOMAIN tail = Declared
  /\ \A s \in Declared : tail[s] \in Seq(Item("raw")) /\ Len(tail[s]) <= AnalysisCap
  /\ json \subseteq Nat /\ Cardinality(json) <= 1
  /\ finished \in BOOLEAN
  /\ mode \in Modes
  /\ at \in 1..Done
  /\ cur \in Samples \cup {NoSample}
  /\ mode \in {"write", "flush"} => cur \in Samples
  /\ accepted \in Seq(Samples)
  /\ started \in 0..MaxSamples
  /\ failures \in 0..MaxFailures

Init ==
  /\ disk = [f \in FileNames |-> <<>>]
  /\ buf = [f \in FileNames |-> <<>>]
  /\ offset = [d \in {"raw", "cond"} |-> 0]
  /\ total = 0
  /\ counts = [s \in Declared |-> 0]
  /\ tail = [s \in Declared |-> <<>>]
  /\ json = {}
  /\ finished = FALSE
  /\ mode = "idle"
  /\ at = 1
  /\ cur = NoSample
  /\ accepted = <<>>
  /\ started = 0
  /\ failures = 0

-----------------------------------------------------------------------------
(* BufWriter                                                               *)

\* write_all of data into f: absorbed by the buffer, or after spilling what was
\* there, or, data being large, written through.
Buffered(f, data) ==
  /\ UNCHANGED failures
  /\ \/ buf' = [buf EXCEPT ![f] = @ \o data] /\ UNCHANGED disk
     \/ disk' = [disk EXCEPT ![f] = @ \o buf[f]] /\ buf' = [buf EXCEPT ![f] = data]
     \/ /\ disk' = [disk EXCEPT ![f] = @ \o buf[f] \o data]
        /\ buf' = [buf EXCEPT ![f] = <<>>]

Flushed(f) ==
  /\ disk' = [disk EXCEPT ![f] = @ \o buf[f]]
  /\ buf' = [buf EXCEPT ![f] = <<>>]
  /\ UNCHANGED failures

\* A write fails after n items of the buffer and of data reached the disk.
\* What was in the buffer and did not stays there; data is dropped.
Failed(f, data) ==
  /\ failures < MaxFailures
  /\ failures' = failures + 1
  /\ \E n \in 0..Len(buf[f]) + Len(data) :
       /\ n < Len(buf[f]) + Len(data)
       /\ disk' = [disk EXCEPT ![f] = @ \o SubSeq(buf[f] \o data, 1, n)]
       /\ buf' = [buf EXCEPT ![f] = SubSeq(@, n + 1, Len(@))]

-----------------------------------------------------------------------------
(* write_sample                                                            *)

\* write_sample returned an error, and the recorder stops, returns or goes on.
Erred ==
  /\ at' = 1
  /\ cur' = NoSample
  /\ mode' \in (IF "finish" \in OnError THEN {"finish"} ELSE {})
               \cup (IF "drop" \in OnError THEN {"drop"} ELSE {})
               \cup (IF "ignore" \in OnError THEN {"idle"} ELSE {})

\* A sample of a source the session did not declare is refused.
Refuse(source) ==
  /\ mode = "idle"
  /\ source \in Undeclared
  /\ Erred
  /\ UNCHANGED <<disk, buf, offset, total, counts, tail, json, finished,
                 accepted, started, failures>>

\* A call with raw bytes; one without returns Ok having done nothing.
WriteSample(source, raw, cond) ==
  /\ mode = "idle"
  /\ started < MaxSamples
  /\ raw > 0
  /\ mode' = "write"
  /\ at' = 1
  /\ started' = started + 1
  /\ cur' = [id |-> started', source |-> source, raw |-> raw, cond |-> cond]
  /\ UNCHANGED <<disk, buf, offset, total, counts, tail, json, finished,
                 accepted, failures>>

\* What write_sample puts into f.
Data(f) ==
  CASE f = "csv" -> <<cur>>
    [] f = "raw" -> Bytes(cur, cur.raw)
    [] f = "cond" -> Bytes(cur, cur.cond)
    [] f = "index" -> <<[offset |-> offset["raw"], length |-> cur.raw, sample |-> cur]>>
    [] f = "condIndex" ->
         <<[offset |-> offset["cond"], length |-> cur.cond, sample |-> cur]>>

PutNext ==
  /\ mode = "write"
  /\ at < Done
  /\ Buffered(Files[at], Data(Files[at]))
  /\ at' = at + 1
  /\ UNCHANGED <<offset, total, counts, tail, json, finished, mode, cur,
                 accepted, started>>

\* A write fails: write_sample returns before it advances the offsets.
PutFails ==
  /\ mode = "write"
  /\ at < Done
  /\ Failed(Files[at], Data(Files[at]))
  /\ Erred
  /\ UNCHANGED <<offset, total, counts, tail, json, finished, accepted, started>>

\* Fault: a push that needs room starts the buffer anew.
PushedAnew(old, new) ==
  IF Len(old) + Len(new) > AnalysisCap
  THEN SubSeq(new, IF Len(new) > AnalysisCap THEN Len(new) - AnalysisCap + 1 ELSE 1,
              Len(new))
  ELSE old \o new

\* AnalysisBuffer::push: more than fits pushes the oldest bytes out.
Pushed(old, new) ==
  IF Len(new) >= AnalysisCap
  THEN SubSeq(new, Len(new) - AnalysisCap + 1, Len(new))
  ELSE LET overflow == Len(old) + Len(new)
           drop == IF overflow > AnalysisCap THEN overflow - AnalysisCap ELSE 0
       IN SubSeq(old, drop + 1, Len(old)) \o new

\* Fault: the offset of raw.bin also advances the offset of conditioned.bin.
CountRawTwice ==
  /\ mode = "write"
  /\ at = Done
  /\ offset' = [offset EXCEPT !["raw"] = @ + cur.raw, !["cond"] = @ + cur.raw]
  /\ total' = total + 1
  /\ counts' = [counts EXCEPT ![cur.source] = @ + 1]
  /\ tail' = [tail EXCEPT ![cur.source] = Pushed(@, Bytes(cur, cur.raw))]
  /\ IF total' % FlushInterval = 0
     THEN mode' = "flush" /\ at' = 1 /\ UNCHANGED <<cur, accepted>>
     ELSE /\ mode' = "idle" /\ at' = 1 /\ cur' = NoSample
          /\ accepted' = Append(accepted, cur)
  /\ UNCHANGED <<disk, buf, json, finished, started, failures>>

\* Fault: the flush is due one sample late.
CountFlushLate ==
  /\ mode = "write"
  /\ at = Done
  /\ offset' = [offset EXCEPT !["raw"] = @ + cur.raw, !["cond"] = @ + cur.cond]
  /\ total' = total + 1
  /\ counts' = [counts EXCEPT ![cur.source] = @ + 1]
  /\ tail' = [tail EXCEPT ![cur.source] = Pushed(@, Bytes(cur, cur.raw))]
  /\ IF total > 0 /\ total % FlushInterval = 0
     THEN mode' = "flush" /\ at' = 1 /\ UNCHANGED <<cur, accepted>>
     ELSE /\ mode' = "idle" /\ at' = 1 /\ cur' = NoSample
          /\ accepted' = Append(accepted, cur)
  /\ UNCHANGED <<disk, buf, json, finished, started, failures>>

\* The sample is written: count it, and flush after every FlushInterval-th.
Count ==
  /\ mode = "write"
  /\ at = Done
  /\ offset' = [offset EXCEPT !["raw"] = @ + cur.raw, !["cond"] = @ + cur.cond]
  /\ total' = total + 1
  /\ counts' = [counts EXCEPT ![cur.source] = @ + 1]
  /\ tail' = [tail EXCEPT ![cur.source] = Pushed(@, Bytes(cur, cur.raw))]
  /\ IF total' % FlushInterval = 0
     THEN mode' = "flush" /\ at' = 1 /\ UNCHANGED <<cur, accepted>>
     ELSE /\ mode' = "idle" /\ at' = 1 /\ cur' = NoSample
          /\ accepted' = Append(accepted, cur)
  /\ UNCHANGED <<disk, buf, json, finished, started, failures>>

-----------------------------------------------------------------------------
(* flush_all, as part of write_sample, finish and drop                     *)

FlushNext ==
  /\ mode \in {"flush", "finish", "drop"}
  /\ at < Done
  /\ Flushed(Files[at])
  /\ at' = at + 1
  /\ UNCHANGED <<offset, total, counts, tail, json, finished, mode, cur,
                 accepted, started>>

\* flush_all returns at its first error: write_sample passes it on, finish
\* passes it on and drops the writer, drop ignores it.
FlushFails ==
  /\ mode \in {"flush", "finish", "drop"}
  /\ at < Done
  /\ Failed(Files[at], <<>>)
  /\ CASE mode = "flush" -> Erred
       [] mode = "finish" -> mode' = "drop" /\ at' = 1 /\ UNCHANGED cur
       [] mode = "drop" -> at' = Done /\ UNCHANGED <<mode, cur>>
  /\ UNCHANGED <<offset, total, counts, tail, json, finished, accepted, started>>

SampleFlushed ==
  /\ mode = "flush"
  /\ at = Done
  /\ mode' = "idle"
  /\ at' = 1
  /\ cur' = NoSample
  /\ accepted' = Append(accepted, cur)
  /\ UNCHANGED <<disk, buf, offset, total, counts, tail, json, finished,
                 started, failures>>

-----------------------------------------------------------------------------
(* finish, drop, kill                                                      *)

\* Fault: finish leaves flushing to the BufWriters it drops.
FinishUnflushed ==
  /\ mode = "idle"
  /\ mode' = "finish"
  /\ at' = Done
  /\ UNCHANGED <<disk, buf, offset, total, counts, tail, json, finished, cur,
                 accepted, started, failures>>

\* The recorder has enough.
Finish ==
  /\ mode = "idle"
  /\ mode' = "finish"
  /\ at' = 1
  /\ UNCHANGED <<disk, buf, offset, total, counts, tail, json, finished, cur,
                 accepted, started, failures>>

\* The writer goes out of scope unfinished: a panic, an early return.
Drop ==
  /\ mode = "idle"
  /\ mode' = "drop"
  /\ at' = 1
  /\ UNCHANGED <<disk, buf, offset, total, counts, tail, json, finished, cur,
                 accepted, started, failures>>

\* finish and drop write session.json once flush_all is over.
WriteJson ==
  /\ mode \in {"finish", "drop"}
  /\ at = Done
  /\ json' = {total}
  /\ finished' = (mode = "finish")
  /\ mode' = "fields"
  /\ at' = 1
  /\ UNCHANGED <<disk, buf, offset, total, counts, tail, cur, accepted, started,
                 failures>>

\* It fails, leaving no valid file: finish drops the writer, drop ignores it.
WriteJsonFails ==
  /\ mode \in {"finish", "drop"}
  /\ at = Done
  /\ failures < MaxFailures
  /\ failures' = failures + 1
  /\ json' = {}
  /\ mode' = IF mode = "finish" THEN "drop" ELSE "fields"
  /\ at' = 1
  /\ UNCHANGED <<disk, buf, offset, total, counts, tail, finished, cur,
                 accepted, started>>

\* Each BufWriter flushes as it is dropped and ignores an error.
DropField ==
  /\ mode = "fields"
  /\ at < Done
  /\ Flushed(Files[at]) \/ Failed(Files[at], <<>>)
  /\ at' = at + 1
  /\ UNCHANGED <<offset, total, counts, tail, json, finished, mode, cur,
                 accepted, started>>

Closed ==
  /\ mode = "fields"
  /\ at = Done
  /\ mode' = "gone"
  /\ UNCHANGED <<disk, buf, offset, total, counts, tail, json, finished, at, cur,
                 accepted, started, failures>>

\* The process dies without unwinding: what is in its buffers is lost.
Kill ==
  /\ mode \notin {"gone", "killed"}
  /\ mode' = "killed"
  /\ UNCHANGED <<disk, buf, offset, total, counts, tail, json, finished, at, cur,
                 accepted, started, failures>>

Next ==
  \/ \E s \in Undeclared : Refuse(s)
  \/ \E s \in Declared, r \in RawLens, k \in CondLens : WriteSample(s, r, k)
  \/ PutNext \/ PutFails \/ Count
  \/ FlushNext \/ FlushFails \/ SampleFlushed
  \/ Finish \/ Drop \/ WriteJson \/ WriteJsonFails \/ DropField \/ Closed
  \/ Kill

Spec == Init /\ [][Next]_vars
-----------------------------------------------------------------------------
(* Properties                                                              *)

\* load_session_raw_data skips a row that reaches beyond the data file.
InBounds(row, data) == row.offset + row.length <= Len(disk[data])

\* What a reader finds where a row points.
Slice(row, data) == SubSeq(disk[data], row.offset + 1, row.offset + row.length)

\* Samples a reader of the index finds in the data file.
Loaded(data, index) == {row.sample : row \in {r \in ToSet(disk[index]) : InBounds(r, data)}}

Safe(s) ==
  /\ s \in Loaded("raw", "index")
  /\ s \in Loaded("cond", "condIndex")
  /\ s \in ToSet(disk["csv"])

\* Whenever the directory is read, be it while recording, after an error or
\* after the process was killed anywhere: a row that a reader does not skip
\* points at the bytes of its own sample.
IndexMatchesData ==
  \A p \in {<<"raw", "index">>, <<"cond", "condIndex">>} :
    \A row \in ToSet(disk[p[2]]) :
      InBounds(row, p[1]) => Slice(row, p[1]) = Bytes(row.sample, row.length)

\* A kill costs fewer than FlushInterval of the samples write_sample accepted,
\* at any time.
LossBounded ==
  Cardinality({i \in 1..Len(accepted) : ~Safe(accepted[i])}) < FlushInterval

\* A session that finish returned Ok for, or that was dropped and met no error,
\* is complete: all that was accepted is there, and session.json counts it.
ClosedIsComplete ==
  mode = "gone" /\ (finished \/ failures = 0) =>
    /\ \A i \in 1..Len(accepted) : Safe(accepted[i])
    /\ json = {total}
    /\ total - Len(accepted) \in 0..failures

\* The bytes that samples recorded from source s, in order.
BytesFrom(s, samples) ==
  LET upto[i \in 0..Len(samples)] ==
        IF i = 0 THEN <<>>
        ELSE IF samples[i].source = s THEN upto[i-1] \o Bytes(samples[i], samples[i].raw)
        ELSE upto[i-1]
  IN upto[Len(samples)]

LastOf(bytes) ==
  LET n == IF Len(bytes) > AnalysisCap THEN AnalysisCap ELSE Len(bytes)
  IN SubSeq(bytes, Len(bytes) - n + 1, Len(bytes))

\* The analysis buffer of a source holds the last AnalysisCap bytes recorded
\* from it, in order, whatever the lengths of the samples.
AnalysisKeepsTail ==
  mode = "idle" /\ failures = 0 =>
    \A s \in Declared : tail[s] = LastOf(BytesFrom(s, accepted))
=============================================================================
