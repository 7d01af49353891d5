------------------------------ MODULE Benchmark ------------------------------
(***************************************************************************)
(* benchmark_sources of benchmark.rs: rounds of collect_all_parallel_n,    *)
(* and what a source did in a round read off the counters of health_report *)
(* before and after it.  A worker that is late counts in a later round.    *)
(* The counters are those collect_one_n and the timeout mark of pool.rs    *)
(* keep under the lock of each source; every collection gives one unit of  *)
(* bytes, of the min-entropy Good or Flat.  Batches are in PoolCollection. *)
(***************************************************************************)
EXTENDS Reports

CONSTANTS Measured,      \* the sources of the pool
          WarmupRounds,  \* config.warmup_rounds
          Rounds         \* config.rounds

ASSUME BenchmarkAssumption ==
  IsFiniteSet(Measured) /\ WarmupRounds \in Nat /\ Rounds \in Nat \ {0}

VARIABLES
  worker,    \* of each source: "none", "collecting", "stored"
  counters,  \* of each source, under its lock: SourceState
  backoff,   \* the sources in backoff
  phase,     \* where the benchmark is: "sweep", "wait", "mark", "report", "done"
  round,     \* rounds begun, the warm-up included
  awaited,   \* the sources scheduled in this sweep and not heard of
  unread,    \* the sources health_report has still to lock
  prev,      \* of each source the counters at the end of the last round
  accum,     \* of each source: SourceAccumulator
  first,     \* history: the snapshot before the first measured round
  launches   \* history: the workers of each source
bench == <<worker, counters, backoff, phase, round, awaited, unread, prev, accum, first, launches>>

Good == 4000
Flat == 500
Fresh == [bytes |-> 0, failures |-> 0, entropy |-> 0, healthy |-> TRUE]

BenchTypeOK ==
  /\ worker \in [Measured -> {"none", "collecting", "stored"}]
  /\ phase \in {"sweep", "wait", "mark", "report", "done"} /\ round \in 0 .. WarmupRounds + Rounds
  /\ backoff \subseteq Measured /\ awaited \subseteq Measured /\ unread \subseteq Measured
  /\ \A s \in Measured :
       /\ counters[s].bytes \in Nat /\ counters[s].failures \in Nat
       /\ counters[s].entropy \in {0, Good, Flat} /\ counters[s].healthy \in BOOLEAN
       /\ accum[s].success_rounds \in 0 .. Rounds /\ accum[s].failures \in Nat
       /\ launches[s] \in 0 .. WarmupRounds + Rounds

\* A source's counters are only written by its own worker and by the mark, so
\* what it has is read in the step that locks it.
Snapshot(s) == [bytes |-> counters[s].bytes, failures |-> counters[s].failures]

\* After a warm-up round there is no report but after the last one, from which
\* the snapshot is taken.
AfterSweep       == IF round >= WarmupRounds THEN "report" ELSE "sweep"
UnreadAfterSweep == IF round >= WarmupRounds THEN Measured ELSE {}

BenchInit ==
  /\ worker = [s \in Measured |-> "none"] /\ counters = [s \in Measured |-> Fresh]
  /\ backoff = {} /\ round = 0 /\ awaited = {}
  /\ phase = AfterSweep /\ unread = UnreadAfterSweep
  /\ prev = [s \in Measured |-> [bytes |-> 0, failures |-> 0]] /\ first = prev
  /\ accum = [s \in Measured |-> [success_rounds |-> 0, failures |-> 0, sum |-> 0]]
  /\ launches = [s \in Measured |-> 0]

NoRounds == UNCHANGED <<prev, accum, first>>

---------------------------- (* collect_one_n *) ----------------------------

\* What a source has once it has given bytes of entropy h, or none.
Stored(c, h) == [bytes |-> c.bytes + 1, failures |-> c.failures, entropy |-> h, healthy |-> h > 1000]
Failed(c)    == [bytes |-> c.bytes, failures |-> c.failures + 1, entropy |-> c.entropy, healthy |-> FALSE]

\* Bytes, of whichever entropy; none, or a panic, which count alike.
Collects(s) ==
  /\ worker[s] = "collecting"
  /\ worker' = [worker EXCEPT ![s] = "stored"]
  /\ counters' \in {[counters EXCEPT ![s] = c] :
                      c \in {Failed(counters[s])} \cup {Stored(counters[s], h) : h \in {Good, Flat}}}
  /\ NoRounds /\ UNCHANGED <<backoff, phase, round, awaited, unread, launches>>

\* in_flight.remove, and the answer, to a sweep that may have ended.
Answers(s) ==
  /\ worker[s] = "stored"
  /\ worker' = [worker EXCEPT ![s] = "none"]
  /\ awaited' = awaited \ {s}
  /\ NoRounds /\ UNCHANGED <<counters, backoff, phase, round, unread, launches>>

BackoffOver(s) ==
  /\ s \in backoff
  /\ backoff' = backoff \ {s}
  /\ NoRounds /\ UNCHANGED <<worker, counters, phase, round, awaited, unread, launches>>

----------------------------- (* the rounds *) ------------------------------

Launchable == {s \in Measured : s \notin backoff /\ worker[s] = "none"}

BeginSweep ==
  /\ phase = "sweep" /\ round < WarmupRounds + Rounds
  /\ round' = round + 1
  /\ awaited' = Launchable
  /\ worker' = [s \in Measured |-> IF s \in Launchable THEN "collecting" ELSE worker[s]]
  /\ launches' = [s \in Measured |-> launches[s] + IF s \in Launchable THEN 1 ELSE 0]
  /\ phase' = "wait"
  /\ NoRounds /\ UNCHANGED <<counters, backoff, unread>>

\* All have answered, or the time is over.
EndWait ==
  /\ phase = "wait"
  /\ phase' = "mark"
  /\ NoRounds /\ UNCHANGED <<worker, counters, backoff, round, awaited, unread, launches>>

\* A silent source is put into backoff, and counted as failed unless its
\* worker holds the lock at that moment.
MarkSilent(s) ==
  /\ phase = "mark" /\ s \in awaited
  /\ awaited' = awaited \ {s} /\ backoff' = backoff \cup {s}
  /\ \/ counters' = [counters EXCEPT ![s] = Failed(@)]
     \/ worker[s] = "collecting" /\ UNCHANGED counters
  /\ NoRounds /\ UNCHANGED <<worker, phase, round, unread, launches>>

EndMark ==
  /\ phase = "mark" /\ awaited = {}
  /\ phase' = AfterSweep /\ unread' = UnreadAfterSweep
  /\ NoRounds /\ UNCHANGED <<worker, counters, backoff, round, awaited, launches>>

\* The report locks one source after the other, while workers go on.  What it
\* has read of a source is counted in the same step here, which nothing can
\* tell; the report on the last warm-up round is the snapshot.
\* A mistake: prev is not brought up to date.
DeltaSinceFirst(s) == [bytes |-> counters[s].bytes - first[s].bytes,
                       failures |-> counters[s].failures - first[s].failures]

Delta(s) == [bytes    |-> Monus(counters[s].bytes, prev[s].bytes),
             failures |-> Monus(counters[s].failures, prev[s].failures)]

Account(a, s) ==
  LET fruitful == Delta(s).bytes > 0
  IN  [success_rounds |-> a.success_rounds + (IF fruitful THEN 1 ELSE 0),
       failures       |-> a.failures + Delta(s).failures,
       sum            |-> a.sum + (IF fruitful THEN counters[s].entropy ELSE 0)]

ReadHealth(s) ==
  /\ phase = "report" /\ s \in unread
  /\ unread' = unread \ {s}
  /\ prev' = [prev EXCEPT ![s] = Snapshot(s)]
  /\ IF round = WarmupRounds THEN first' = prev' /\ UNCHANGED accum
     ELSE accum' = [accum EXCEPT ![s] = Account(@, s)] /\ UNCHANGED first
  /\ UNCHANGED <<worker, counters, backoff, phase, round, awaited, launches>>

EndRound ==
  /\ phase = "report" /\ unread = {}
  /\ phase' = IF round = WarmupRounds + Rounds THEN "done" ELSE "sweep"
  /\ NoRounds /\ UNCHANGED <<worker, counters, backoff, round, awaited, unread, launches>>

BenchNext ==
  \/ \E s \in Measured : Collects(s) \/ Answers(s) \/ BackoffOver(s) \/ MarkSilent(s) \/ ReadHealth(s)
  \/ BeginSweep \/ EndWait \/ EndMark \/ EndRound

------------------------------- (* the rows *) ------------------------------

\* The row of a source; ranked by min-entropy.
Row(s) ==
  LET a == accum[s]
      avg == IF a.success_rounds > 0 THEN a.sum \div a.success_rounds ELSE 0
      row == [min_entropy |-> avg, success_rounds |-> a.success_rounds, failures |-> a.failures]
  IN  [row |-> row, healthy |-> avg > 1000 /\ a.failures = 0,
       score |-> score_row("MinEntropy", row, 0, Rounds)]
=============================================================================
