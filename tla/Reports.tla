------------------------------- MODULE Reports -------------------------------
(***************************************************************************)
(* What is said of a sample or of a source once its statistics are known:  *)
(* the verdicts of verdict.rs and dispatcher.rs, the calibration check of  *)
(* trials.rs, the scores of benchmark.rs, and the choice of sources by     *)
(* name of source_resolution.rs.  A statistic is in thousandths, or NaN.   *)
(***************************************************************************)
EXTENDS Kernel, SequencesExt

CONSTANT NaN   \* what is not a number
ASSUME NaNAssumption == NaN \notin Int

Finite(x) == x # NaN

\* A comparison with NaN is false.
Exceeds(x, t)    == Finite(x) /\ x > t
FallsBelow(x, t) == Finite(x) /\ x < t
Within(x, lo, hi) == Finite(x) /\ lo <= x /\ x <= hi

------------------------------- (* verdicts *) ------------------------------

\* The forensic verdicts look for a failure first, and the others for a pass,
\* after they have refused what is not a number.
Forensic(fail, warn) == IF fail THEN "FAIL" ELSE IF warn THEN "WARN" ELSE "PASS"
Judged(x, pass, warn) ==
  IF ~Finite(x) THEN "NA" ELSE IF pass THEN "PASS" ELSE IF warn THEN "WARN" ELSE "FAIL"

verdict_autocorr(x)         == Forensic(Exceeds(x, 150), Exceeds(x, 50))
verdict_spectral(x)         == Forensic(FallsBelow(x, 500), FallsBelow(x, 750))
verdict_bias(x, significant) == Forensic(Exceeds(x, 20), significant)
verdict_distribution(p)     == Forensic(FallsBelow(p, 1), FallsBelow(p, 10))
verdict_stationarity(f, stationary) == Forensic(Exceeds(f, 3000), ~stationary)

\* runs: longest_run and total_runs as counts, what is expected of both in
\* thousandths, zero when the sample was too short to expect anything.
verdict_runs(ru) ==
  LET Longest(k) == ru.expected_longest > 0 /\ 1000 * ru.longest > k * ru.expected_longest
      Deviates(tenths) == ru.expected > 0
                            /\ 10 * Abs(1000 * ru.total - ru.expected) > tenths * ru.expected
  IN  Forensic(Longest(3) \/ Deviates(4), Longest(2) \/ Deviates(2))

verdict_hurst(x)       == Judged(x, Within(x, 400, 600), Within(x, 300, 700))
verdict_lyapunov(x)    == Judged(x, Abs(x) < 100, Abs(x) < 200)
verdict_corrdim(x)     == Judged(x, x > 3000, x > 2000)
verdict_bientropy(x)   == Judged(x, x > 950, x > 900)
verdict_compression(x) == Judged(x, x > 990, x > 950)

\* A mistake in verdict_rqa_det.
verdict_rqa_det_upside_down(x) == Judged(x, x < 100, x >= 300)

verdict_sampen(x)  == Judged(x, x > 1000, x >= 500)
verdict_dfa(x)     == Judged(x, x > 400 /\ x < 600, Within(x, 300, 700))
verdict_rqa_det(x) == Judged(x, x < 100, x <= 300)
verdict_apen(x)    == Judged(x, x > 1000, x >= 500)
verdict_permen(x)  == Judged(x, x > 950, x >= 800)
verdict_anderson_darling(p) == Judged(p, p > 50, p >= 10)
verdict_ljung_box(p)        == Judged(p, p > 50, p >= 10)
verdict_cramer_von_mises(p) == Judged(p, p > 50, p >= 10)

ForensicVerdicts(f) ==
  [autocorrelation |-> verdict_autocorr(f.value), spectral |-> verdict_spectral(f.value),
   bias |-> verdict_bias(f.value, f.significant), distribution |-> verdict_distribution(f.value),
   stationarity |-> verdict_stationarity(f.value, ~f.significant), runs |-> verdict_runs(f.runs)]
ChaosVerdicts(x) ==
  [hurst |-> verdict_hurst(x), lyapunov |-> verdict_lyapunov(x), correlation |-> verdict_corrdim(x),
   bientropy |-> verdict_bientropy(x), compression |-> verdict_compression(x)]

AdvancedVerdicts(x) ==
  [sampen |-> verdict_sampen(x), dfa |-> verdict_dfa(x), rqa_det |-> verdict_rqa_det(x),
   apen |-> verdict_apen(x), permen |-> verdict_permen(x), ljung_box |-> verdict_ljung_box(x),
   anderson_darling |-> verdict_anderson_darling(x),
   cramer_von_mises |-> verdict_cramer_von_mises(x)]

\* Each argument is a singleton, or empty when the analysis was not asked for:
\* so are the verdicts on it.
build_verdicts(forensic, chaos) ==
  {ForensicVerdicts(f) : f \in forensic} \cup {ChaosVerdicts(x) : x \in chaos}

\* A sample is given by the statistics on it.  Which parts its report has, its
\* verdicts, and whether there is one across the samples.
analyze(samples, config) ==
  LET Asked(what, x) == IF what \in config THEN {x} ELSE {}
  IN  [sources |-> [i \in DOMAIN samples |->
         [parts    |-> config \cap {"forensic", "entropy", "chaos", "trials"},
          verdicts |-> build_verdicts(Asked("forensic", samples[i].forensic),
                                      Asked("chaos", samples[i].chaos))]],
       across |-> "cross_correlation" \in config /\ Len(samples) >= 2]

------------------------------ (* calibration *) ----------------------------

\* The warnings, in ten-thousandths for the bias; the sample is suitable when
\* there are none.
calibration_check(c) ==
     (IF Abs(c.terminal_z) >= 2000 THEN {"terminal"} ELSE {})
  \cup (IF c.bias >= 50 THEN {"bias"} ELSE {})
  \cup (IF c.shannon <= 7900 THEN {"entropy"} ELSE {})
  \cup (IF c.trials > 1 /\ (c.std_z < 850 \/ c.std_z > 1150) THEN {"spread"} ELSE {})
  \cup (IF c.trials = 0 THEN {"trials"} ELSE {})

-------------------------------- (* scores *) -------------------------------

Clamp(x, lo, hi) == AtMost(AtLeast(x, lo), hi)

\* The score of a row before its failures: min-entropy and stability in
\* thousandths of their range, and the result in ten-thousandths.
BaseScore(rank_by, row, max_throughput) ==
  CASE rank_by = "MinEntropy" -> 10 * row.min_entropy
    [] rank_by = "Throughput" -> 10 * row.throughput
    [] rank_by = "Balanced"   ->
         7 * Clamp(row.min_entropy \div 8, 0, 1000)
         + 2 * (IF max_throughput > 0 THEN Clamp((1000 * row.throughput) \div max_throughput, 0, 1000) ELSE 0)
         + row.stability

\* Times twice the rounds, so that halving it for the worst rate of failures
\* stays whole.
score_row(rank_by, row, max_throughput, rounds) ==
  LET issues == Monus(rounds, row.success_rounds) + row.failures
  IN  BaseScore(rank_by, row, max_throughput) * (2 * rounds - Clamp(issues, 0, rounds))

percentile_of(values, p) ==
  LET sorted == SortSeq(values, LAMBDA x, y : x < y)
      rank == AtLeast(CeilDiv(p * Len(values), 100), 1)
  IN  IF values = << >> THEN 0 ELSE sorted[AtMost(rank, Len(values))]

\* One less the coefficient of variation, in thousandths, rounded up.
stability_index(values) ==
  LET k == Len(values)
      sum == Total(values)
      deviation == k * Total([i \in DOMAIN values |-> values[i]^2]) - sum^2   \* of k times the values
      cv == CHOOSE r \in 0 .. 1000 : \/ r^2 * sum^2 <= 10^6 * deviation /\ (r + 1)^2 * sum^2 > 10^6 * deviation
                                     \/ r = 1000 /\ r^2 * sum^2 <= 10^6 * deviation
  IN  CASE k = 0 -> 0
        [] k = 1 -> 1000
        [] k > 1 /\ sum = 0 -> IF deviation = 0 THEN 1000 ELSE 0
        [] OTHER -> 1000 - cv

------------------------------ (* resolution *) -----------------------------

\* A name is the set of what requests may name it by: a request is part of it
\* when it asks for no more.
find_matching_index(available, name, mode, used) ==
  LET free == (DOMAIN available) \ used
      exact == {i \in free : available[i] = name}
      partial == {i \in free : name \subseteq available[i]}
  IN  IF exact # {} THEN {Min(exact)}
      ELSE IF mode = "ExactOnly" \/ partial = {} THEN {} ELSE {Min(partial)}

\* What a request does to the choice so far: an unused source that matches it is
\* chosen; else it is a duplicate when a used one does; else it is missing.
resolve_one(available, name, mode, chosen) ==
  LET Find(used) == find_matching_index(available, name, mode, used)
  IN  [used    |-> chosen.used \cup Find(chosen.used),
       missing |-> IF Find(chosen.used) = {} /\ Find({}) = {}
                   THEN Append(chosen.missing, name) ELSE chosen.missing]

resolve_source_names(available, requested, mode) ==
  LET after[i \in 0 .. Len(requested)] ==
        IF i = 0 THEN [used |-> {}, missing |-> << >>]
        ELSE resolve_one(available, requested[i], mode, after[i - 1])
  IN  after[Len(requested)]

\* Only what matches no source is missing, what is not is served by a source that
\* was chosen, a source is chosen when its name is asked for, and no request
\* chooses two.
Serves(source, name, mode) == source = name \/ (mode # "ExactOnly" /\ name \subseteq source)

RequestsServed(available, requested, mode) ==
  LET chosen == resolve_source_names(available, requested, mode)
  IN  /\ \A name \in Range(requested) :
           /\ name \in Range(chosen.missing)
                <=> \A k \in DOMAIN available : ~Serves(available[k], name, mode)
           /\ name \in Range(chosen.missing)
                \/ \E k \in chosen.used : Serves(available[k], name, mode)
           /\ name \in Range(available) => \E k \in chosen.used : available[k] = name
      /\ Cardinality(chosen.used) + Len(chosen.missing) <= Len(requested)
=============================================================================
