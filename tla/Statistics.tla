----------------------------- MODULE Statistics -----------------------------
(***************************************************************************)
(* statistics.rs, with what its tests take from math.rs: tests of one      *)
(* sample, of several groups, and the correction for several tests.        *)
(***************************************************************************)
EXTENDS Kernel

------------------------------ (* one sample *) -----------------------------

cramer_von_mises(n) == IF n < 2 THEN Invalid ELSE {Ratio(2 * n), Ratio(12 * n)}

chi_squared_survival(df) == IF df = 0 THEN Invalid ELSE {Ratio(df)}
chi_squared_p_value(df)  == {Ratio(df)}

ljung_box(n, max_lag) ==
  IF max_lag = 0 \/ n <= max_lag THEN Invalid
  ELSE {Ratio(n)} \cup chi_squared_survival(max_lag)
       \cup UNION {{Minus(n, lag), Ratio(n - lag)}
                   \cup LastOf(0, n - lag, LAMBDA i : Index(i + lag, n)) : lag \in 1 .. max_lag}

\* The gaps between bytes of lower..upper, of which there are `hits`.
gap_test(n, hits, lower, upper) ==
  IF n = 0 \/ lower > upper THEN Invalid
  ELSE {Ratio(upper - lower + 1)}
       \cup IF hits < 2 THEN {}
            ELSE {Ratio(hits - 1)} \cup IF hits - 1 < 10 THEN {} ELSE {Index(8, 9)}

------------------------------- (* groups *) --------------------------------

\* The lengths of the groups that are not empty.
Occupied(sizes) == SelectSeq(sizes, LAMBDA x : x > 0)

anova_on_f64_groups(sizes) ==
  LET k == Len(sizes)
      total_n == Total(sizes)
  IN  IF k < 2 \/ (\E g \in DOMAIN sizes : sizes[g] = 0) \/ total_n <= k THEN Invalid
      ELSE {Ratio(sizes[g]) : g \in DOMAIN sizes}
           \cup {Ratio(total_n), Minus(k, 1), Minus(total_n, k), Ratio(k - 1), Ratio(total_n - k)}
anova(sizes) == anova_on_f64_groups(Occupied(sizes))

levene_test(sizes) ==
  LET valid == Occupied(sizes)
  IN  IF Len(valid) < 2 \/ \E g \in DOMAIN valid : valid[g] < 2 THEN Invalid
      ELSE {Ratio(valid[g] - 1) : g \in DOMAIN valid} \cup anova_on_f64_groups(valid)

kruskal_wallis(sizes) ==
  LET valid == Occupied(sizes)
      n == Total(valid)
  IN  IF Len(valid) < 2 \/ n < 2 THEN Invalid
      ELSE {Ratio(valid[g]) : g \in DOMAIN valid} \cup {Ratio(n * (n + 1)), Minus(Len(valid), 1)}
           \cup chi_squared_survival(Len(valid) - 1)

\* Twice the sum of the ranks of the first of two groups: values that tie have
\* the average of their ranks.
rank_sum_twice(a, b) ==
  Total([i \in DOMAIN a |->
           LET all == a \o b
               start == Count(all, LAMBDA x : x < a[i])
               end   == start + Count(all, LAMBDA x : x = a[i])
           IN  (start + 1) + end])

\* The correction for ties of two groups.
tie_term_sum(a, b) ==
  Total([v \in {(a \o b)[i] : i \in DOMAIN (a \o b)} |->
           LET t == Count(a \o b, LAMBDA x : x = v) IN t * t * t - t])

power_analysis(sample_size) ==
  IF sample_size < 2 THEN Invalid ELSE {Minus(sample_size, 1)}

----------------------------- (* corrections *) -----------------------------

\* Probabilities are integers of 0..one here.  A correction of the p-values
\* ps: the adjusted ones, and which of the hypotheses are rejected.
bonferroni_correction(ps, alpha, one) ==
  LET adjusted == [i \in DOMAIN ps |-> AtMost(ps[i] * Len(ps), one)]
  IN  [adjusted |-> adjusted, rejected |-> {i \in DOMAIN ps : adjusted[i] < alpha}]

\* The position of the i-th p-value after a stable sort, from 0.
SortedAt(ps, i) ==
  Cardinality({j \in DOMAIN ps : ps[j] < ps[i] \/ (ps[j] = ps[i] /\ j < i)})

\* In ascending order each p-value is multiplied by the number of those not
\* yet seen and is at least its predecessor; the first that is not rejected
\* ends the rejections.
holm_bonferroni_correction(ps, alpha, one) ==
  LET m == Len(ps)
      raw_adjusted == [i \in DOMAIN ps |-> AtMost(ps[i] * (m - SortedAt(ps, i)), one)]
      Upto(i) == {j \in DOMAIN ps : SortedAt(ps, j) <= SortedAt(ps, i)}
      adjusted == [i \in DOMAIN ps |-> Max({raw_adjusted[j] : j \in Upto(i)})]
  IN  [adjusted |-> adjusted,
       rejected |-> {i \in DOMAIN ps : \A j \in Upto(i) : adjusted[j] < alpha}]

\* Holm's correction rejects a hypothesis exactly when every set of hypotheses
\* that holds it would be rejected by Bonferroni's (it is the closure of that
\* test), so all that Bonferroni's rejects; and it keeps the order of p-values.
HolmIsClosure(ps, alpha, one) ==
  LET holm == holm_bonferroni_correction(ps, alpha, one)
      Rejects(I) == \E i \in I : ps[i] * Cardinality(I) < alpha
  IN  /\ holm.rejected = {i \in DOMAIN ps : \A I \in SUBSET (DOMAIN ps) : i \in I => Rejects(I)}
      /\ bonferroni_correction(ps, alpha, one).rejected \subseteq holm.rejected
      /\ \A i, j \in DOMAIN ps : ps[i] <= ps[j] => holm.adjusted[i] <= holm.adjusted[j]
=============================================================================
