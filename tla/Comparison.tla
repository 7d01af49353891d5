----------------------------- MODULE Comparison -----------------------------
(***************************************************************************)
(* comparison.rs, synchrony.rs and trials.rs: two samples side by side,    *)
(* and trials in the manner of PEAR.                                       *)
(***************************************************************************)
EXTENDS Statistics

Empty(na, nb) == na = 0 \/ nb = 0

---------------------- (* tests of two samples: lengths *) ------------------

two_sample_ks(na, nb) ==
  IF Empty(na, nb) THEN Invalid ELSE {Ratio(na), Ratio(nb), Ratio(na + nb)}

\* Of the bins of both samples only those that are not empty count.
chi2_homogeneity(na, nb, bins) ==
  IF Empty(na, nb) THEN Invalid
  ELSE {Ratio(na * nb), Ratio(na + nb)} \cup chi_squared_survival(Monus(bins, 1))

cliffs_delta(na, nb) == IF Empty(na, nb) THEN Invalid ELSE {Ratio(na * nb)}
mann_whitney_u_test(na, nb) ==
  IF Empty(na, nb) THEN Invalid ELSE {Ratio(na * nb), Ratio((na + nb) * (na + nb - 1))}

----------------------- (* tests of two samples: values *) ------------------

Bytes(a, b) == {(a \o b)[i] : i \in DOMAIN (a \o b)}
hist(s, v)  == Count(s, LAMBDA x : x = v)
cum(s, v)   == Count(s, LAMBDA x : x < v)     \* cum_b[v]

\* Na * Nb * the largest distance of the two distribution functions.
ks_distance(a, b) ==
  Max({0} \cup {Abs((cum(a, v) + hist(a, v)) * Len(b) - (cum(b, v) + hist(b, v)) * Len(a)) :
                  v \in Bytes(a, b)})

\* Na * Nb * Cliff's delta.
cliffs_greater(a, b) ==
  Total([v \in Bytes(a, b) |-> hist(a, v) * (cum(b, v) - (Len(b) - cum(b, v) - hist(b, v)))])

\* As if values that tie counted for nothing.
mann_whitney_u_untied(a, b) ==
  Total([v \in Bytes(a, b) |-> hist(a, v) * (2 * cum(b, v))])

\* Twice the statistic U of Mann and Whitney.
mann_whitney_u_twice(a, b) ==
  Total([v \in Bytes(a, b) |-> hist(a, v) * (2 * cum(b, v) + hist(b, v))])

\* 12 N (N - 1) / (Na Nb) * the variance of U, ties taken into account.
mann_whitney_sigma_sq(a, b) ==
  LET n == Len(a) + Len(b) IN (n + 1) * n * (n - 1) - tie_term_sum(a, b)

-------------------- (* what is seen along the samples *) -------------------

windowed_scan(n, window) ==
  IF n = 0 \/ window = 0 THEN Invalid
  ELSE {Over(window)} \cup Cuts(Windows(window, n \div window), n) \cup {Ratio(window)}

subsample(len, max) ==
  IF len <= max THEN Invalid ELSE {Ratio(max), Index(((max - 1) * len) \div max, len)}
temporal_analysis(n) == windowed_scan(n, 1024) \cup subsample(n \div 1024, 1024)

N_DIGRAM_BINS == 65536
CHI2_MIN_EXPECTED == 5
digram_chi2(n) ==
  IF n < 2 THEN Invalid
  ELSE {Minus(n, 1)}
       \cup IF n - 1 < CHI2_MIN_EXPECTED * N_DIGRAM_BINS THEN {}
            ELSE {Index(255 * 256 + 255, N_DIGRAM_BINS), Ratio(n - 1)}

\* From a byte to the next, how often a bit goes from one value to another.
BitOf(byte, bit) == (byte \div 2^bit) % 2
bit_markov_transitions(s) ==
  [bit \in 0 .. 7, from \in 0 .. 1, to \in 0 .. 1 |->
     Cardinality({i \in 1 .. Len(s) - 1 : BitOf(s[i], bit) = from /\ BitOf(s[i + 1], bit) = to})]

\* A lag that the profile does not reach counts as uncorrelated.
multi_lag_analysis(n) == {lag \in {1, 2, 3, 4, 5, 8, 16, 32, 64, 128} : lag <= n \div 2}

\* As if the run that ends the sample were not recorded.
run_length_unfinished(s) ==
  LET Ends == {i \in 1 .. Len(s) - 1 : s[i] # s[i + 1]}
  IN  [k \in 1 .. Cardinality(Ends) |->
         LET end == CHOOSE e \in Ends : Cardinality({f \in Ends : f <= e}) = k
         IN  end - Max({0} \cup {f \in Ends : f < end})]

\* Length of a run |-> number of such runs: the loop over the positions.
run_length_distribution(s) ==
  LET Step[i \in 0 .. Len(s)] ==
        IF i <= 1 THEN [current |-> i, dist |-> << >>]
        ELSE LET before == Step[i - 1]
             IN  IF s[i] = s[i - 1] THEN [before EXCEPT !.current = @ + 1]
                 ELSE [current |-> 1, dist |-> Append(before.dist, before.current)]
      end == Step[Len(s)]
  IN  IF s = << >> THEN << >> ELSE Append(end.dist, end.current)

----------------------------- (* synchrony.rs *) ----------------------------

pearson_corr(na, nb) ==
  LET n == AtMost(na, nb)
  IN  IF n < 2 THEN Invalid ELSE {Slice(0, n, na), Slice(0, n, nb), Ratio(n)}

mutual_information(na, nb) ==
  LET n == AtMost(na, nb)
  IN  IF n < 2 THEN Invalid
      ELSE {Index(n - 1, na), Index(n - 1, nb), Index(255 * 256 + 255, 256 * 256), Ratio(n)}

phase_coherence(na, nb) ==
  LET n == AtMost(na, nb)
  IN  IF n < 2 THEN Invalid ELSE {Slice(0, n, na), Slice(0, n, nb), Ratio(n)}

\* Of a long pair every step-th element is kept, at most 2000; then one sample
\* is shifted against the other by up to ten elements.
cross_sync(na, nb) ==
  LET n == AtMost(na, nb)
      step == CeilDiv(n, 2000)
      m == CeilDiv(n, step)
  IN  IF n < 2 THEN Invalid
      ELSE {Over(2000), Index((m - 1) * step, n)}
           \cup IF m < 2 THEN {}
                ELSE UNION {IF l >= m THEN {}
                            ELSE {Minus(m, l), Slice(0, m - l, m), Slice(l, m, m)}
                                 \cup pearson_corr(m - l, m - l) : l \in 0 .. 10}

global_event_detection(lengths) ==
  LET min_len == Min({lengths[s] : s \in DOMAIN lengths})
      total_windows == min_len \div 100
  IN  IF Len(lengths) < 2 \/ total_windows = 0 THEN Invalid
      ELSE {Ratio(total_windows)}
           \cup UNION {Cuts(Windows(100, total_windows), lengths[s]) : s \in DOMAIN lengths}

------------------------------ (* trials.rs *) ------------------------------

trial_analysis(n, bits_per_trial) ==
  LET bytes_per_trial == bits_per_trial \div 8
      num_trials == n \div bytes_per_trial
  IN  {Over(bytes_per_trial)} \cup Cuts(Windows(bytes_per_trial, num_trials), n)
      \cup IF num_trials = 0 THEN {} ELSE {Ratio(num_trials)}

\* Twice the cumulative deviation of the ones of whole trials of w bytes.
Ones(byte) == Cardinality({bit \in 0 .. 7 : BitOf(byte, bit) = 1})
terminal_cumulative_deviation(s, w) ==
  LET consumed == (Len(s) \div w) * w
  IN  Total([i \in 1 .. consumed |-> 2 * Ones(s[i]) - 8])

\* A number with a root in it, factor * Sqrt(root[1] / root[2]), the fraction in
\* its lowest terms; times and over the root of a positive integer k.
InLowestTerms(p, q) ==
  LET d == Max({i \in 1 .. p : p % i = 0 /\ q % i = 0}) IN <<p \div d, q \div d>>
TimesRoot(x, k) == [x EXCEPT !.root = InLowestTerms(x.root[1] * k, x.root[2])]
OverRoot(x, k)  == [x EXCEPT !.root = InLowestTerms(x.root[1], x.root[2] * k)]

\* The deviation over its standard deviation: the root of a quarter of the bits
\* of a trial, times that of the number of trials.
terminal_z(s, w) ==
  LET num_trials == Len(s) \div w
  IN  IF num_trials = 0 THEN [factor |-> 0, root |-> <<1, 1>>]
      ELSE OverRoot([factor |-> terminal_cumulative_deviation(s, w), root |-> <<1, 8 * w>>],
                    num_trials)

\* The terminal z of each session with trials, weighted by the root of their
\* number; the sum, one number for each root in it, over the root of all trials.
stouffer_combine(sessions, w) ==
  LET contributing == SelectSeq(sessions, LAMBDA s : Len(s) \div w > 0)
      num_trials == [i \in DOMAIN contributing |-> Len(contributing[i]) \div w]
      total_trials == Total(num_trials)
      weighted == [i \in DOMAIN contributing |->
                     TimesRoot(terminal_z(contributing[i], w), num_trials[i])]
      Having(r) == {i \in DOMAIN weighted : weighted[i].root = r}
      Sum(r) == Total([i \in Having(r) |-> weighted[i].factor])
  IN  [total_trials |-> total_trials,
       stouffer_z |-> {OverRoot([factor |-> Sum(r), root |-> r], total_trials) :
                         r \in {weighted[i].root : i \in DOMAIN weighted}}]
=============================================================================
