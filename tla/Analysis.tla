------------------------------ MODULE Analysis ------------------------------
(***************************************************************************)
(* analysis.rs: the statistics of one source, and the correlations of all  *)
(* the sources of a recording.                                             *)
(***************************************************************************)
EXTENDS Comparison

autocorrelation_profile(n, max_lag) ==
  IF n = 0 \/ max_lag = 0 THEN Invalid
  ELSE {Ratio(n)}
       \cup UNION {{Minus(n, lag), Ratio(n - lag)}
                   \cup LastOf(0, n - lag, LAMBDA i : Index(i + lag, n)) :
                     lag \in 1 .. AtMost(max_lag, n \div 2)}

spectral_analysis(len) ==
  LET n == AtMost(len, 4096)
  IN  IF n < 2 THEN Invalid ELSE {Slice(0, n, len), Ratio(n), Ratio(n \div 2)}

bit_bias(n) == IF n = 0 THEN Invalid ELSE {Ratio(n)} \cup chi_squared_p_value(8)
distribution_stats(n) == IF n = 0 THEN Invalid ELSE {Ratio(n)}

\* Of a long sample every step-th element is taken, at most `max` of them.
Stepped(len, max) ==
  IF len <= max THEN len ELSE AtMost(CeilDiv(len, AtLeast(len \div max, 1)), max)

\* The number of templates of m elements among `samples`.
phi(samples, m) ==
  IF samples < m THEN Invalid
  ELSE {Minus(samples, m), Ratio(samples - m + 1)}
       \cup LastOf(0, samples - m + 1, LAMBDA i : Index(i + m - 1, samples))
approximate_entropy(n, m) ==
  LET actual_samples == Stepped(n, 5000)
  IN  IF m = 0 \/ actual_samples <= m + 1 THEN Invalid
      ELSE {Ratio(actual_samples), Ratio(actual_samples - 1)}
           \cup phi(actual_samples, m) \cup phi(actual_samples, m + 1)
approximate_entropy_default(n) ==
  IF Stepped(n, 5000) <= 3 THEN Invalid
  ELSE {Ratio(Stepped(n, 5000) - 1)} \cup approximate_entropy(n, 2)

anderson_darling(len) ==
  LET n == AtMost(len, 2048)
  IN  IF len < 2 THEN Invalid
      ELSE {Slice(0, n, len), Minus(n, 1), Index(n - 1, n), Ratio(n * n)}

\* A sample of less than 100 bytes is stationary.
stationarity_test(n) ==
  IF n \div 10 < 10 THEN Invalid ELSE Cuts(Windows(n \div 10, 10), n) \cup {Ratio(n \div 10)}

\* total_runs and longest_run: the loop over the positions.
runs_analysis(s) ==
  LET Step[i \in 0 .. Len(s)] ==
        IF i <= 1 THEN [longest |-> i, current |-> i, total |-> i]
        ELSE LET before == Step[i - 1]
             IN  IF s[i] = s[i - 1]
                 THEN [longest |-> AtLeast(before.longest, before.current + 1),
                       current |-> before.current + 1, total |-> before.total]
                 ELSE [longest |-> before.longest, current |-> 1, total |-> before.total + 1]
  IN  [longest_run |-> Step[Len(s)].longest, total_runs |-> Step[Len(s)].total]

\* As if the delay did not count when a sample is refused.
permutation_undelayed(n, order, delay) ==
  LET n_windows == n - (order - 1) * delay
  IN  IF order < 2 \/ delay = 0 \/ n < order + 1 THEN Invalid
      ELSE {Minus(n, (order - 1) * delay), Ratio(n_windows),
            Index(n_windows - 1 + (order - 1) * delay, n)}
permutation_kernel(n, order, delay) ==
  LET n_windows == n - (order - 1) * delay
  IN  IF order < 2 \/ delay = 0 \/ n < (order - 1) * delay + 2 THEN Invalid
      ELSE {Minus(n, (order - 1) * delay), Ratio(n_windows),
            Index(n_windows - 1 + (order - 1) * delay, n)}

\* The order in which a stable sort puts the elements of each window.
pattern(s, i, order, delay) ==
  LET window == [j \in 1 .. order |-> s[i + (j - 1) * delay]]
  IN  [j \in 1 .. order |-> SortedAt(window, j)]
permutation_entropy(s, order, delay) ==
  LET n_windows == Len(s) - (order - 1) * delay
  IN  [i \in 1 .. n_windows |-> pattern(s, i, order, delay)]

pearson_correlation(n) == {Ratio(n)}
cross_correlation_matrix(na, nb) ==
  LET min_len == AtMost(na, nb)
  IN  IF min_len < 100 THEN Invalid
      ELSE {Slice(0, min_len, na), Slice(0, min_len, nb)} \cup pearson_correlation(min_len)

full_analysis(n) ==
  autocorrelation_profile(n, 100) \cup spectral_analysis(n) \cup bit_bias(n)
    \cup distribution_stats(n) \cup stationarity_test(n)
=============================================================================
