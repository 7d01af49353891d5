------------------------------- MODULE Lengths -------------------------------
(***************************************************************************)
(* All that the numerical code computes of a sample of n bytes, by itself, *)
(* with a parameter (a lag, a window, a number of windows), or together    *)
(* with another sample.                                                    *)
(***************************************************************************)
EXTENDS Chaos, Temporal, Estimators
Battery == INSTANCE Nist

VARIABLE n     \* the length of a sample

\* Samples of any lengths, one after the other.
AnySamples == n \in Nat /\ [][n' \in Nat]_n

OfOne(len) ==
  full_analysis(len) \cup Battery!run_all_tests(len) \cup min_entropy_estimate(len)
    \cup quick_quality(len) \cup min_entropy(len) \cup quick_autocorrelation_lag1(len)
    \cup approximate_entropy_default(len) \cup anderson_darling(len) \cup cramer_von_mises(len)
    \cup burst_kernel(len) \cup bientropy(len) \cup hurst_exponent(len) \cup dfa(len, 1)
    \cup epiplexity(len) \cup lyapunov_exponent(len) \cup correlation_dimension(len)
    \cup temporal_analysis(len) \cup digram_chi2(len) \cup shannon_entropy_binary(len)
    \cup sample_std_dev(len) \cup power_analysis(len) \cup bootstrap_hurst(len, 100)
    \cup trial_analysis(len, 200)
OfOneWith(len, k) ==
  ljung_box(len, k) \cup gap_test(len, AtMost(k, len), 0, 255) \cup shift_detection(len, k)
    \cup anomaly_detection(len, k) \cup windowed_scan(len, k) \cup change_point_detection(len, k)
    \cup temporal_drift(len, k) \cup rolling_hurst(len, AtMost(k, 400), 7)
    \cup autocorrelation_profile(len, k) \cup sample_entropy_kernel(len, k)
    \cup permutation_kernel(len, 3, k) \cup rqa_kernel(len, 2, k) \cup approximate_entropy(len, k)
    \cup subsample(len, AtLeast(k, 1)) \cup percentile(k, 98)
OfTwo(len, other) ==
  two_sample_ks(len, other) \cup chi2_homogeneity(len, other, AtMost(other, 256))
    \cup cliffs_delta(len, other) \cup mann_whitney_u_test(len, other)
    \cup cross_correlation_matrix(len, other) \cup mutual_information(len, other)
    \cup phase_coherence(len, other) \cup cross_sync(len, other)
    \cup global_event_detection(<<len, other, len>>)

AllSound(operations) == \A op \in operations : Sound(op)

\* No test indexes or cuts a sample outside of it, divides by zero or takes a
\* length from a smaller one, however long the sample is and whatever the
\* window, the lag or the other sample: what each refuses is enough.
NoPanic ==
  /\ AllSound(OfOne(n))
  /\ \A k \in {0, 1, 2, 10, n \div 2, n, n + 1} : AllSound(OfOneWith(n, k))
  /\ \A k \in {0, 1, n \div 2, n, n + 1} : AllSound(OfTwo(n, k))
=============================================================================
