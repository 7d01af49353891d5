--------------------------------- MODULE Nist ---------------------------------
(***************************************************************************)
(* openentropy-tests: the battery of tests in the manner of NIST SP        *)
(* 800-22.  What each test reads of a sample of n bytes, below; and, of    *)
(* the tests that count, what they count.                                  *)
(***************************************************************************)
EXTENDS Statistics

--------------------- (* frequency, runs, patterns: lengths *) --------------

monobit_frequency(n) == IF 8 * n < 100 THEN Invalid ELSE {Ratio(8 * n)}
block_frequency(n) ==
  IF (8 * n) \div 128 < 10 THEN Invalid
  ELSE Cuts(Windows(128, (8 * n) \div 128), 8 * n) \cup chi_squared_survival((8 * n) \div 128)
byte_frequency(n) == IF n < 256 THEN Invalid ELSE {Ratio(n)} \cup chi_squared_survival(255)
runs_test(n) == IF 8 * n < 100 THEN Invalid ELSE {Ratio(8 * n), Index(8 * n - 1, 8 * n)}
longest_run_of_ones(n) == IF 8 * n < 128 THEN Invalid ELSE Cuts(Windows(8, n), 8 * n) \cup {Ratio(n)}

\* Only the first 20000 bits are looked at.
Truncated(n) == AtMost(8 * n, 20000)
serial_test(n) ==
  IF Truncated(n) < 26 THEN Invalid ELSE {Over(Truncated(n)), Ratio(Truncated(n))}
approximate_entropy(n) ==
  IF Truncated(n) < 64 THEN Invalid ELSE {Over(Truncated(n)), Ratio(Truncated(n))}

------------------- (* spectrum, entropy, correlation: lengths *) -----------

dft_spectral(n) == IF 8 * n < 64 THEN Invalid ELSE {Slice(0, 4 * n, 8 * n), Ratio(n)}
spectral_flatness(n) ==
  IF n < 64 \/ n \div 2 < 2 THEN Invalid
  ELSE {Ratio(n), Slice(1, n \div 2, n), Ratio(n \div 2 - 1)}
shannon_entropy(n) == IF n < 16 THEN Invalid ELSE {Ratio(n)}
min_entropy(n) == IF n < 16 THEN Invalid ELSE {Ratio(n)}

\* The windows start at 0..n - 5: the one that ends the sample is left out.
permutation_entropy(n) ==
  IF n < 14 THEN Invalid
  ELSE {Minus(n, 4), Ratio(n - 4)} \cup LastOf(0, n - 4, LAMBDA i : Slice(i, i + 4, n))
compression_ratio(n) == IF n < 32 THEN Invalid ELSE {Ratio(n)}
kolmogorov_complexity(n) == IF n < 32 THEN Invalid ELSE {Ratio(n)}

\* Products of elements `lag` apart.
Lagged(n, lag) == {Minus(n, lag), Ratio(n - lag)} \cup LastOf(0, n - lag, LAMBDA i : Index(i + lag, n))
autocorrelation(n) ==
  IF n < 60 THEN Invalid ELSE {Ratio(n)} \cup UNION {Lagged(n, lag) : lag \in 1 .. AtMost(50, n - 1)}
serial_correlation(n) == IF n < 20 THEN Invalid ELSE {Ratio(n)} \cup Lagged(n, 1)
lag_n_correlation(n) ==
  IF n < 42 THEN Invalid
  ELSE {Ratio(n)} \cup UNION {Lagged(n, lag) : lag \in {l \in {1, 2, 4, 8, 16, 32} : l < n}}
cross_correlation(n) ==
  LET min_len == n \div 2
  IN  IF n < 100 \/ min_len < 2 THEN Invalid
      ELSE {Slice(0, min_len, CeilDiv(n, 2)), Ratio(min_len), Minus(min_len, 2)}

------------------ (* distribution, complexity, geometry: lengths *) --------

ks_test(n) == IF n < 50 THEN Invalid ELSE {Ratio(n)}
anderson_darling(n) ==
  IF n < 50 THEN Invalid ELSE {Ratio(n)} \cup {Minus(n - 1, i) : i \in {0, n - 1}}
overlapping_template(n) ==
  IF 8 * n < 1000 THEN Invalid ELSE {Minus(8 * n, 4), Slice(8 * n - 4, 8 * n, 8 * n)}
non_overlapping_template(n) ==
  IF 8 * n < 1000 THEN Invalid ELSE {Slice(8 * n - 4, 8 * n, 8 * n)}
maurers_universal(n) ==
  LET total_blocks == (8 * n) \div 6
  IN  IF total_blocks <= 640 \/ total_blocks - 640 < 100 THEN Invalid
      ELSE {Minus(total_blocks, 640), Ratio(total_blocks - 640),
            Index((total_blocks - 1) * 6 + 5, 8 * n)}
binary_matrix_rank(n) ==
  IF (8 * n) \div 1024 < 38 THEN Invalid
  ELSE Cuts(Windows(1024, (8 * n) \div 1024), 8 * n) \cup {Slice(31 * 32, 32 * 32, 1024)}
linear_complexity(n) ==
  IF (8 * n) \div 200 < 6 THEN Invalid
  ELSE Cuts(Windows(200, (8 * n) \div 200), 8 * n) \cup {Ratio((8 * n) \div 200), Index(0, 200)}
cusum_test(n) == IF 8 * n < 100 THEN Invalid ELSE {Ratio(8 * n)}
random_excursions(n) == IF 8 * n < 1000 THEN Invalid ELSE {Ratio(n)}
birthday_spacing(n) ==
  LET m == IF n >= 200 THEN n \div 2 ELSE n
  IN  IF n < 100 THEN Invalid
      ELSE {Index(m - 1, m), Index(m - 2, m - 1)} \cup IF n < 200 THEN {} ELSE {Index((m - 1) * 2 + 1, n)}
bit_avalanche(n) == IF n < 100 THEN Invalid ELSE {Minus(n, 1), Ratio(n - 1), Index(n - 1, n)}
monte_carlo_pi(n) ==
  IF n < 200 THEN Invalid ELSE {Ratio(n \div 2), Index(n \div 2 + n \div 2 - 1, n)}
mean_variance(n) == IF n < 50 THEN Invalid ELSE {Ratio(n)} \cup chi_squared_survival(n - 1)

run_all_tests(n) ==
  monobit_frequency(n) \cup block_frequency(n) \cup byte_frequency(n) \cup runs_test(n)
    \cup longest_run_of_ones(n) \cup serial_test(n) \cup approximate_entropy(n)
    \cup dft_spectral(n) \cup spectral_flatness(n) \cup shannon_entropy(n) \cup min_entropy(n)
    \cup permutation_entropy(n) \cup compression_ratio(n) \cup kolmogorov_complexity(n)
    \cup autocorrelation(n) \cup serial_correlation(n) \cup lag_n_correlation(n)
    \cup cross_correlation(n) \cup ks_test(n) \cup anderson_darling(n)
    \cup overlapping_template(n) \cup non_overlapping_template(n) \cup maurers_universal(n)
    \cup binary_matrix_rank(n) \cup linear_complexity(n) \cup cusum_test(n)
    \cup random_excursions(n) \cup birthday_spacing(n) \cup bit_avalanche(n)
    \cup monte_carlo_pi(n) \cup mean_variance(n)

---------------------------- (* what they count *) --------------------------

\* How often each pattern of m bits occurs, the sequence read as a circle.
Pattern(bits, i, m) == [j \in 1 .. m |-> bits[((i + j - 2) % Len(bits)) + 1]]
psi_counts(bits, m) ==
  [p \in {Pattern(bits, i, m) : i \in DOMAIN bits} |->
     Cardinality({i \in DOMAIN bits : Pattern(bits, i, m) = p})]
\* Times 2^-m n, plus n: psi_sq.
psi_sum_sq(bits, m) == LET c == psi_counts(bits, m) IN Total([p \in DOMAIN c |-> c[p] * c[p]])

\* The occurrences of 0011, counted from the left; after one the search goes on
\* behind it.
template_matches(bits, template) ==
  LET m == Len(template)
      Step[i \in 1 .. Len(bits) + 1] ==
        IF i + m - 1 > Len(bits) THEN 0
        ELSE IF SubSeq(bits, i, i + m - 1) = template THEN 1 + Step[i + m]
        ELSE Step[i + 1]
  IN  Step[1]

\* The walk of the bits, and its cycles: the zeros but one, when a zero has been
\* put before it and another behind.
walk(bits) ==
  LET S[i \in 0 .. Len(bits)] == IF i = 0 THEN 0 ELSE S[i - 1] + (IF bits[i] = 1 THEN 1 ELSE -1)
  IN  S
cusum(bits) == LET s == walk(bits) IN Max({Abs(s[i]) : i \in 1 .. Len(bits)})
cycles(bits) == LET s == walk(bits) IN Cardinality({i \in 0 .. Len(bits) : s[i] = 0})

\* The rank of a matrix of bits: for each column a row with a one there is
\* moved up to row `rank` and added to every other row with a one.
Plus(x, y) == [c \in DOMAIN x |-> (x[c] + y[c]) % 2]
gf2_rank(matrix) ==
  LET rows == Len(matrix)
      cols == Len(matrix[1])
      Pivots(m, rank, col) == {r \in rank + 1 .. rows : m[r][col] = 1}
      Swapped(m, r, p) == [m EXCEPT ![r] = m[p], ![p] = m[r]]
      Cleared(m, r, col) ==
        [i \in 1 .. rows |-> IF i # r /\ m[i][col] = 1 THEN Plus(m[i], m[r]) ELSE m[i]]
      Step[col \in 0 .. cols] ==
        IF col = 0 THEN [m |-> matrix, rank |-> 0]
        ELSE LET before == Step[col - 1]
                 pivots == Pivots(before.m, before.rank, col)
                 top == before.rank + 1
             IN  IF pivots = {} THEN before
                 ELSE [m |-> Cleared(Swapped(before.m, top, Min(pivots)), top, col), rank |-> top]
  IN  Step[cols].rank

\* The register cannot give element ni and is too short for the correction: it
\* gets longer.
GrowsFromHalf(l, ni) == l < ni \div 2
Grows(l, ni) == l <= ni \div 2

\* The length of the shortest shift register that gives a sequence: after each
\* element the connection polynomial c, its predecessor b, the length l and m,
\* the element where the length last grew, counted from 0.
berlekamp_massey(seq) ==
  LET n == Len(seq)
      One == [i \in 0 .. n - 1 |-> IF i = 0 THEN 1 ELSE 0]
      Discrepancy(st, ni) == (seq[ni + 1] + Total([i \in 1 .. st.l |-> st.c[i] * seq[ni - i + 1]])) % 2
      Corrected(st, shift) ==
        [i \in 0 .. n - 1 |-> IF i < shift THEN st.c[i] ELSE (st.c[i] + st.b[i - shift]) % 2]
      Step[ni \in -1 .. n - 1] ==
        IF ni = -1 THEN [c |-> One, b |-> One, l |-> 0, m |-> -1]
        ELSE LET st == Step[ni - 1]
                 c == Corrected(st, ni - st.m)
             IN  IF Discrepancy(st, ni) = 0 THEN st
                 ELSE IF Grows(st.l, ni) THEN [c |-> c, b |-> st.c, l |-> ni + 1 - st.l, m |-> ni]
                 ELSE [st EXCEPT !.c = c]
  IN  Step[n - 1].l
=============================================================================
