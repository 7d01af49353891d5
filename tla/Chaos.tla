-------------------------------- MODULE Chaos --------------------------------
(***************************************************************************)
(* chaos.rs: what a sample looks like as a trajectory.                     *)
(***************************************************************************)
EXTENDS Analysis

subsample_to_limit(n, max_samples) == Stepped(n, max_samples)

percentile(n, p) ==
  IF n = 0 THEN Invalid ELSE {Minus(n, 1), Index(AtMost((p * (n - 1) + 50) \div 100, n - 1), n)}

sample_std_dev(n) == IF n < 2 THEN Invalid ELSE {Ratio(n), Ratio(n - 1)}

--------------------------- (* sample_entropy *) ----------------------------

sample_entropy_kernel(len, m) ==
  LET n == subsample_to_limit(len, 5000)
  IN  IF m = 0 \/ len <= m + 1 \/ n <= m + 1 THEN Invalid
      ELSE {Minus(n, m), Minus(n, m + 1), Index(n - m - 1 + m - 1, n)}
           \cup LastOf(0, n - m - 1, LAMBDA i : Index(i + m, n))

\* The pairs of places, from 1, whose m elements differ by less than r, and
\* of those the ones whose next elements do too: the double loop.
count_b(s, m, r) ==
  {p \in (1 .. Len(s) - m) \X (1 .. Len(s) - m) :
     p[1] # p[2] /\ \A k \in 0 .. m - 1 : Abs(s[p[1] + k] - s[p[2] + k]) < r}
count_a(s, m, r) ==
  {p \in count_b(s, m, r) :
     p[1] < Len(s) - m /\ p[2] < Len(s) - m /\ Abs(s[p[1] + m] - s[p[2] + m]) < r}

------------------------- (* windows of many sizes *) -----------------------

hurst_exponent(n) ==
  LET max_window == n \div 4
      step == AtLeast((max_window - 10) \div 20, 1)
      sizes == {w \in 10 .. max_window - 1 : (w - 10) % step = 0}
  IN  IF n < 100 \/ max_window <= 10 THEN Invalid
      ELSE {Minus(max_window, 10), Over(step)}
           \cup UNION {{Over(w), Minus(n, w), Ratio(w - 1)} \cup Cuts({<<(n \div w - 1) * w, (n \div w) * w>>}, n) :
                         w \in sizes}

\* Of the start positions step by step the last one.
rolling_hurst(n, window_size, step) ==
  IF window_size = 0 \/ step = 0 \/ n < window_size THEN Invalid
  ELSE LET offset == ((n - window_size) \div step) * step
       IN  Cuts({<<offset, offset + window_size>>}, n) \cup hurst_exponent(window_size)

\* A shuffle for each surrogate: i from the last element down to the second.
bootstrap_hurst(n, n_bootstrap) ==
  IF hurst_exponent(n) = Invalid \/ n_bootstrap = 0 THEN Invalid
  ELSE {Over(n), Index(n - 1, n)} \cup percentile(n_bootstrap, 2) \cup percentile(n_bootstrap, 98)

\* Windows of ten to a quarter of the sample: both ends.
dfa(n, order) ==
  LET max_window == n \div 4
  IN  IF n < 40 \/ order # 1 \/ max_window <= 10 THEN Invalid
      ELSE UNION {IF n \div w < 2 THEN {} ELSE {Over(w), Ratio(w)} \cup Cuts(Windows(w, n \div w), n) :
                    w \in {10, max_window}}

-------------------------------- (* bits *) ---------------------------------

shannon_entropy_binary(n) == IF n = 0 THEN Invalid ELSE {Ratio(8 * n)}
bytes_to_bits(n)     == 8 * n
binary_derivative(n) == IF n < 2 THEN Invalid ELSE {Minus(n, 1), Index(n - 1, n)}
shannon_entropy_bits(n) == IF n = 0 THEN Invalid ELSE {Ratio(n)}

\* Each chunk of 32 bytes is derived up to twenty times, a bit shorter each time.
bientropy(n) ==
  LET chunk == bytes_to_bits(AtMost(n, 32))
      rest  == bytes_to_bits(n % 32)
      Derived(bits) ==
        IF bits < 2 THEN {}
        ELSE UNION {binary_derivative(bits - k) \cup shannon_entropy_bits(bits - k) :
                      k \in 0 .. AtMost(20, bits - 1) - 1}
  IN  IF n < 2 THEN Invalid ELSE {Chunks(32)} \cup Derived(chunk) \cup Derived(rest)

epiplexity(n) == IF n < 20 THEN Invalid ELSE {Ratio(n), Chunks(2), Ratio(n - 1)}

------------------------- (* points in phase space *) -----------------------

\* The number of vectors of m elements tau apart.
embedded_len(n, m, tau) == IF n < m * tau THEN 0 ELSE n - (m - 1) * tau
time_delay_embedding(n, m, tau) ==
  IF n < m * tau THEN Invalid
  ELSE {Minus(n, (m - 1) * tau)}
       \cup LastOf(0, n - (m - 1) * tau, LAMBDA i : Index(i + (m - 1) * tau, n))

lyapunov_exponent(len) ==
  LET sampled  == Stepped(len, 5000)
      embedded == embedded_len(sampled, 3, 1)
  IN  IF len < 500 THEN Invalid
      ELSE time_delay_embedding(sampled, 3, 1)
           \cup IF embedded < 100 THEN {}
                ELSE {Index((AtMost(embedded, 200) - 1) * AtLeast(embedded \div 200, 1), embedded)}

correlation_dimension(len) ==
  LET subsampled == Stepped(len, 500)
      Points(m) == embedded_len(subsampled, m, 1)
      Pairs(m)  == (Points(m) * (Points(m) - 1)) \div 2
  IN  IF len < 1000 THEN Invalid
      ELSE UNION {time_delay_embedding(subsampled, m, 1)
                  \cup IF Points(m) < 10 \/ Pairs(m) < 100 THEN {}
                       ELSE {Index(Pairs(m) \div 100, Pairs(m)), Index(Pairs(m) \div 2, Pairs(m)),
                             Ratio(Pairs(m))} : m \in 2 .. 8}

rqa_kernel(len, embedding_dim, delay) ==
  LET embedded == embedded_len(len, embedding_dim, delay)
      n == Stepped(embedded, 1000)
  IN  IF len = 0 \/ embedding_dim = 0 \/ delay = 0 THEN Invalid
      ELSE time_delay_embedding(len, embedding_dim, delay)
           \cup IF embedded < 2 THEN {}
                ELSE {Over(1000), Index(n - 1, n), Index(n, n + 1), Ratio(n * (n - 1))}

\* The points of the recurrence plot of single elements: row i, column j.
Recurrent(s, threshold) ==
  {p \in (DOMAIN s) \X (DOMAIN s) : p[1] # p[2] /\ Abs(s[p[1]] - s[p[2]]) < threshold}

\* The length of the line that ends in a point: the tables of rqa, which hold
\* one row at a time.  Down a diagonal when dj = 1, down a column when dj = 0.
line_lengths(s, threshold, dj) ==
  LET plot == Recurrent(s, threshold)
      L[i \in 0 .. Len(s), j \in 0 .. Len(s)] ==
        IF <<i, j>> \notin plot THEN 0 ELSE 1 + L[i - 1, j - dj]
  IN  L

\* A point adds two to the points of a line where it makes it one of two, and
\* one where it makes it longer.
points_in_lines(s, threshold, dj) ==
  LET L == line_lengths(s, threshold, dj)
  IN  Total([p \in (DOMAIN s) \X (DOMAIN s) |->
               IF L[p] = 2 THEN 2 ELSE IF L[p] > 2 THEN 1 ELSE 0])
line_count(s, threshold, dj) ==
  LET L == line_lengths(s, threshold, dj)
  IN  Cardinality({p \in (DOMAIN s) \X (DOMAIN s) : L[p] = 2})
=============================================================================
