----------------------------- MODULE Estimators -----------------------------
(***************************************************************************)
(* conditioning.rs: what the estimators of min-entropy read of a sample of *)
(* n bytes, and divide by.  What one of them counts is in Conditioning.    *)
(***************************************************************************)
EXTENDS Kernel

min_entropy(n)  == IF n = 0 THEN Invalid ELSE {Ratio(n)}
mcv_estimate(n) == IF n = 0 THEN Invalid ELSE {Ratio(n)}
quick_shannon(n) == IF n = 0 THEN Invalid ELSE {Ratio(n)}

collision_estimate(n) == IF n < 3 THEN Invalid ELSE {Minus(n, 1), Index(n - 1, n), Ratio(n - 1)}

markov_estimate(n) ==
  IF n < 2 THEN Invalid ELSE {Ratio(n), Chunks(2), Slice(255 * 256, 255 * 256 + 256, 256 * 256)}

\* The sample starts with q bytes that only say where each value was last.
compression_estimate(n) ==
  LET q == AtMost(256, n \div 4)
  IN  IF n < 100 THEN Invalid ELSE {Over(4), Minus(n, q), Slice(0, q, n), Slice(q, n, n)}

t_tuple_estimate(n) ==
  IF n < 20 THEN Invalid
  ELSE UNION {IF n < t + 1 THEN {} ELSE {Chunks(t), Minus(n, t), Ratio(n - t + 1)} : t \in 1 .. 3}

quick_autocorrelation_lag1(n) ==
  IF n < 2 THEN Invalid ELSE {Ratio(n), Minus(n, 1), Index(n - 1, n)}

quick_quality(n) == IF n < 16 THEN Invalid ELSE {Ratio(n)} \cup quick_shannon(n)
min_entropy_estimate(n) ==
  quick_shannon(n) \cup mcv_estimate(n) \cup collision_estimate(n) \cup markov_estimate(n)
    \cup compression_estimate(n) \cup t_tuple_estimate(n)
=============================================================================
