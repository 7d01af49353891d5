------------------------------ MODULE Temporal ------------------------------
(***************************************************************************)
(* temporal.rs: change points, anomalies, bursts, shifts and drift along a *)
(* sample.  What a threshold decides is a number in floating point, left   *)
(* out here, except for the bursts, which compare bytes.                   *)
(***************************************************************************)
EXTENDS Kernel

\* The best offset may be any of min_segment..n - min_segment: both ends.
change_point_detection(n, min_segment) ==
  IF min_segment = 0 \/ n < 2 * min_segment THEN Invalid
  ELSE {Ratio(n), Minus(n, min_segment)}
       \cup UNION {{Index(k, n + 1), Slice(0, k, n), Ratio(k), Minus(n, k), Ratio(n - k)} :
                     k \in {min_segment, n - min_segment}}

anomaly_detection(n, window_size) ==
  IF window_size = 0 \/ n < window_size THEN Invalid
  ELSE {Over(window_size), Ratio(n \div window_size)}
       \cup Cuts(Windows(window_size, n \div window_size), n)

shift_detection(n, window_size) ==
  LET n_windows == n \div window_size
  IN  IF window_size = 0 \/ n < 2 * window_size THEN Invalid
      ELSE IF n_windows < 2 THEN Invalid
      ELSE Cuts(Windows(window_size, n_windows), n)
           \cup {Over(window_size), Ratio(n_windows), Minus(n_windows, 1), Ratio(n_windows - 1),
                 Index(n_windows - 1, n_windows)}

\* The segments are cut at i * n / n_segments.
drift_segments(n, n_segments) ==
  {<<(i * n) \div n_segments, ((i + 1) * n) \div n_segments>> : i \in 0 .. n_segments - 1}
temporal_drift(n, n_segments) ==
  IF n_segments < 2 \/ n < n_segments THEN Invalid
  ELSE {Over(n_segments)} \cup Cuts(drift_segments(n, n_segments), n)

\* The sessions that are not empty, and the coefficient of their variation.
inter_session_stability(sizes) ==
  LET session_stats == SelectSeq(sizes, LAMBDA x : x > 0)
  IN  IF Len(session_stats) < 2 THEN Invalid
      ELSE {Ratio(session_stats[s]) : s \in DOMAIN session_stats} \cup {Ratio(Len(session_stats))}

--------------------------------- (* bursts *) ------------------------------

\* The element of a sorted sample at position idx, from 0.
SortedValue(s, idx) ==
  CHOOSE v \in Range(s) : /\ Count(s, LAMBDA x : x < v) <= idx
                          /\ idx < Count(s, LAMBDA x : x <= v)

\* The position of a percentile: percentile / 100 * (n - 1), rounded.
PercentileAt(n, percentile) == (2 * percentile * (n - 1) + 100) \div 200
burst_threshold(s, percentile) == SortedValue(s, PercentileAt(Len(s), percentile))

\* The bursts as <<start, end>>, from 0, both included, in the order found: the
\* outer loop looks at element i, the inner one goes on to the first low element.
burst_detection(s, percentile) ==
  LET threshold == burst_threshold(s, percentile)
      past[i \in 1 .. Len(s) + 1] ==
        IF i > Len(s) THEN i ELSE IF s[i] < threshold THEN i ELSE past[i + 1]
      from[i \in 1 .. Len(s) + 1] ==
        IF i > Len(s) THEN << >>
        ELSE IF s[i] < threshold THEN from[i + 1]
        ELSE <<<<i - 1, past[i] - 2>>>> \o from[past[i]]
  IN  IF s = << >> THEN << >> ELSE from[1]

burst_kernel(n) ==
  IF n = 0 THEN Invalid ELSE {Minus(n, 1), Index(PercentileAt(n, 95), n), Ratio(n)}
=============================================================================
