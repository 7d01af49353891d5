-------------------------- MODULE AlgorithmsProofs --------------------------
(***************************************************************************)
(* Proofs about the numerical code for samples of any length and values:   *)
(* no statistic reads outside of its sample or divides by zero (a lemma    *)
(* for each family of functions, whose early returns are all that they     *)
(* rest on), the segments of a drift make up the sample, verdicts and      *)
(* scores keep the order of what they judge, Holm's correction is what it  *)
(* is for, and requests for sources by name are served.                    *)
(***************************************************************************)
EXTENDS Lengths, Reports, SequenceTheorems, FiniteSetTheorems, TLAPS

-------------------------- (* sound operations *) ---------------------------

LEMMA IndexSound == \A i, k \in Int : 0 <= i /\ i < k => Sound(Index(i, k))
BY DEF Sound, Index

LEMMA SliceSound == \A i, j, k \in Int : 0 <= i /\ i <= j /\ j <= k => Sound(Slice(i, j, k))
BY DEF Sound, Slice

LEMMA MinusSound == \A x, y \in Int : y <= x => Sound(Minus(x, y))
BY DEF Sound, Minus

LEMMA DivisorSound ==
  \A d \in Int : d # 0 => Sound(Over(d)) /\ Sound(Ratio(d)) /\ Sound(Chunks(d))
BY DEF Sound, Over, Ratio, Chunks

LEMMA SoundUnion == \A S, T : AllSound(S) /\ AllSound(T) => AllSound(S \cup T)
BY DEF AllSound

LEMMA SoundNone == AllSound(Invalid) /\ AllSound({})
BY DEF AllSound, Invalid

LEMMA Product ==
  ASSUME NEW x \in Nat, NEW y \in Nat, NEW z \in Nat, x <= y
  PROVE  x * z <= y * z /\ x * z \in Nat
OBVIOUS

LEMMA Quotient ==
  ASSUME NEW x \in Nat, NEW w \in Nat \ {0}
  PROVE  /\ x \div w \in Nat /\ (x \div w) * w <= x /\ x \div w <= x
         /\ x < (x \div w) * w + w
         /\ x >= w => x \div w >= 1
OBVIOUS

\* k windows of w elements, if there is room for them.
LEMMA TilesSound ==
  ASSUME NEW w \in Nat, NEW k \in Nat, NEW len \in Nat, k * w <= len
  PROVE  AllSound(Cuts(Windows(w, k), len))
<1> SUFFICES ASSUME NEW p \in Windows(w, k)
             PROVE  Sound(Slice(p[1], p[2], len))
  BY DEF AllSound, Cuts
<1>1. PICK i \in 0 .. k - 1 : p = <<i * w, i * w + w>>
  BY DEF Windows
<1>2. i + 1 \in Nat /\ i + 1 <= k
  OBVIOUS
<1>3. (i + 1) * w <= k * w /\ i * w \in Nat /\ k * w \in Nat
  BY <1>2, Product
<1>4. (i + 1) * w = i * w + w
  OBVIOUS
<1>5. PICK x \in Nat, y \in Nat : x = i * w /\ y = k * w
  BY <1>3
<1>6. p[1] = x /\ p[2] = x + w /\ x + w <= len
  BY <1>1, <1>3, <1>4, <1>5
<1> QED
  BY <1>5, <1>6, SliceSound

\* The windows of w elements that fit into len.
LEMMA WindowsSound ==
  ASSUME NEW len \in Nat, NEW w \in Nat \ {0}, NEW limit \in Nat, len <= limit
  PROVE  AllSound(Cuts(Windows(w, len \div w), limit))
<1>1. PICK k \in Nat : k = len \div w /\ k * w <= len
  BY Quotient
<1>2. k * w <= limit
  <2>1. PICK x \in Nat : x = k * w
    BY Product
  <2> QED
    BY <1>1, <2>1
<1> QED
  BY <1>1, <1>2, TilesSound

-------------------------- (* min-entropy *) --------------------------------

LEMMA EstimatorsSound ==
  ASSUME NEW len \in Nat
  PROVE  /\ AllSound(min_entropy_estimate(len)) /\ AllSound(quick_quality(len))
         /\ AllSound(min_entropy(len)) /\ AllSound(quick_autocorrelation_lag1(len))
<1>1. AllSound(quick_shannon(len)) /\ AllSound(mcv_estimate(len)) /\ AllSound(min_entropy(len))
  BY DivisorSound DEF AllSound, quick_shannon, mcv_estimate, min_entropy, Invalid
<1>2. AllSound(collision_estimate(len)) /\ AllSound(quick_autocorrelation_lag1(len))
  BY DivisorSound, MinusSound, IndexSound
     DEF AllSound, collision_estimate, quick_autocorrelation_lag1, Invalid
<1>3. AllSound(markov_estimate(len))
  BY DivisorSound, SliceSound DEF AllSound, markov_estimate, Invalid
<1>4. AllSound(compression_estimate(len))
  BY DivisorSound, MinusSound, SliceSound DEF AllSound, compression_estimate, AtMost, Invalid
<1>5. AllSound(t_tuple_estimate(len))
  BY DivisorSound, MinusSound DEF AllSound, t_tuple_estimate, Invalid
<1>6. AllSound(quick_quality(len))
  BY <1>1, DivisorSound DEF AllSound, quick_quality, Invalid
<1>7. AllSound(min_entropy_estimate(len))
  BY <1>1, <1>2, <1>3, <1>4, <1>5 DEF AllSound, min_entropy_estimate
<1> QED
  BY <1>1, <1>2, <1>6, <1>7

--------------------------- (* statistics.rs *) -----------------------------

LEMMA ChiSquaredSound == \A df \in Int : AllSound(chi_squared_survival(df))
BY DivisorSound DEF AllSound, chi_squared_survival, Invalid

LEMMA LjungBoxSound == \A len, k \in Nat : AllSound(ljung_box(len, k))
<1> SUFFICES ASSUME NEW len \in Nat, NEW k \in Nat PROVE AllSound(ljung_box(len, k))
  OBVIOUS
<1>1. CASE k = 0 \/ len <= k
  BY <1>1, SoundNone DEF ljung_box
<1>2. CASE ~(k = 0 \/ len <= k)
  <2>1. AllSound(chi_squared_survival(k)) /\ AllSound({Ratio(len)})
    BY <1>2, ChiSquaredSound, DivisorSound DEF AllSound
  <2>2. ASSUME NEW lag \in 1 .. k
        PROVE  AllSound({Minus(len, lag), Ratio(len - lag)}
                          \cup LastOf(0, len - lag, LAMBDA i : Index(i + lag, len)))
    BY <1>2, DivisorSound, MinusSound, IndexSound DEF AllSound, LastOf
  <2> QED
    BY <1>2, <2>1, <2>2 DEF AllSound, ljung_box
<1> QED
  BY <1>1, <1>2

LEMMA GapTestSound ==
  \A len, hits, lower, upper \in Nat : AllSound(gap_test(len, hits, lower, upper))
BY DivisorSound, IndexSound DEF AllSound, gap_test, Invalid

LEMMA StatisticsSound ==
  ASSUME NEW len \in Nat
  PROVE  AllSound(cramer_von_mises(len)) /\ AllSound(power_analysis(len))
BY DivisorSound, MinusSound DEF AllSound, cramer_von_mises, power_analysis, Invalid

-------------------- (* comparison.rs, synchrony.rs, trials.rs *) ------------

LEMMA NatProduct == \A x, y \in Nat \ {0} : x * y \in Nat \ {0}
OBVIOUS

\* Tests of two samples, either of which may be empty.
LEMMA PairsSound ==
  ASSUME NEW len \in Nat, NEW other \in Nat, NEW bins \in Nat
  PROVE  /\ AllSound(two_sample_ks(len, other)) /\ AllSound(chi2_homogeneity(len, other, bins))
         /\ AllSound(cliffs_delta(len, other)) /\ AllSound(mann_whitney_u_test(len, other))
<1>1. CASE Empty(len, other)
  BY <1>1, SoundNone DEF two_sample_ks, chi2_homogeneity, cliffs_delta, mann_whitney_u_test
<1>2. CASE ~Empty(len, other)
  <2>1. len \in Nat \ {0} /\ other \in Nat \ {0}
    BY <1>2 DEF Empty
  <2>2. PICK x \in Nat \ {0}, y \in Nat \ {0}, z \in Nat \ {0} :
          x = len * other /\ y = len + other /\ z = (len + other) * (len + other - 1)
    <3>1. len + other \in Nat \ {0} /\ len + other - 1 \in Nat \ {0}
      BY <2>1
    <3> QED
      BY <2>1, <3>1, NatProduct
  <2>3. AllSound({Ratio(len), Ratio(other), Ratio(y)}) /\ AllSound({Ratio(x), Ratio(y)})
        /\ AllSound({Ratio(x)}) /\ AllSound({Ratio(x), Ratio(z)})
    BY <2>1, DivisorSound DEF AllSound
  <2>4. AllSound(chi_squared_survival(Monus(bins, 1)))
    BY ChiSquaredSound DEF Monus, AtLeast
  <2> QED
    BY <1>2, <2>2, <2>3, <2>4, SoundUnion
       DEF two_sample_ks, chi2_homogeneity, cliffs_delta, mann_whitney_u_test
<1> QED
  BY <1>1, <1>2

LEMMA WindowedScanSound == \A len, w \in Nat : AllSound(windowed_scan(len, w))
<1> SUFFICES ASSUME NEW len \in Nat, NEW w \in Nat PROVE AllSound(windowed_scan(len, w))
  OBVIOUS
<1>1. CASE len = 0 \/ w = 0
  BY <1>1, SoundNone DEF windowed_scan
<1>2. CASE ~(len = 0 \/ w = 0)
  <2>1. AllSound({Over(w)}) /\ AllSound({Ratio(w)})
    BY <1>2, DivisorSound DEF AllSound
  <2>2. AllSound(Cuts(Windows(w, len \div w), len))
    BY <1>2, WindowsSound
  <2> QED
    BY <1>2, <2>1, <2>2, SoundUnion DEF windowed_scan
<1> QED
  BY <1>1, <1>2

\* The last of max samples that are len \div max apart, rounded down.
LEMMA SubsampleSound ==
  ASSUME NEW len \in Nat, NEW max \in Nat \ {0}
  PROVE  AllSound(subsample(len, max))
<1>1. CASE len <= max
  BY <1>1, SoundNone DEF subsample
<1>2. CASE len > max
  <2>1. PICK m \in Nat : m = max - 1
    OBVIOUS
  <2>2. PICK x \in Nat, y \in Nat : x = m * len /\ y = max * len /\ y = x + len
    <3>1. m * len \in Nat /\ max * len \in Nat
      BY Product
    <3>2. (m + 1) * len = m * len + len
      OBVIOUS
    <3> QED
      BY <2>1, <3>1, <3>2
  <2>3. PICK q \in Nat : q = x \div max /\ q * max <= x
    BY Quotient
  <2>4. q < len
    <3>1. ASSUME q >= len PROVE FALSE
      <4>1. len * max <= q * max
        BY <3>1, Product
      <4>2. PICK z \in Nat : z = len * max /\ z = max * len
        BY <2>2
      <4> QED
        BY <1>2, <2>2, <2>3, <4>1, <4>2
    <3> QED
      BY <3>1
  <2>5. AllSound({Ratio(max), Index(q, len)})
    BY <2>4, DivisorSound, IndexSound DEF AllSound
  <2> QED
    BY <1>2, <2>1, <2>2, <2>3, <2>5 DEF subsample
<1> QED
  BY <1>1, <1>2

LEMMA TemporalAnalysisSound == \A len \in Nat : AllSound(temporal_analysis(len))
<1> SUFFICES ASSUME NEW len \in Nat PROVE AllSound(temporal_analysis(len))
  OBVIOUS
<1>1. AllSound(windowed_scan(len, 1024))
  BY WindowedScanSound
<1>2. PICK q \in Nat : q = len \div 1024
  BY Quotient
<1>3. AllSound(subsample(q, 1024))
  BY SubsampleSound
<1> QED
  BY <1>1, <1>2, <1>3, SoundUnion DEF temporal_analysis

LEMMA DigramSound == \A len \in Nat : AllSound(digram_chi2(len))
BY DivisorSound, MinusSound, IndexSound
   DEF AllSound, digram_chi2, Invalid, N_DIGRAM_BINS, CHI2_MIN_EXPECTED

LEMMA SynchronySound ==
  ASSUME NEW len \in Nat, NEW other \in Nat
  PROVE  /\ AllSound(pearson_corr(len, other)) /\ AllSound(mutual_information(len, other))
         /\ AllSound(phase_coherence(len, other))
<1>1. AllSound(pearson_corr(len, other)) /\ AllSound(phase_coherence(len, other))
  BY DivisorSound, SliceSound DEF AllSound, pearson_corr, phase_coherence, Invalid, AtMost
<1>2. AllSound(mutual_information(len, other))
  BY DivisorSound, IndexSound DEF AllSound, mutual_information, Invalid, AtMost
<1> QED
  BY <1>1, <1>2

\* Of n elements every step-th one: the last of them is in the sample.
LEMMA CeilDivIs ==
  ASSUME NEW x \in Nat \ {0}, NEW d \in Nat \ {0}
  PROVE  /\ CeilDiv(x, d) \in Nat \ {0} /\ x <= CeilDiv(x, d) * d /\ CeilDiv(x, d) * d \in Nat
         /\ (CeilDiv(x, d) - 1) * d < x /\ (CeilDiv(x, d) - 1) * d \in Nat
<1>1. PICK y \in Nat : y = x + d - 1
  OBVIOUS
<1>2. PICK q \in Nat : q = y \div d
  BY Quotient
<1>3. q = CeilDiv(x, d)
  BY <1>1, <1>2 DEF CeilDiv
<1>4. q * d <= y /\ y < q * d + d /\ q >= 1
  BY <1>1, <1>2, Quotient
<1>5. PICK r \in Nat : r = q - 1
  BY <1>4
<1>6. r * d \in Nat /\ q * d \in Nat
  BY Product
<1>7. (r + 1) * d = r * d + d
  OBVIOUS
<1>8. PICK a \in Nat, b \in Nat : a = r * d /\ b = q * d
  BY <1>6
<1>9. b = a + d
  BY <1>5, <1>7, <1>8
<1>10. a < x /\ x <= b
  BY <1>1, <1>4, <1>8, <1>9
<1> QED
  BY <1>3, <1>4, <1>5, <1>8, <1>10

LEMMA CrossSyncSound == \A len, other \in Nat : AllSound(cross_sync(len, other))
<1> SUFFICES ASSUME NEW len \in Nat, NEW other \in Nat PROVE AllSound(cross_sync(len, other))
  OBVIOUS
<1>1. PICK k \in Nat : k = AtMost(len, other)
  BY DEF AtMost
<1>2. CASE k < 2
  BY <1>1, <1>2, SoundNone DEF cross_sync
<1>3. CASE ~(k < 2)
  <2>1. k \in Nat \ {0}
    BY <1>3
  <2>2. PICK step \in Nat \ {0} : step = CeilDiv(k, 2000)
    BY <2>1, CeilDivIs
  <2>3. PICK m \in Nat \ {0} : m = CeilDiv(k, step)
    BY <2>1, CeilDivIs
  <2>4. PICK x \in Nat : x = (m - 1) * step /\ x < k
    BY <2>3, <2>1, CeilDivIs
  <2>5. AllSound({Over(2000), Index(x, k)})
    BY <2>4, DivisorSound, IndexSound DEF AllSound
  <2>6. ASSUME NEW l \in 0 .. 10, ~(l >= m)
        PROVE  AllSound({Minus(m, l), Slice(0, m - l, m), Slice(l, m, m)}
                          \cup pearson_corr(m - l, m - l))
    <3>1. AllSound({Minus(m, l), Slice(0, m - l, m), Slice(l, m, m)})
      BY <2>6, MinusSound, SliceSound DEF AllSound
    <3>2. m - l \in Nat
      BY <2>6
    <3> QED
      BY <3>1, <3>2, SynchronySound, SoundUnion
  <2>7. AllSound(UNION {IF l >= m THEN {}
                        ELSE {Minus(m, l), Slice(0, m - l, m), Slice(l, m, m)}
                               \cup pearson_corr(m - l, m - l) : l \in 0 .. 10})
    BY <2>6 DEF AllSound
  <2> QED
    BY <1>1, <1>3, <2>2, <2>3, <2>4, <2>5, <2>7, SoundUnion, SoundNone DEF cross_sync
<1> QED
  BY <1>2, <1>3

LEMMA GlobalEventsSound ==
  \A len, other \in Nat : AllSound(global_event_detection(<<len, other, len>>))
<1> SUFFICES ASSUME NEW len \in Nat, NEW other \in Nat
             PROVE  AllSound(global_event_detection(<<len, other, len>>))
  OBVIOUS
<1> DEFINE lengths == <<len, other, len>>
<1>1. /\ DOMAIN lengths = 1 .. 3 /\ Len(lengths) = 3
      /\ lengths[1] = len /\ lengths[2] = other /\ lengths[3] = len
  OBVIOUS
<1> HIDE DEF lengths
<1>2. {lengths[s] : s \in DOMAIN lengths} = {len, other}
  BY <1>1
<1>3. PICK k \in Nat : k = Min({len, other}) /\ k <= len /\ k <= other
  BY DEF Min
<1>4. PICK w \in Nat : w = k \div 100
  BY Quotient
<1>5. ASSUME NEW s \in DOMAIN lengths PROVE AllSound(Cuts(Windows(100, w), lengths[s]))
  <2>1. lengths[s] \in {len, other}
    BY <1>2
  <2> QED
    BY <1>3, <1>4, <2>1, WindowsSound
<1>6. AllSound(UNION {Cuts(Windows(100, w), lengths[s]) : s \in DOMAIN lengths})
  BY <1>5 DEF AllSound
<1>7. w # 0 => AllSound({Ratio(w)})
  BY DivisorSound DEF AllSound
<1>8. AllSound(global_event_detection(lengths))
  <2>1. Min({lengths[s] : s \in DOMAIN lengths}) = k /\ k \div 100 = w
    BY <1>2, <1>3, <1>4
  <2>2. w # 0 =>
          AllSound({Ratio(w)} \cup UNION {Cuts(Windows(100, w), lengths[s]) : s \in DOMAIN lengths})
    BY <1>6, <1>7, SoundUnion
  <2>3. CASE w = 0
    BY <2>1, <2>3, SoundNone DEF global_event_detection
  <2>4. CASE w # 0
    BY <1>1, <2>1, <2>2, <2>4 DEF global_event_detection
  <2> QED
    BY <2>3, <2>4
<1> QED
  BY <1>8 DEF lengths

LEMMA TrialsSound ==
  ASSUME NEW len \in Nat, NEW bits \in Nat, bits >= 8
  PROVE  AllSound(trial_analysis(len, bits))
<1>1. PICK w \in Nat \ {0} : w = bits \div 8
  BY Quotient
<1>2. PICK k \in Nat : k = len \div w
  BY Quotient
<1>3. AllSound(Cuts(Windows(w, k), len))
  BY <1>2, WindowsSound
<1>4. AllSound({Over(w)}) /\ (k # 0 => AllSound({Ratio(k)}))
  BY DivisorSound DEF AllSound
<1> QED
  BY <1>1, <1>2, <1>3, <1>4, SoundUnion, SoundNone DEF trial_analysis

---------------------------- (* analysis.rs *) ------------------------------

\* A sample of which every step-th element is taken is not longer than the
\* limit, and has one element, or two, only if the whole has no more.
LEMMA SteppedIs ==
  ASSUME NEW len \in Nat, NEW max \in Nat \ {0}
  PROVE  /\ Stepped(len, max) \in Nat /\ Stepped(len, max) <= max
         /\ len > 0 => Stepped(len, max) > 0
         /\ len >= 2 /\ max >= 2 => Stepped(len, max) >= 2
<1>1. CASE len <= max
  BY <1>1 DEF Stepped
<1>2. CASE ~(len <= max)
  <2>1. PICK q \in Nat : q = len \div max /\ q * max <= len
    BY Quotient
  <2>2. PICK step \in Nat \ {0} : step = AtLeast(q, 1)
    BY DEF AtLeast
  <2>3. len \in Nat \ {0}
    BY <1>2
  <2>4. PICK c \in Nat \ {0} : c = CeilDiv(len, step) /\ len <= c * step
    BY <2>3, CeilDivIs
  <2>5. max >= 2 => step < len
    <3>1. max >= 2 => q * 2 <= q * max
      OBVIOUS
    <3>2. PICK x \in Nat : x = q * max
      OBVIOUS
    <3> QED
      BY <1>2, <2>1, <2>2, <3>1, <3>2 DEF AtLeast
  <2>6. max >= 2 => c # 1
    BY <2>4, <2>5
  <2> QED
    BY <1>2, <2>1, <2>2, <2>4, <2>6 DEF Stepped, AtMost
<1> QED
  BY <1>1, <1>2

LEMMA AutocorrelationSound == \A len, k \in Nat : AllSound(autocorrelation_profile(len, k))
<1> SUFFICES ASSUME NEW len \in Nat, NEW k \in Nat PROVE AllSound(autocorrelation_profile(len, k))
  OBVIOUS
<1>1. CASE len = 0 \/ k = 0
  BY <1>1, SoundNone DEF autocorrelation_profile
<1>2. CASE ~(len = 0 \/ k = 0)
  <2>1. ASSUME NEW lag \in 1 .. AtMost(k, len \div 2)
        PROVE  AllSound({Minus(len, lag), Ratio(len - lag)}
                          \cup LastOf(0, len - lag, LAMBDA i : Index(i + lag, len)))
    <3>1. lag \in Nat /\ lag < len
      BY <1>2 DEF AtMost
    <3> QED
      BY <3>1, DivisorSound, MinusSound, IndexSound DEF AllSound, LastOf
  <2>2. AllSound({Ratio(len)})
    BY <1>2, DivisorSound DEF AllSound
  <2> QED
    BY <1>2, <2>1, <2>2 DEF AllSound, autocorrelation_profile
<1> QED
  BY <1>1, <1>2

LEMMA PhiSound ==
  ASSUME NEW samples \in Nat, NEW m \in Nat \ {0}
  PROVE  AllSound(phi(samples, m))
<1>1. CASE samples < m
  BY <1>1, SoundNone DEF phi
<1>2. CASE ~(samples < m)
  <2>1. AllSound({Minus(samples, m), Ratio(samples - m + 1)})
    BY <1>2, MinusSound, DivisorSound DEF AllSound
  <2>2. AllSound(LastOf(0, samples - m + 1, LAMBDA i : Index(i + m - 1, samples)))
    BY <1>2, IndexSound DEF AllSound, LastOf
  <2> QED
    BY <1>2, <2>1, <2>2, SoundUnion DEF phi
<1> QED
  BY <1>1, <1>2

LEMMA ApproximateEntropySound ==
  ASSUME NEW len \in Nat
  PROVE  /\ \A m \in Nat : AllSound(approximate_entropy(len, m))
         /\ AllSound(approximate_entropy_default(len))
<1>1. PICK k \in Nat : k = Stepped(len, 5000)
  BY SteppedIs
<1>2. ASSUME NEW m \in Nat PROVE AllSound(approximate_entropy(len, m))
  <2>1. CASE m = 0 \/ k <= m + 1
    BY <1>1, <2>1, SoundNone DEF approximate_entropy
  <2>2. CASE ~(m = 0 \/ k <= m + 1)
    <3>1. AllSound({Ratio(k), Ratio(k - 1)})
      BY <2>2, DivisorSound DEF AllSound
    <3>2. m \in Nat \ {0} /\ m + 1 \in Nat \ {0}
      BY <2>2
    <3>3. AllSound(phi(k, m)) /\ AllSound(phi(k, m + 1))
      BY <3>2, PhiSound
    <3>4. AllSound({Ratio(k), Ratio(k - 1)} \cup phi(k, m) \cup phi(k, m + 1))
      BY <3>1, <3>3, SoundUnion
    <3> QED
      BY <1>1, <2>2, <3>4 DEF approximate_entropy
  <2> QED
    BY <2>1, <2>2
<1>3. k > 3 => AllSound({Ratio(k - 1)})
  BY DivisorSound DEF AllSound
<1>4. AllSound(approximate_entropy(len, 2))
  BY <1>2
<1>5. AllSound(approximate_entropy_default(len))
  BY <1>1, <1>3, <1>4, SoundUnion, SoundNone DEF approximate_entropy_default
<1> QED
  BY <1>2, <1>5

LEMMA StationaritySound == \A len \in Nat : AllSound(stationarity_test(len))
<1> SUFFICES ASSUME NEW len \in Nat PROVE AllSound(stationarity_test(len))
  OBVIOUS
<1>1. PICK w \in Nat : w = len \div 10 /\ 10 * w <= len
  BY Quotient
<1>2. AllSound(Cuts(Windows(w, 10), len))
  BY <1>1, TilesSound
<1>3. w # 0 => AllSound({Ratio(w)})
  BY DivisorSound DEF AllSound
<1> QED
  BY <1>1, <1>2, <1>3, SoundUnion, SoundNone DEF stationarity_test

LEMMA PermutationSound ==
  ASSUME NEW len \in Nat, NEW order \in Nat, NEW delay \in Nat
  PROVE  AllSound(permutation_kernel(len, order, delay))
<1>1. CASE order < 2
  BY <1>1, SoundNone DEF permutation_kernel
<1>2. CASE ~(order < 2)
  <2>1. PICK x \in Nat : x = (order - 1) * delay
    <3>1. order - 1 \in Nat
      BY <1>2
    <3> QED
      BY <3>1, Product
  <2>2. len >= x + 2 =>
          AllSound({Minus(len, x), Ratio(len - x), Index(len - x - 1 + x, len)})
    BY DivisorSound, MinusSound, IndexSound DEF AllSound
  <2> QED
    BY <1>2, <2>1, <2>2, SoundNone DEF permutation_kernel
<1> QED
  BY <1>1, <1>2

LEMMA AnalysisSound ==
  ASSUME NEW len \in Nat
  PROVE  AllSound(full_analysis(len)) /\ AllSound(anderson_darling(len))
<1>1. AllSound(spectral_analysis(len)) /\ AllSound(distribution_stats(len))
  BY DivisorSound, SliceSound DEF AllSound, spectral_analysis, distribution_stats, AtMost, Invalid
<1>2. AllSound(bit_bias(len))
  BY DivisorSound DEF AllSound, bit_bias, chi_squared_p_value, Invalid
<1>3. AllSound(full_analysis(len))
  BY <1>1, <1>2, AutocorrelationSound, StationaritySound, SoundUnion DEF full_analysis
<1>4. PICK k \in Nat : k = AtMost(len, 2048) /\ k <= len /\ (len >= 2 => k >= 2)
  BY DEF AtMost
<1>5. len >= 2 => AllSound({Slice(0, k, len), Minus(k, 1), Index(k - 1, k), Ratio(k * k)})
  <2>1. PICK x \in Nat : x = k * k /\ (k # 0 => x # 0)
    OBVIOUS
  <2> QED
    BY <1>4, <2>1, DivisorSound, SliceSound, MinusSound, IndexSound DEF AllSound
<1>6. AllSound(anderson_darling(len))
  BY <1>4, <1>5, SoundNone DEF anderson_darling
<1> QED
  BY <1>3, <1>6

LEMMA CorrelationsSound == \A len, other \in Nat : AllSound(cross_correlation_matrix(len, other))
BY DivisorSound, SliceSound
   DEF AllSound, cross_correlation_matrix, pearson_correlation, AtMost, Invalid

---------------------------- (* temporal.rs *) ------------------------------

LEMMA ChangePointSound == \A len, k \in Nat : AllSound(change_point_detection(len, k))
<1> SUFFICES ASSUME NEW len \in Nat, NEW k \in Nat PROVE AllSound(change_point_detection(len, k))
  OBVIOUS
<1>1. CASE k = 0 \/ len < 2 * k
  BY <1>1, SoundNone DEF change_point_detection
<1>2. CASE ~(k = 0 \/ len < 2 * k)
  <2>1. ASSUME NEW at \in {k, len - k}
        PROVE  AllSound({Index(at, len + 1), Slice(0, at, len), Ratio(at), Minus(len, at),
                         Ratio(len - at)})
    BY <1>2, DivisorSound, SliceSound, MinusSound, IndexSound DEF AllSound
  <2>2. AllSound({Ratio(len), Minus(len, k)})
    BY <1>2, DivisorSound, MinusSound DEF AllSound
  <2> QED
    BY <1>2, <2>1, <2>2 DEF AllSound, change_point_detection
<1> QED
  BY <1>1, <1>2

\* Whole windows along a sample.
LEMMA WindowedSound ==
  ASSUME NEW len \in Nat, NEW w \in Nat
  PROVE  AllSound(anomaly_detection(len, w)) /\ AllSound(shift_detection(len, w))
<1>1. CASE w = 0
  BY <1>1, SoundNone DEF anomaly_detection, shift_detection
<1>2. CASE w # 0
  <2>1. w \in Nat \ {0}
    BY <1>2
  <2>2. PICK k \in Nat : k = len \div w /\ (len >= w => k >= 1)
    BY <2>1, Quotient
  <2>3. AllSound(Cuts(Windows(w, k), len))
    BY <2>1, <2>2, WindowsSound
  <2>4. len >= w => AllSound({Over(w), Ratio(k)})
    BY <2>1, <2>2, DivisorSound DEF AllSound
  <2>5. k >= 2 => AllSound({Over(w), Ratio(k), Minus(k, 1), Ratio(k - 1), Index(k - 1, k)})
    BY <2>1, DivisorSound, MinusSound, IndexSound DEF AllSound
  <2>6. AllSound(anomaly_detection(len, w))
    BY <2>2, <2>3, <2>4, SoundUnion, SoundNone DEF anomaly_detection
  <2>7. AllSound(shift_detection(len, w))
    BY <2>2, <2>3, <2>5, SoundUnion, SoundNone DEF shift_detection
  <2> QED
    BY <2>6, <2>7
<1> QED
  BY <1>1, <1>2

LEMMA QuotientGrows ==
  ASSUME NEW x \in Nat, NEW y \in Nat, NEW k \in Nat \ {0}, x <= y
  PROVE  x \div k <= y \div k
<1>1. PICK p \in Nat : p = x \div k /\ p * k <= x
  BY Quotient
<1>2. PICK q \in Nat : q = y \div k /\ y < q * k + k
  BY Quotient
<1>3. CASE q < p
  <2>1. q + 1 \in Nat /\ q + 1 <= p
    BY <1>3
  <2>2. (q + 1) * k <= p * k
    BY <2>1, Product
  <2>3. (q + 1) * k = q * k + k
    OBVIOUS
  <2>4. PICK u \in Nat, v \in Nat : u = q * k /\ v = p * k
    OBVIOUS
  <2> QED
    BY <1>1, <1>2, <2>2, <2>3, <2>4
<1> QED
  BY <1>1, <1>2, <1>3

LEMMA DriftSound == \A len, k \in Nat : AllSound(temporal_drift(len, k))
<1> SUFFICES ASSUME NEW len \in Nat, NEW k \in Nat PROVE AllSound(temporal_drift(len, k))
  OBVIOUS
<1>1. CASE k < 2 \/ len < k
  BY <1>1, SoundNone DEF temporal_drift
<1>2. CASE ~(k < 2 \/ len < k)
  <2>0. k \in Nat \ {0}
    BY <1>2
  <2>1. ASSUME NEW i \in 0 .. k - 1
        PROVE  Sound(Slice((i * len) \div k, ((i + 1) * len) \div k, len))
    <3>1. i \in Nat /\ i + 1 \in Nat /\ i <= i + 1 /\ i + 1 <= k
      BY <2>0
    <3>2. PICK x \in Nat, y \in Nat, z \in Nat :
            x = i * len /\ y = (i + 1) * len /\ z = k * len
      BY <3>1, Product
    <3>3. x <= y /\ y <= z
      BY <3>1, <3>2, Product
    <3>4. x \div k <= y \div k /\ y \div k <= z \div k /\ x \div k \in Nat /\ y \div k \in Nat
      BY <2>0, <3>3, QuotientGrows, Quotient
    <3>5. z \div k = len
      BY <2>0, <3>2
    <3> QED
      BY <3>2, <3>4, <3>5, SliceSound
  <2>2. AllSound(Cuts(drift_segments(len, k), len))
    BY <2>1 DEF AllSound, Cuts, drift_segments
  <2>3. AllSound({Over(k)})
    BY <2>0, DivisorSound DEF AllSound
  <2> QED
    BY <1>2, <2>2, <2>3, SoundUnion DEF temporal_drift
<1> QED
  BY <1>1, <1>2

LEMMA BurstsSound == \A len \in Nat : AllSound(burst_kernel(len))
BY DivisorSound, MinusSound, IndexSound DEF AllSound, burst_kernel, PercentileAt, Invalid

------------------------------ (* chaos.rs *) ------------------------------

LEMMA PercentileSound ==
  ASSUME NEW len \in Nat
  PROVE  AllSound(percentile(len, 2)) /\ AllSound(percentile(len, 98))
BY MinusSound, IndexSound DEF AllSound, percentile, AtMost, Invalid

LEMMA SampleEntropySound == \A len, m \in Nat : AllSound(sample_entropy_kernel(len, m))
<1> SUFFICES ASSUME NEW len \in Nat, NEW m \in Nat PROVE AllSound(sample_entropy_kernel(len, m))
  OBVIOUS
<1>1. PICK k \in Nat : k = Stepped(len, 5000)
  BY SteppedIs
<1>2. CASE m = 0 \/ len <= m + 1 \/ k <= m + 1
  BY <1>1, <1>2, SoundNone DEF sample_entropy_kernel, subsample_to_limit
<1>3. CASE ~(m = 0 \/ len <= m + 1 \/ k <= m + 1)
  <2>1. AllSound({Minus(k, m), Minus(k, m + 1), Index(k - m - 1 + m - 1, k)})
    BY <1>3, MinusSound, IndexSound DEF AllSound
  <2>2. AllSound(LastOf(0, k - m - 1, LAMBDA i : Index(i + m, k)))
    BY <1>3, IndexSound DEF AllSound, LastOf
  <2>3. sample_entropy_kernel(len, m) =
          {Minus(k, m), Minus(k, m + 1), Index(k - m - 1 + m - 1, k)}
            \cup LastOf(0, k - m - 1, LAMBDA i : Index(i + m, k))
    BY <1>1, <1>3 DEF sample_entropy_kernel, subsample_to_limit
  <2> QED
    BY <2>1, <2>2, <2>3, SoundUnion
<1> QED
  BY <1>2, <1>3

LEMMA HurstSound == \A len \in Nat : AllSound(hurst_exponent(len))
<1> SUFFICES ASSUME NEW len \in Nat PROVE AllSound(hurst_exponent(len))
  OBVIOUS
<1>1. PICK top \in Nat : top = len \div 4 /\ top <= len
  BY Quotient
<1>2. PICK step \in Nat \ {0} : step = AtLeast((top - 10) \div 20, 1)
  BY DEF AtLeast
<1>3. CASE len < 100 \/ top <= 10
  BY <1>1, <1>3, SoundNone DEF hurst_exponent
<1>4. CASE ~(len < 100 \/ top <= 10)
  <2>1. AllSound({Minus(top, 10), Over(step)})
    BY <1>4, MinusSound, DivisorSound DEF AllSound
  <2>2. ASSUME NEW w \in 10 .. top - 1
        PROVE  AllSound({Over(w), Minus(len, w), Ratio(w - 1)}
                          \cup Cuts({<<(len \div w - 1) * w, (len \div w) * w>>}, len))
    <3>1. w \in Nat \ {0} /\ w <= len /\ w >= 10
      BY <1>1
    <3>2. PICK q \in Nat : q = len \div w /\ q * w <= len /\ q >= 1
      BY <3>1, Quotient
    <3>3. PICK p \in Nat : p = q - 1 /\ p <= q
      BY <3>2
    <3>4. PICK x \in Nat, y \in Nat : x = p * w /\ y = q * w /\ x <= y
      BY <3>1, <3>3, Product
    <3>5. Sound(Slice((len \div w - 1) * w, (len \div w) * w, len))
      BY <3>2, <3>3, <3>4, SliceSound
    <3>6. AllSound(Cuts({<<(len \div w - 1) * w, (len \div w) * w>>}, len))
      BY <3>5 DEF AllSound, Cuts
    <3>7. AllSound({Over(w), Minus(len, w), Ratio(w - 1)})
      BY <3>1, MinusSound, DivisorSound DEF AllSound
    <3> QED
      BY <3>6, <3>7, SoundUnion
  <2> DEFINE Of(w) == {Over(w), Minus(len, w), Ratio(w - 1)}
                        \cup Cuts({<<(len \div w - 1) * w, (len \div w) * w>>}, len)
  <2>3. \A w \in 10 .. top - 1 : AllSound(Of(w))
    BY <2>2
  <2>4. hurst_exponent(len) = {Minus(top, 10), Over(step)}
                                \cup UNION {Of(w) : w \in {v \in 10 .. top - 1 : (v - 10) % step = 0}}
    BY <1>1, <1>2, <1>4 DEF hurst_exponent
  <2> HIDE DEF Of
  <2> QED
    BY <2>1, <2>3, <2>4 DEF AllSound
<1> QED
  BY <1>3, <1>4

LEMMA RollingHurstSound == \A len, w \in Nat : AllSound(rolling_hurst(len, w, 7))
<1> SUFFICES ASSUME NEW len \in Nat, NEW w \in Nat PROVE AllSound(rolling_hurst(len, w, 7))
  OBVIOUS
<1>1. CASE w = 0 \/ len < w
  BY <1>1, SoundNone DEF rolling_hurst
<1>2. CASE ~(w = 0 \/ len < w)
  <2>1. PICK at \in Nat : at = ((len - w) \div 7) * 7 /\ at + w <= len
    BY <1>2
  <2>2. AllSound(Cuts({<<at, at + w>>}, len))
    BY <2>1, SliceSound DEF AllSound, Cuts
  <2>3. rolling_hurst(len, w, 7) = Cuts({<<at, at + w>>}, len) \cup hurst_exponent(w)
    BY <1>2, <2>1 DEF rolling_hurst
  <2> QED
    BY <2>2, <2>3, HurstSound, SoundUnion
<1> QED
  BY <1>1, <1>2

LEMMA BootstrapSound == \A len \in Nat : AllSound(bootstrap_hurst(len, 100))
<1> SUFFICES ASSUME NEW len \in Nat PROVE AllSound(bootstrap_hurst(len, 100))
  OBVIOUS
<1>1. CASE hurst_exponent(len) = Invalid
  BY <1>1, SoundNone DEF bootstrap_hurst
<1>2. CASE hurst_exponent(len) # Invalid
  <2>1. len >= 100
    BY <1>2 DEF hurst_exponent
  <2>2. AllSound({Over(len), Index(len - 1, len)})
    BY <2>1, DivisorSound, IndexSound DEF AllSound
  <2>3. AllSound(percentile(100, 2)) /\ AllSound(percentile(100, 98))
    BY PercentileSound
  <2>4. bootstrap_hurst(len, 100) =
          {Over(len), Index(len - 1, len)} \cup percentile(100, 2) \cup percentile(100, 98)
    BY <1>2 DEF bootstrap_hurst
  <2>5. AllSound({Over(len), Index(len - 1, len)} \cup percentile(100, 2))
    BY <2>2, <2>3, SoundUnion
  <2> QED
    BY <2>3, <2>4, <2>5, SoundUnion
<1> QED
  BY <1>1, <1>2

LEMMA DfaSound == \A len \in Nat : AllSound(dfa(len, 1))
<1> SUFFICES ASSUME NEW len \in Nat PROVE AllSound(dfa(len, 1))
  OBVIOUS
<1>1. PICK top \in Nat : top = len \div 4
  BY Quotient
<1>2. CASE len < 40 \/ top <= 10
  BY <1>1, <1>2, SoundNone DEF dfa
<1>3. CASE ~(len < 40 \/ top <= 10)
  <2> DEFINE Of(w) == IF len \div w < 2 THEN {}
                      ELSE {Over(w), Ratio(w)} \cup Cuts(Windows(w, len \div w), len)
  <2>1. ASSUME NEW w \in Nat \ {0} PROVE AllSound(Of(w))
    BY WindowsSound, DivisorSound, SoundUnion, SoundNone DEF AllSound
  <2>2. AllSound(Of(10)) /\ AllSound(Of(top))
    <3>1. 10 \in Nat \ {0} /\ top \in Nat \ {0}
      BY <1>3
    <3> QED
      BY <2>1, <3>1
  <2>3. dfa(len, 1) = UNION {Of(w) : w \in {10, top}}
    BY <1>1, <1>3 DEF dfa
  <2> HIDE DEF Of
  <2> QED
    BY <2>2, <2>3 DEF AllSound
<1> QED
  BY <1>2, <1>3

LEMMA DerivativeSound ==
  \A bits \in Nat : AllSound(binary_derivative(bits)) /\ AllSound(shannon_entropy_bits(bits))
BY DivisorSound, MinusSound, IndexSound
   DEF AllSound, binary_derivative, shannon_entropy_bits, Invalid

LEMMA BientropySound == \A len \in Nat : AllSound(bientropy(len))
<1> SUFFICES ASSUME NEW len \in Nat PROVE AllSound(bientropy(len))
  OBVIOUS
<1> DEFINE Derived(bits) ==
             IF bits < 2 THEN {}
             ELSE UNION {binary_derivative(bits - k) \cup shannon_entropy_bits(bits - k) :
                           k \in 0 .. AtMost(20, bits - 1) - 1}
<1>1. ASSUME NEW bits \in Nat PROVE AllSound(Derived(bits))
  <2>1. ASSUME bits >= 2, NEW k \in 0 .. AtMost(20, bits - 1) - 1
        PROVE  AllSound(binary_derivative(bits - k)) /\ AllSound(shannon_entropy_bits(bits - k))
    <3>1. bits - k \in Nat
      BY <2>1 DEF AtMost
    <3> QED
      BY <3>1, DerivativeSound
  <2> QED
    BY <2>1 DEF AllSound
<1>2. PICK chunk \in Nat : chunk = bytes_to_bits(AtMost(len, 32))
  BY DEF bytes_to_bits, AtMost
<1>3. PICK rest \in Nat : rest = bytes_to_bits(len % 32)
  BY DEF bytes_to_bits
<1>4. AllSound(Derived(chunk)) /\ AllSound(Derived(rest))
  BY <1>1
<1>5. AllSound({Chunks(32)})
  BY DivisorSound DEF AllSound
<1>6. bientropy(len) = IF len < 2 THEN Invalid ELSE {Chunks(32)} \cup Derived(chunk) \cup Derived(rest)
  BY <1>2, <1>3 DEF bientropy
<1> HIDE DEF Derived
<1>7. AllSound({Chunks(32)} \cup Derived(chunk) \cup Derived(rest))
  BY <1>4, <1>5, SoundUnion
<1> QED
  BY <1>6, <1>7, SoundNone

LEMMA ShapeSound ==
  ASSUME NEW len \in Nat
  PROVE  /\ AllSound(sample_std_dev(len)) /\ AllSound(shannon_entropy_binary(len))
         /\ AllSound(epiplexity(len))
BY DivisorSound DEF AllSound, sample_std_dev, shannon_entropy_binary, epiplexity, Invalid

\* Vectors of m elements t apart, and how many there are.
LEMMA EmbeddingSound ==
  ASSUME NEW len \in Nat, NEW m \in Nat \ {0}, NEW t \in Nat
  PROVE  /\ AllSound(time_delay_embedding(len, m, t))
         /\ embedded_len(len, m, t) \in Nat /\ embedded_len(len, m, t) <= len
<1>1. PICK p \in Nat : p = m - 1
  OBVIOUS
<1>2. PICK x \in Nat, y \in Nat : x = p * t /\ y = m * t
  BY Product
<1>3. y = x + t
  <2>1. (p + 1) * t = p * t + t
    BY <1>1
  <2>2. m = p + 1
    BY <1>1
  <2> QED
    BY <1>2, <2>1, <2>2
<1>4. CASE len < y
  BY <1>2, <1>4, SoundNone DEF time_delay_embedding, embedded_len
<1>5. CASE ~(len < y)
  <2>1. AllSound({Minus(len, x)})
    BY <1>3, <1>5, MinusSound DEF AllSound
  <2>2. AllSound(LastOf(0, len - x, LAMBDA i : Index(i + x, len)))
    BY <1>3, <1>5, IndexSound DEF AllSound, LastOf
  <2>3. time_delay_embedding(len, m, t) =
          {Minus(len, x)} \cup LastOf(0, len - x, LAMBDA i : Index(i + x, len))
    BY <1>1, <1>2, <1>5 DEF time_delay_embedding
  <2>4. embedded_len(len, m, t) = len - x
    BY <1>1, <1>2, <1>5 DEF embedded_len
  <2>5. embedded_len(len, m, t) \in Nat /\ embedded_len(len, m, t) <= len
    BY <1>3, <1>5, <2>4
  <2> QED
    BY <2>1, <2>2, <2>3, <2>5, SoundUnion
<1> QED
  BY <1>4, <1>5

LEMMA LyapunovSound == \A len \in Nat : AllSound(lyapunov_exponent(len))
<1> SUFFICES ASSUME NEW len \in Nat PROVE AllSound(lyapunov_exponent(len))
  OBVIOUS
<1>1. CASE len < 500
  BY <1>1, SoundNone DEF lyapunov_exponent
<1>2. CASE ~(len < 500)
  <2>1. PICK k \in Nat : k = Stepped(len, 5000)
    BY SteppedIs
  <2>2. AllSound(time_delay_embedding(k, 3, 1)) /\ embedded_len(k, 3, 1) \in Nat
    <3>1. 3 \in Nat \ {0} /\ 1 \in Nat
      OBVIOUS
    <3> QED
      BY <3>1, EmbeddingSound
  <2>3. PICK e \in Nat : e = embedded_len(k, 3, 1)
    BY <2>2
  <2>4. e >= 100 => AllSound({Index((AtMost(e, 200) - 1) * AtLeast(e \div 200, 1), e)})
    <3>1. CASE e <= 200
      <4>1. e < 200 => e \div 200 = 0
        OBVIOUS
      <4>2. e = 200 => e \div 200 = 1
        OBVIOUS
      <4>3. AtLeast(e \div 200, 1) = 1 /\ AtMost(e, 200) = e
        BY <3>1, <4>1, <4>2 DEF AtLeast, AtMost
      <4> QED
        BY <4>3, IndexSound DEF AllSound
    <3>2. CASE ~(e <= 200)
      <4>1. PICK q \in Nat : q = e \div 200 /\ q * 200 <= e /\ q >= 1
        BY <3>2, Quotient
      <4>2. AtLeast(e \div 200, 1) = q /\ AtMost(e, 200) = 200
        BY <3>2, <4>1 DEF AtLeast, AtMost
      <4> QED
        BY <4>1, <4>2, IndexSound DEF AllSound
    <3> QED
      BY <3>1, <3>2
  <2> QED
    BY <1>2, <2>1, <2>2, <2>3, <2>4, SoundUnion, SoundNone DEF lyapunov_exponent
<1> QED
  BY <1>1, <1>2

LEMMA CorrelationDimensionSound == \A len \in Nat : AllSound(correlation_dimension(len))
<1> SUFFICES ASSUME NEW len \in Nat PROVE AllSound(correlation_dimension(len))
  OBVIOUS
<1>1. PICK k \in Nat : k = Stepped(len, 500)
  BY SteppedIs
<1> DEFINE Points(m) == embedded_len(k, m, 1)
           Pairs(m)  == (Points(m) * (Points(m) - 1)) \div 2
           Read(m)   == IF Points(m) < 10 \/ Pairs(m) < 100 THEN {}
                        ELSE {Index(Pairs(m) \div 100, Pairs(m)), Index(Pairs(m) \div 2, Pairs(m)),
                              Ratio(Pairs(m))}
<1>2. ASSUME NEW m \in 2 .. 8
      PROVE  AllSound(time_delay_embedding(k, m, 1)) /\ AllSound(Read(m))
  <2>1. m \in Nat \ {0} /\ 1 \in Nat
    OBVIOUS
  <2>2. AllSound(time_delay_embedding(k, m, 1)) /\ Points(m) \in Nat
    BY <2>1, EmbeddingSound
  <2>3. PICK x \in Int : x = Points(m) * (Points(m) - 1)
    BY <2>2
  <2>4. PICK z \in Int : z = Pairs(m)
    BY <2>3
  <2>5. z >= 100 => AllSound({Index(z \div 100, z), Index(z \div 2, z), Ratio(z)})
    BY DivisorSound, IndexSound DEF AllSound
  <2>6. Points(m) < 10 \/ z < 100 \/ z >= 100
    BY <2>4
  <2> HIDE DEF Points, Pairs
  <2> QED
    BY <2>2, <2>4, <2>5, SoundNone
<1>3. correlation_dimension(len) =
        IF len < 1000 THEN Invalid
        ELSE UNION {time_delay_embedding(k, m, 1) \cup Read(m) : m \in 2 .. 8}
  BY <1>1 DEF correlation_dimension
<1> HIDE DEF Read
<1>4. AllSound(UNION {time_delay_embedding(k, m, 1) \cup Read(m) : m \in 2 .. 8})
  BY <1>2 DEF AllSound
<1> QED
  BY <1>3, <1>4, SoundNone

LEMMA RecurrenceSound == \A len, t \in Nat : AllSound(rqa_kernel(len, 2, t))
<1> SUFFICES ASSUME NEW len \in Nat, NEW t \in Nat PROVE AllSound(rqa_kernel(len, 2, t))
  OBVIOUS
<1>1. 2 \in Nat \ {0}
  OBVIOUS
<1>2. AllSound(time_delay_embedding(len, 2, t))
  BY <1>1, EmbeddingSound
<1>3. PICK e \in Nat : e = embedded_len(len, 2, t)
  BY <1>1, EmbeddingSound
<1>4. PICK k \in Nat : k = Stepped(e, 1000) /\ (e >= 2 => k >= 2)
  BY SteppedIs
<1>5. k >= 2 => AllSound({Over(1000), Index(k - 1, k), Index(k, k + 1), Ratio(k * (k - 1))})
  <2>1. PICK x \in Int : x = k * (k - 1) /\ (k >= 2 => x # 0)
    OBVIOUS
  <2> QED
    BY <2>1, DivisorSound, IndexSound DEF AllSound
<1> DEFINE Read == IF e < 2 THEN {}
                   ELSE {Over(1000), Index(k - 1, k), Index(k, k + 1), Ratio(k * (k - 1))}
<1>6. AllSound(Read)
  BY <1>4, <1>5, SoundNone
<1>7. rqa_kernel(len, 2, t) =
        IF len = 0 \/ t = 0 THEN Invalid ELSE time_delay_embedding(len, 2, t) \cup Read
  BY <1>3, <1>4 DEF rqa_kernel
<1> HIDE DEF Read
<1> QED
  BY <1>2, <1>6, <1>7, SoundUnion, SoundNone

------------------------ (* the battery: Nist.tla *) ------------------------

\* The battery reads with the operations of the other modules.
LEMMA BatteryOperations ==
  /\ \A i, k : Battery!Index(i, k) = Index(i, k)
  /\ \A i, j, k : Battery!Slice(i, j, k) = Slice(i, j, k)
  /\ \A x, y : Battery!Minus(x, y) = Minus(x, y)
  /\ \A d : Battery!Ratio(d) = Ratio(d) /\ Battery!Over(d) = Over(d)
  /\ \A w, k, len : Battery!Cuts(Battery!Windows(w, k), len) = Cuts(Windows(w, k), len)
  /\ \A df : Battery!chi_squared_survival(df) = chi_squared_survival(df)
  /\ \A x, y : Battery!AtMost(x, y) = AtMost(x, y) /\ Battery!CeilDiv(x, y) = CeilDiv(x, y)
  /\ Battery!Invalid = Invalid
BY DEF Battery!Index, Index, Battery!Slice, Slice, Battery!Minus, Minus, Battery!Ratio, Ratio,
       Battery!Over, Over, Battery!Cuts, Cuts, Battery!Windows, Windows, Battery!AtMost, AtMost,
       Battery!CeilDiv, CeilDiv, Battery!Invalid, Invalid,
       Battery!chi_squared_survival, chi_squared_survival

\* The tests that divide by a length that they have found to be long enough.
LEMMA DividingTestsSound ==
  ASSUME NEW len \in Nat
  PROVE  /\ AllSound(Battery!monobit_frequency(len)) /\ AllSound(Battery!runs_test(len))
         /\ AllSound(Battery!shannon_entropy(len)) /\ AllSound(Battery!min_entropy(len))
         /\ AllSound(Battery!compression_ratio(len)) /\ AllSound(Battery!kolmogorov_complexity(len))
         /\ AllSound(Battery!ks_test(len)) /\ AllSound(Battery!cusum_test(len))
         /\ AllSound(Battery!random_excursions(len))
<1>1. AllSound(Battery!monobit_frequency(len)) /\ AllSound(Battery!runs_test(len))
  BY BatteryOperations, DivisorSound, IndexSound
     DEF AllSound, Invalid, Battery!monobit_frequency, Battery!runs_test
<1>2. /\ AllSound(Battery!shannon_entropy(len)) /\ AllSound(Battery!min_entropy(len))
      /\ AllSound(Battery!compression_ratio(len)) /\ AllSound(Battery!kolmogorov_complexity(len))
  BY BatteryOperations, DivisorSound
     DEF AllSound, Invalid, Battery!shannon_entropy, Battery!min_entropy,
         Battery!compression_ratio, Battery!kolmogorov_complexity
<1>3. /\ AllSound(Battery!ks_test(len)) /\ AllSound(Battery!cusum_test(len))
      /\ AllSound(Battery!random_excursions(len))
  BY BatteryOperations, DivisorSound
     DEF AllSound, Invalid, Battery!ks_test, Battery!cusum_test, Battery!random_excursions
<1> QED
  BY <1>1, <1>2, <1>3

\* The tests that cut the bits of the sample into blocks.
LEMMA BlockTestsSound ==
  ASSUME NEW len \in Nat
  PROVE  /\ AllSound(Battery!block_frequency(len)) /\ AllSound(Battery!longest_run_of_ones(len))
         /\ AllSound(Battery!binary_matrix_rank(len)) /\ AllSound(Battery!linear_complexity(len))
<1>1. PICK bits \in Nat : bits = 8 * len
  OBVIOUS
<1>2. ASSUME NEW w \in Nat \ {0} PROVE AllSound(Cuts(Windows(w, bits \div w), bits))
  BY WindowsSound
<1>3. AllSound(Battery!block_frequency(len))
  <2>1. AllSound(Cuts(Windows(128, bits \div 128), bits))
    BY <1>2
  <2>2. AllSound(chi_squared_survival(bits \div 128))
    BY ChiSquaredSound
  <2> QED
    BY <1>1, <2>1, <2>2, BatteryOperations, SoundUnion, SoundNone DEF Battery!block_frequency
<1>4. AllSound(Battery!longest_run_of_ones(len))
  <2>1. bits \div 8 = len
    BY <1>1
  <2>2. AllSound(Cuts(Windows(8, bits \div 8), bits))
    BY <1>2
  <2>3. bits >= 128 => AllSound({Ratio(len)})
    BY <1>1, DivisorSound DEF AllSound
  <2> QED
    BY <1>1, <2>1, <2>2, <2>3, BatteryOperations, SoundUnion, SoundNone
       DEF Battery!longest_run_of_ones
<1>5. AllSound(Battery!binary_matrix_rank(len))
  <2>1. AllSound(Cuts(Windows(1024, bits \div 1024), bits))
    BY <1>2
  <2>2. AllSound({Slice(31 * 32, 32 * 32, 1024)})
    BY SliceSound DEF AllSound
  <2> QED
    BY <1>1, <2>1, <2>2, BatteryOperations, SoundUnion, SoundNone DEF Battery!binary_matrix_rank
<1>6. AllSound(Battery!linear_complexity(len))
  <2>1. AllSound(Cuts(Windows(200, bits \div 200), bits))
    BY <1>2
  <2>2. bits \div 200 >= 6 => AllSound({Ratio(bits \div 200), Index(0, 200)})
    BY DivisorSound, IndexSound DEF AllSound
  <2> QED
    BY <1>1, <2>1, <2>2, BatteryOperations, SoundUnion, SoundNone DEF Battery!linear_complexity
<1> QED
  BY <1>3, <1>4, <1>5, <1>6

\* The tests of the spectrum, of patterns and of the places of bytes.
LEMMA PlacedTestsSound ==
  ASSUME NEW len \in Nat
  PROVE  /\ AllSound(Battery!byte_frequency(len)) /\ AllSound(Battery!mean_variance(len))
         /\ AllSound(Battery!serial_test(len)) /\ AllSound(Battery!approximate_entropy(len))
         /\ AllSound(Battery!dft_spectral(len)) /\ AllSound(Battery!spectral_flatness(len))
         /\ AllSound(Battery!permutation_entropy(len)) /\ AllSound(Battery!cross_correlation(len))
         /\ AllSound(Battery!anderson_darling(len)) /\ AllSound(Battery!overlapping_template(len))
         /\ AllSound(Battery!non_overlapping_template(len)) /\ AllSound(Battery!bit_avalanche(len))
         /\ AllSound(Battery!maurers_universal(len)) /\ AllSound(Battery!birthday_spacing(len))
         /\ AllSound(Battery!monte_carlo_pi(len))
<1>1. AllSound(Battery!byte_frequency(len)) /\ AllSound(Battery!mean_variance(len))
  BY BatteryOperations, DivisorSound, ChiSquaredSound
     DEF AllSound, Invalid, Battery!byte_frequency, Battery!mean_variance
<1>2. AllSound(Battery!serial_test(len)) /\ AllSound(Battery!approximate_entropy(len))
  BY BatteryOperations, DivisorSound
     DEF AllSound, Invalid, AtMost, Battery!serial_test, Battery!approximate_entropy,
         Battery!Truncated
<1>3. AllSound(Battery!dft_spectral(len)) /\ AllSound(Battery!spectral_flatness(len))
  BY BatteryOperations, DivisorSound, SliceSound
     DEF AllSound, Invalid, Battery!dft_spectral, Battery!spectral_flatness
<1>4. AllSound(Battery!permutation_entropy(len))
  BY BatteryOperations, DivisorSound, SliceSound, MinusSound
     DEF AllSound, Invalid, Battery!permutation_entropy, Battery!LastOf
<1>5. AllSound(Battery!cross_correlation(len))
  BY BatteryOperations, DivisorSound, SliceSound, MinusSound
     DEF AllSound, Invalid, Battery!cross_correlation, CeilDiv
<1>6. AllSound(Battery!anderson_darling(len))
  BY BatteryOperations, DivisorSound, MinusSound DEF AllSound, Invalid, Battery!anderson_darling
<1>7. /\ AllSound(Battery!overlapping_template(len))
      /\ AllSound(Battery!non_overlapping_template(len))
  BY BatteryOperations, SliceSound, MinusSound
     DEF AllSound, Invalid, Battery!overlapping_template, Battery!non_overlapping_template
<1>8. AllSound(Battery!bit_avalanche(len)) /\ AllSound(Battery!monte_carlo_pi(len))
  BY BatteryOperations, DivisorSound, IndexSound, MinusSound
     DEF AllSound, Invalid, Battery!bit_avalanche, Battery!monte_carlo_pi
<1>9. AllSound(Battery!maurers_universal(len))
  BY BatteryOperations, DivisorSound, IndexSound, MinusSound
     DEF AllSound, Invalid, Battery!maurers_universal
<1>10. AllSound(Battery!birthday_spacing(len))
  BY BatteryOperations, IndexSound DEF AllSound, Invalid, Battery!birthday_spacing
<1> QED
  BY <1>1, <1>2, <1>3, <1>4, <1>5, <1>6, <1>7, <1>8, <1>9, <1>10

\* The tests that compare elements some lags apart.
LEMMA LaggedTestsSound ==
  ASSUME NEW len \in Nat
  PROVE  /\ AllSound(Battery!autocorrelation(len)) /\ AllSound(Battery!serial_correlation(len))
         /\ AllSound(Battery!lag_n_correlation(len))
<1>1. ASSUME NEW lag \in Nat, lag < len PROVE AllSound(Battery!Lagged(len, lag))
  BY <1>1, BatteryOperations, DivisorSound, MinusSound, IndexSound
     DEF AllSound, Battery!Lagged, Battery!LastOf
<1>2. len >= 1 => AllSound({Battery!Ratio(len)})
  BY BatteryOperations, DivisorSound DEF AllSound
<1>3. AllSound(Battery!autocorrelation(len))
  <2>1. len >= 60 =>
          \A lag \in 1 .. Battery!AtMost(50, len - 1) : AllSound(Battery!Lagged(len, lag))
    BY <1>1, BatteryOperations DEF AtMost
  <2> QED
    BY <1>2, <2>1 DEF AllSound, Battery!autocorrelation, Battery!Invalid
<1>4. AllSound(Battery!serial_correlation(len))
  BY <1>1, <1>2 DEF AllSound, Battery!serial_correlation, Battery!Invalid
<1>5. AllSound(Battery!lag_n_correlation(len))
  BY <1>1, <1>2 DEF AllSound, Battery!lag_n_correlation, Battery!Invalid
<1> QED
  BY <1>3, <1>4, <1>5

LEMMA BatterySound == \A len \in Nat : AllSound(Battery!run_all_tests(len))
BY DividingTestsSound, BlockTestsSound, PlacedTestsSound, LaggedTestsSound
   DEF AllSound, Battery!run_all_tests

------------------------------- (* NoPanic *) -------------------------------

\* Whatever the length of a sample, the parameter (a lag, a window, a number of
\* segments) and the length of the other sample, each function of analysis.rs,
\* statistics.rs, comparison.rs, chaos.rs, temporal.rs, synchrony.rs, trials.rs,
\* of the estimators of conditioning.rs and of the battery indexes and cuts
\* inside of its samples, divides by no zero and takes no length from a smaller
\* one.
THEOREM EveryLengthSound ==
  ASSUME NEW len \in Nat, NEW k \in Nat
  PROVE  AllSound(OfOne(len)) /\ AllSound(OfOneWith(len, k)) /\ AllSound(OfTwo(len, k))
<1>1. AllSound(OfOne(len))
  <2>1. AllSound(full_analysis(len) \cup anderson_darling(len))
    BY AnalysisSound, SoundUnion
  <2>2. AllSound(Battery!run_all_tests(len))
    BY BatterySound
  <2>3. AllSound(min_entropy_estimate(len) \cup quick_quality(len) \cup min_entropy(len)
                   \cup quick_autocorrelation_lag1(len))
    BY EstimatorsSound DEF AllSound
  <2>4. AllSound(approximate_entropy_default(len) \cup cramer_von_mises(len) \cup power_analysis(len)
                   \cup trial_analysis(len, 200))
    <3>1. AllSound(trial_analysis(len, 200))
      BY TrialsSound
    <3> QED
      BY <3>1, ApproximateEntropySound, StatisticsSound DEF AllSound
  <2>5. AllSound(burst_kernel(len) \cup temporal_analysis(len) \cup digram_chi2(len))
    BY BurstsSound, TemporalAnalysisSound, DigramSound DEF AllSound
  <2>6. AllSound(bientropy(len) \cup hurst_exponent(len) \cup dfa(len, 1) \cup bootstrap_hurst(len, 100))
    BY BientropySound, HurstSound, DfaSound, BootstrapSound DEF AllSound
  <2>7. AllSound(epiplexity(len) \cup shannon_entropy_binary(len) \cup sample_std_dev(len))
    BY ShapeSound DEF AllSound
  <2>8. AllSound(lyapunov_exponent(len) \cup correlation_dimension(len))
    BY LyapunovSound, CorrelationDimensionSound, SoundUnion
  <2> QED
    BY <2>1, <2>2, <2>3, <2>4, <2>5, <2>6, <2>7, <2>8 DEF AllSound, OfOne
<1>2. AllSound(OfOneWith(len, k))
  <2>1. AllSound(ljung_box(len, k) \cup gap_test(len, AtMost(k, len), 0, 255))
    <3>1. AtMost(k, len) \in Nat
      BY DEF AtMost
    <3>2. AllSound(gap_test(len, AtMost(k, len), 0, 255))
      BY <3>1, GapTestSound
    <3> QED
      BY <3>2, LjungBoxSound, SoundUnion
  <2>2. AllSound(shift_detection(len, k) \cup anomaly_detection(len, k) \cup windowed_scan(len, k))
    BY WindowedSound, WindowedScanSound DEF AllSound
  <2>3. AllSound(change_point_detection(len, k) \cup temporal_drift(len, k)
                   \cup autocorrelation_profile(len, k))
    BY ChangePointSound, DriftSound, AutocorrelationSound DEF AllSound
  <2>4. AllSound(rolling_hurst(len, AtMost(k, 400), 7))
    <3>1. AtMost(k, 400) \in Nat
      BY DEF AtMost
    <3> QED
      BY <3>1, RollingHurstSound
  <2>5. AllSound(sample_entropy_kernel(len, k) \cup rqa_kernel(len, 2, k) \cup percentile(k, 98))
    BY SampleEntropySound, RecurrenceSound, PercentileSound DEF AllSound
  <2>6. AllSound(permutation_kernel(len, 3, k) \cup approximate_entropy(len, k))
    BY PermutationSound, ApproximateEntropySound, SoundUnion
  <2>7. AllSound(subsample(len, AtLeast(k, 1)))
    <3>1. AtLeast(k, 1) \in Nat \ {0}
      BY DEF AtLeast
    <3> QED
      BY <3>1, SubsampleSound
  <2> QED
    BY <2>1, <2>2, <2>3, <2>4, <2>5, <2>6, <2>7 DEF AllSound, OfOneWith
<1>3. AllSound(OfTwo(len, k))
  <2>1. AllSound(two_sample_ks(len, k) \cup chi2_homogeneity(len, k, AtMost(k, 256))
                   \cup cliffs_delta(len, k) \cup mann_whitney_u_test(len, k))
    <3>1. AtMost(k, 256) \in Nat
      BY DEF AtMost
    <3> QED
      BY <3>1, PairsSound DEF AllSound
  <2>2. AllSound(cross_correlation_matrix(len, k) \cup mutual_information(len, k)
                   \cup phase_coherence(len, k))
    BY CorrelationsSound, SynchronySound DEF AllSound
  <2>3. AllSound(cross_sync(len, k) \cup global_event_detection(<<len, k, len>>))
    BY CrossSyncSound, GlobalEventsSound, SoundUnion
  <2> QED
    BY <2>1, <2>2, <2>3 DEF AllSound, OfTwo
<1> QED
  BY <1>1, <1>2, <1>3

\* So it is for the samples that a program reads one after the other.
THEOREM NeverPanics == AnySamples => []NoPanic
<1>1. n \in Nat => NoPanic
  <2> SUFFICES ASSUME n \in Nat PROVE NoPanic
    OBVIOUS
  <2>1. n \div 2 \in Nat /\ n + 1 \in Nat
    OBVIOUS
  <2>2. \A k \in Nat : AllSound(OfOne(n)) /\ AllSound(OfOneWith(n, k)) /\ AllSound(OfTwo(n, k))
    BY EveryLengthSound
  <2> QED
    BY <2>1, <2>2 DEF NoPanic
<1>2. n \in Nat /\ [n' \in Nat]_n => (n \in Nat)'
  OBVIOUS
<1> QED
  BY <1>1, <1>2, PTL DEF AnySamples

------------------------- (* segments of a drift *) -------------------------

LEMMA QuotientBelow ==
  ASSUME NEW x \in Nat, NEW y \in Nat, NEW k \in Nat \ {0}
  PROVE  x < y * k <=> x \div k < y
<1>1. PICK q \in Nat : q = x \div k /\ q * k <= x /\ x < q * k + k
  BY Quotient
<1>2. PICK u \in Nat, v \in Nat : u = q * k /\ v = y * k
  OBVIOUS
<1>3. CASE q < y
  <2>1. q + 1 \in Nat /\ q + 1 <= y
    BY <1>3
  <2>2. (q + 1) * k <= y * k
    BY <2>1, Product
  <2>3. (q + 1) * k = q * k + k
    OBVIOUS
  <2> QED
    BY <1>1, <1>2, <1>3, <2>2, <2>3
<1>4. CASE y <= q
  <2>1. y * k <= q * k
    BY <1>4, Product
  <2> QED
    BY <1>1, <1>2, <1>4, <2>1
<1> QED
  BY <1>3, <1>4

\* Where segment i starts, and the one before it ends.
Cut(len, k, i) == (i * len) \div k

LEMMA CutsGrow ==
  ASSUME NEW len \in Nat, NEW k \in Nat \ {0}, NEW i \in Nat
  PROVE  /\ Cut(len, k, i) \in Nat
         /\ \A j \in Nat : i <= j => Cut(len, k, i) <= Cut(len, k, j)
         /\ k <= len => Cut(len, k, i) < Cut(len, k, i + 1)
<1>1. PICK x \in Nat : x = i * len
  OBVIOUS
<1>2. Cut(len, k, i) \in Nat
  BY <1>1, Quotient DEF Cut
<1>3. ASSUME NEW j \in Nat, i <= j PROVE Cut(len, k, i) <= Cut(len, k, j)
  <2>1. PICK y \in Nat : y = j * len /\ x <= y
    BY <1>1, <1>3, Product
  <2> QED
    BY <1>1, <2>1, QuotientGrows DEF Cut
<1>4. ASSUME k <= len PROVE Cut(len, k, i) < Cut(len, k, i + 1)
  <2>1. (i + 1) * len = x + len
    <3>1. (i + 1) * len = i * len + len
      OBVIOUS
    <3> QED
      BY <1>1, <3>1
  <2>2. PICK q \in Nat : q = x \div k /\ q * k <= x
    BY Quotient
  <2>3. PICK u \in Nat : u = q * k
    OBVIOUS
  <2>4. (q + 1) * k = q * k + k
    OBVIOUS
  <2>5. ~(x + len < (q + 1) * k)
    BY <1>4, <2>2, <2>3, <2>4
  <2>6. x + len \in Nat /\ q + 1 \in Nat
    OBVIOUS
  <2>7. ~((x + len) \div k < q + 1)
    BY <2>5, <2>6, QuotientBelow
  <2>8. PICK r \in Nat : r = (x + len) \div k
    BY <2>6, Quotient
  <2> QED
    BY <1>1, <2>1, <2>2, <2>7, <2>8 DEF Cut
<1> QED
  BY <1>2, <1>3, <1>4

\* The segments into which temporal_drift cuts a sample that it does not refuse
\* are none of them empty, and every byte is in exactly one, whatever the length
\* and the number of segments: rounding i * n / n_segments loses none.
THEOREM SegmentsPartition ==
  ASSUME NEW len \in Nat, NEW k \in Nat \ {0}, k <= len
  PROVE  /\ \A p \in drift_segments(len, k) : p[1] < p[2]
         /\ \A b \in 0 .. len - 1 :
              \E p \in drift_segments(len, k) :
                /\ p[1] <= b /\ b < p[2]
                /\ \A q \in drift_segments(len, k) : q[1] <= b /\ b < q[2] => q = p
<1>0. \A i, j \in Nat : i <= j => Cut(len, k, i) <= Cut(len, k, j)
  BY CutsGrow
<1>1. drift_segments(len, k) = {<<Cut(len, k, i), Cut(len, k, i + 1)>> : i \in 0 .. k - 1}
  BY DEF drift_segments, Cut
<1>2. ASSUME NEW p \in drift_segments(len, k) PROVE p[1] < p[2]
  <2>1. PICK i \in 0 .. k - 1 : p = <<Cut(len, k, i), Cut(len, k, i + 1)>>
    BY <1>1
  <2> QED
    BY <2>1, CutsGrow
<1>3. ASSUME NEW b \in 0 .. len - 1
      PROVE  \E p \in drift_segments(len, k) :
                /\ p[1] <= b /\ b < p[2]
                /\ \A q \in drift_segments(len, k) : q[1] <= b /\ b < q[2] => q = p
  <2>1. PICK c \in Nat \ {0} : c = (b + 1) * k /\ c <= len * k
    <3>1. b + 1 \in Nat \ {0} /\ b + 1 <= len
      OBVIOUS
    <3>2. (b + 1) * k \in Nat \ {0}
      BY <3>1, NatProduct
    <3> QED
      BY <3>1, <3>2, Product
  <2>2. len \in Nat \ {0} /\ c - 1 \in Nat
    OBVIOUS
  <2>3. PICK i \in Nat : i = (c - 1) \div len /\ i * len <= c - 1 /\ c - 1 < i * len + len
    BY <2>2, Quotient
  <2>4. PICK x \in Nat : x = i * len
    OBVIOUS
  <2>5. (i + 1) * len = x + len
    <3>1. (i + 1) * len = i * len + len
      OBVIOUS
    <3> QED
      BY <2>4, <3>1
  <2>6. i < k
    <3>1. len * k = k * len
      OBVIOUS
    <3>2. c - 1 < k * len
      BY <2>1, <2>2, <3>1
    <3> QED
      BY <2>2, <2>3, <3>2, QuotientBelow
  <2>7. Cut(len, k, i) <= b
    <3>1. x < (b + 1) * k /\ b + 1 \in Nat
      BY <2>1, <2>3, <2>4
    <3>2. x \div k < b + 1 /\ x \div k \in Nat
      BY <3>1, QuotientBelow, Quotient
    <3> QED
      BY <2>4, <3>2 DEF Cut
  <2>8. b < Cut(len, k, i + 1)
    <3>1. ~(x + len < (b + 1) * k) /\ b + 1 \in Nat /\ x + len \in Nat
      BY <2>1, <2>3, <2>4
    <3>2. ~((x + len) \div k < b + 1) /\ (x + len) \div k \in Nat
      BY <3>1, QuotientBelow, Quotient
    <3> QED
      BY <2>5, <3>2 DEF Cut
  <2>9. ASSUME NEW q \in drift_segments(len, k), q[1] <= b, b < q[2]
        PROVE  q = <<Cut(len, k, i), Cut(len, k, i + 1)>>
    <3>1. PICK j \in 0 .. k - 1 : q = <<Cut(len, k, j), Cut(len, k, j + 1)>>
      BY <1>1
    <3>2. j \in Nat /\ j + 1 \in Nat /\ i + 1 \in Nat
      OBVIOUS
    <3>3. /\ Cut(len, k, i) \in Nat /\ Cut(len, k, i + 1) \in Nat
          /\ Cut(len, k, j) \in Nat /\ Cut(len, k, j + 1) \in Nat
      BY <3>2, CutsGrow
    <3>4. ~(j < i)
      <4>1. j < i => Cut(len, k, j + 1) <= Cut(len, k, i)
        BY <1>0, <3>2
      <4> QED
        BY <2>7, <2>9, <3>1, <3>3, <4>1
    <3>5. ~(i < j)
      <4>1. i < j => Cut(len, k, i + 1) <= Cut(len, k, j)
        BY <1>0, <3>2
      <4> QED
        BY <2>8, <2>9, <3>1, <3>3, <4>1
    <3>6. i = j
      BY <3>2, <3>4, <3>5
    <3> QED
      BY <3>1, <3>6
  <2>10. <<Cut(len, k, i), Cut(len, k, i + 1)>> \in drift_segments(len, k)
    BY <1>1, <2>6
  <2> QED
    BY <2>7, <2>8, <2>9, <2>10
<1> QED
  BY <1>2, <1>3

---------------------------- (* verdicts, scores *) ----------------------------

\* w is no worse a verdict than v; and y is no farther from z than x, on its side.
NoWorse(v, w) ==
  LET Rank == [FAIL |-> 0, WARN |-> 1, PASS |-> 2] IN Rank[v] <= Rank[w]
Nearer(x, y, z) == (x <= y /\ y <= z) \/ (z <= y /\ y <= x)

\* Nor does the verdict on runs, when their longest gets shorter and their
\* number comes nearer to what is expected.
LEMMA RunsInOrder ==
  ASSUME NEW x \in [longest : Nat, expected_longest : Nat, total : Nat, expected : Nat],
         NEW y \in [longest : Nat, expected_longest : Nat, total : Nat, expected : Nat],
         y.expected_longest = x.expected_longest, y.expected = x.expected,
         y.longest <= x.longest,
         Abs(1000 * y.total - y.expected) <= Abs(1000 * x.total - x.expected)
  PROVE  NoWorse(verdict_runs(x), verdict_runs(y))
BY DEF NoWorse, Forensic, verdict_runs, Abs

\* For all values, no verdict gets worse when its statistic moves towards what
\* it is in random data: no pair of thresholds in verdict.rs is the wrong way
\* round or overlaps, which a test of a few values would not show.
THEOREM VerdictsInOrder ==
  ASSUME NEW x \in Int, NEW y \in Int
  PROVE  /\ Nearer(x, y, 0) =>
              /\ NoWorse(verdict_autocorr(x), verdict_autocorr(y))
              /\ \A s \in BOOLEAN : NoWorse(verdict_bias(x, s), verdict_bias(y, s))
              /\ \A s \in BOOLEAN : NoWorse(verdict_stationarity(x, s), verdict_stationarity(y, s))
              /\ NoWorse(verdict_lyapunov(x), verdict_lyapunov(y))
              /\ NoWorse(verdict_rqa_det(x), verdict_rqa_det(y))
         /\ Nearer(x, y, 500) =>
              /\ NoWorse(verdict_hurst(x), verdict_hurst(y))
              /\ NoWorse(verdict_dfa(x), verdict_dfa(y))
         /\ x <= y =>
              /\ NoWorse(verdict_spectral(x), verdict_spectral(y))
              /\ NoWorse(verdict_distribution(x), verdict_distribution(y))
              /\ NoWorse(verdict_corrdim(x), verdict_corrdim(y))
              /\ NoWorse(verdict_bientropy(x), verdict_bientropy(y))
              /\ NoWorse(verdict_compression(x), verdict_compression(y))
              /\ NoWorse(verdict_sampen(x), verdict_sampen(y))
              /\ NoWorse(verdict_apen(x), verdict_apen(y))
              /\ NoWorse(verdict_permen(x), verdict_permen(y))
              /\ NoWorse(verdict_anderson_darling(x), verdict_anderson_darling(y))
              /\ NoWorse(verdict_ljung_box(x), verdict_ljung_box(y))
              /\ NoWorse(verdict_cramer_von_mises(x), verdict_cramer_von_mises(y))
<1>0. Finite(x) /\ Finite(y)
  BY NaNAssumption DEF Finite
<1>1. ASSUME Nearer(x, y, 0)
      PROVE  /\ NoWorse(verdict_autocorr(x), verdict_autocorr(y))
             /\ \A s \in BOOLEAN : NoWorse(verdict_bias(x, s), verdict_bias(y, s))
             /\ \A s \in BOOLEAN : NoWorse(verdict_stationarity(x, s), verdict_stationarity(y, s))
  BY <1>0, <1>1 DEF NoWorse, Forensic, verdict_autocorr, verdict_bias, verdict_stationarity,
                    Exceeds, Nearer
<1>2. ASSUME Nearer(x, y, 0)
      PROVE  /\ NoWorse(verdict_lyapunov(x), verdict_lyapunov(y))
             /\ NoWorse(verdict_rqa_det(x), verdict_rqa_det(y))
  BY <1>0, <1>2 DEF NoWorse, Judged, verdict_lyapunov, verdict_rqa_det, Abs, Nearer
<1>3. ASSUME Nearer(x, y, 500)
      PROVE  /\ NoWorse(verdict_hurst(x), verdict_hurst(y))
             /\ NoWorse(verdict_dfa(x), verdict_dfa(y))
  BY <1>0, <1>3 DEF NoWorse, Judged, verdict_hurst, verdict_dfa, Within, Nearer
<1>4. ASSUME x <= y
      PROVE  /\ NoWorse(verdict_spectral(x), verdict_spectral(y))
             /\ NoWorse(verdict_distribution(x), verdict_distribution(y))
  BY <1>0, <1>4 DEF NoWorse, Forensic, verdict_spectral, verdict_distribution, FallsBelow
<1>5. ASSUME x <= y
      PROVE  /\ NoWorse(verdict_corrdim(x), verdict_corrdim(y))
             /\ NoWorse(verdict_bientropy(x), verdict_bientropy(y))
             /\ NoWorse(verdict_compression(x), verdict_compression(y))
             /\ NoWorse(verdict_sampen(x), verdict_sampen(y))
  BY <1>0, <1>5 DEF NoWorse, Judged, verdict_corrdim, verdict_bientropy, verdict_compression,
                    verdict_sampen
<1>6. ASSUME x <= y
      PROVE  /\ NoWorse(verdict_apen(x), verdict_apen(y))
             /\ NoWorse(verdict_permen(x), verdict_permen(y))
             /\ NoWorse(verdict_anderson_darling(x), verdict_anderson_darling(y))
             /\ NoWorse(verdict_ljung_box(x), verdict_ljung_box(y))
             /\ NoWorse(verdict_cramer_von_mises(x), verdict_cramer_von_mises(y))
  BY <1>0, <1>6 DEF NoWorse, Judged, verdict_apen, verdict_permen, verdict_anderson_darling,
                    verdict_ljung_box, verdict_cramer_von_mises
<1> QED
  BY <1>1, <1>2, <1>3, <1>4, <1>5, <1>6

Rows == [min_entropy : Nat, throughput : Nat, stability : Nat, success_rounds : Nat, failures : Nat]
Rankings == {"Balanced", "MinEntropy", "Throughput"}

LEMMA ClampIs ==
  ASSUME NEW x \in Int, NEW hi \in Nat
  PROVE  Clamp(x, 0, hi) \in 0 .. hi
BY DEF Clamp, AtMost, AtLeast

LEMMA ClampOrder ==
  ASSUME NEW x \in Int, NEW y \in Int, NEW hi \in Nat \ {0}, x <= y
  PROVE  /\ Clamp(x, 0, hi) <= Clamp(y, 0, hi)
         /\ x <= 0 /\ y > 0 => Clamp(x, 0, hi) < Clamp(y, 0, hi)
BY DEF Clamp, AtMost, AtLeast

LEMMA BaseScoreIs ==
  ASSUME NEW rank_by \in Rankings, NEW row \in Rows, NEW max \in Nat
  PROVE  BaseScore(rank_by, row, max) \in Nat
<1>1. PICK e \in Nat : e = Clamp(row.min_entropy \div 8, 0, 1000)
  <2>1. row.min_entropy \div 8 \in Int
    BY DEF Rows
  <2> QED
    BY <2>1, ClampIs
<1>2. PICK r \in Nat :
        r = IF max > 0 THEN Clamp((1000 * row.throughput) \div max, 0, 1000) ELSE 0
  <2>1. max > 0 => (1000 * row.throughput) \div max \in Int
    BY DEF Rows
  <2> QED
    BY <2>1, ClampIs
<1>3. row.stability \in Nat /\ 10 * row.min_entropy \in Nat /\ 10 * row.throughput \in Nat
  BY DEF Rows
<1> QED
  BY <1>1, <1>2, <1>3 DEF BaseScore, Rankings

\* What a row loses by k failed or missing rounds of `rounds`: at most half.
LEMMA Deducted ==
  ASSUME NEW base \in Nat, NEW j \in Int, NEW k \in Int, NEW rounds \in Nat \ {0}, j <= k
  PROVE  /\ base * (2 * rounds - Clamp(k, 0, rounds)) <= base * (2 * rounds - Clamp(j, 0, rounds))
         /\ base > 0 /\ j <= 0 /\ k > 0 =>
              base * (2 * rounds - Clamp(k, 0, rounds)) < base * (2 * rounds - Clamp(j, 0, rounds))
<1>0. /\ Clamp(j, 0, rounds) \in 0 .. rounds /\ Clamp(k, 0, rounds) \in 0 .. rounds
      /\ Clamp(j, 0, rounds) <= Clamp(k, 0, rounds)
      /\ j <= 0 /\ k > 0 => Clamp(j, 0, rounds) < Clamp(k, 0, rounds)
  BY ClampIs, ClampOrder
<1>1. PICK u \in Nat : u = 2 * rounds - Clamp(j, 0, rounds)
  BY <1>0
<1>2. PICK v \in Nat : v = 2 * rounds - Clamp(k, 0, rounds) /\ v <= u /\ (j <= 0 /\ k > 0 => v < u)
  BY <1>0, <1>1
<1>3. v * base <= u * base
  BY <1>2, Product
<1>4. v < u => v * base + base <= u * base
  <2>1. v < u => (v + 1) * base <= u * base
    BY Product
  <2>2. (v + 1) * base = v * base + base
    OBVIOUS
  <2> QED
    BY <2>1, <2>2
<1>5. PICK x \in Nat, y \in Nat : x = v * base /\ y = u * base
  OBVIOUS
<1>6. base * u = y /\ base * v = x
  BY <1>5
<1>7. x <= y /\ (base > 0 /\ v < u => x < y)
  BY <1>3, <1>4, <1>5
<1> QED
  BY <1>1, <1>2, <1>6, <1>7

\* However sources are ranked, of two rows with the same averages the one with
\* more failed or fewer successful rounds is never above the other; and below
\* one without any, unless both are zero.
THEOREM ScoresInOrder ==
  ASSUME NEW rank_by \in Rankings, NEW max \in Nat, NEW rounds \in Nat \ {0},
         NEW good \in Rows, NEW bad \in Rows,
         bad.min_entropy = good.min_entropy, bad.throughput = good.throughput,
         bad.stability = good.stability,
         bad.success_rounds <= good.success_rounds, good.failures <= bad.failures
  PROVE  /\ score_row(rank_by, bad, max, rounds) <= score_row(rank_by, good, max, rounds)
         /\ /\ good.success_rounds >= rounds /\ good.failures = 0
            /\ bad.success_rounds < rounds \/ bad.failures > 0
            /\ score_row(rank_by, good, max, rounds) > 0
            => score_row(rank_by, bad, max, rounds) < score_row(rank_by, good, max, rounds)
<1>0. BaseScore(rank_by, bad, max) = BaseScore(rank_by, good, max)
  BY DEF BaseScore
<1>1. PICK base \in Nat :
        base = BaseScore(rank_by, good, max) /\ base = BaseScore(rank_by, bad, max)
  BY <1>0, BaseScoreIs
<1>2. PICK j \in Nat : j = Monus(rounds, good.success_rounds) + good.failures
  BY DEF Rows, Monus, AtLeast
<1>3. PICK k \in Nat : k = Monus(rounds, bad.success_rounds) + bad.failures
  BY DEF Rows, Monus, AtLeast
<1>4. /\ j <= k
      /\ good.success_rounds >= rounds /\ good.failures = 0 => j = 0
      /\ bad.success_rounds < rounds \/ bad.failures > 0 => k > 0
  BY <1>2, <1>3 DEF Rows, Monus, AtLeast
<1>5. PICK u \in Nat : u = 2 * rounds - Clamp(j, 0, rounds)
  BY ClampIs
<1>6. /\ score_row(rank_by, good, max, rounds) = base * (2 * rounds - Clamp(j, 0, rounds))
      /\ score_row(rank_by, bad, max, rounds) = base * (2 * rounds - Clamp(k, 0, rounds))
  BY <1>1, <1>2, <1>3 DEF score_row
<1>7. base = 0 => base * u = 0
  OBVIOUS
<1> QED
  BY <1>4, <1>5, <1>6, <1>7, Deducted

--------------------------- (* Holm's correction *) -------------------------

\* A set of numbers that has a member has a least one.
LEMMA LeastExists ==
  ASSUME NEW T \in SUBSET Nat, T # {}
  PROVE  \E x \in T : \A y \in T : x <= y
<1> DEFINE R == OpToRel(<, Nat)
<1>1. IsWellFoundedOn(R, Nat)
  BY NatLessThanWellFounded
<1>2. \A x, y \in Nat : <<y, x>> \in R <=> y < x
  BY DEF OpToRel
<1> HIDE DEF R
<1>3. PICK x \in T : \A y \in T : ~(<<y, x>> \in R)
  BY <1>1, WFMin
<1>4. \A y \in T : x <= y
  <2> TAKE y \in T
  <2>1. x \in Nat /\ y \in Nat
    OBVIOUS
  <2>2. ~(y < x)
    BY <1>2, <1>3, <2>1
  <2> QED
    BY <2>1, <2>2
<1> QED
  BY <1>4

\* A set of numbers up to top that has a member has a greatest one.
LEMMA MaxIs ==
  ASSUME NEW top \in Nat, NEW T \in SUBSET (0..top), T # {}
  PROVE  Max(T) \in T /\ \A y \in T : y <= Max(T)
<1> DEFINE L == {l \in 0..top : top - l \in T}
<1>1. \A y \in T : top - y \in L /\ y \in 0..top
  OBVIOUS
<1>2. L \in SUBSET Nat /\ L # {}
  <2>1. L \in SUBSET Nat
    OBVIOUS
  <2>2. PICK y \in T : TRUE
    OBVIOUS
  <2>3. top - y \in L
    BY <1>1
  <2> QED
    BY <2>1, <2>3
<1>3. PICK l \in L : \A y \in L : l <= y
  BY <1>2, LeastExists
<1> DEFINE x == top - l
<1>4. x \in T /\ \A y \in T : x >= y
  <2>1. x \in T /\ l \in 0..top
    OBVIOUS
  <2>2. ASSUME NEW y \in T PROVE x >= y
    <3>1. y \in 0..top /\ l <= top - y
      BY <1>1, <1>3
    <3> QED
      BY <2>1, <3>1
  <2> QED
    BY <2>1, <2>2
<1> HIDE DEF x
<1>5. Max(T) \in T /\ \A y \in T : Max(T) >= y
  BY <1>4 DEF Max
<1> QED
  BY <1>5

\* The p-values that a stable sort puts before the i-th.
Before(ps, i) == {j \in DOMAIN ps : ps[j] < ps[i] \/ (ps[j] = ps[i] /\ j < i)}

\* Those that stand up to a value, by how many are before each, are those before
\* it and itself, and the others are as many as Holm's factor for it says.
LEMMA SortedIs ==
  ASSUME NEW one \in Nat, NEW ps \in Seq(0..one), NEW i \in DOMAIN ps
  PROVE  /\ SortedAt(ps, i) \in 0..Len(ps) - 1
         /\ \A j \in DOMAIN ps : SortedAt(ps, j) <= SortedAt(ps, i) <=> j \in Before(ps, i) \/ j = i
         /\ IsFiniteSet((DOMAIN ps) \ Before(ps, i))
         /\ Cardinality((DOMAIN ps) \ Before(ps, i)) = Len(ps) - SortedAt(ps, i)
<1> DEFINE m == Len(ps)
           D == 1..m
<1>6. m \in Nat /\ DOMAIN ps = D /\ \A j \in D : ps[j] \in Nat
  <2>1. m \in Nat /\ DOMAIN ps = D /\ ps \in [1..m -> 0..one]
    BY LenProperties
  <2> QED
    BY <2>1
<1> HIDE DEF m
<1>1. IsFiniteSet(D) /\ Cardinality(D) = m
  BY <1>6, FS_Interval
<1>2. ASSUME NEW j \in D
      PROVE  /\ Before(ps, j) \subseteq D /\ j \notin Before(ps, j)
             /\ IsFiniteSet(Before(ps, j)) /\ SortedAt(ps, j) = Cardinality(Before(ps, j))
             /\ SortedAt(ps, j) \in 0..m - 1
  <2>1. Before(ps, j) \subseteq D /\ j \notin Before(ps, j) /\ SortedAt(ps, j) = Cardinality(Before(ps, j))
    BY <1>6 DEF Before, SortedAt
  <2> DEFINE B == Before(ps, j)
  <2> HIDE DEF B, D
  <2>2. B \in SUBSET D /\ B # D
    BY <2>1 DEF B
  <2>3. IsFiniteSet(B) /\ Cardinality(B) <= m /\ Cardinality(B) # m
    BY <1>1, <2>2, FS_Subset
  <2>4. Cardinality(B) \in Nat
    BY <2>3, FS_CardinalityType
  <2>5. Cardinality(B) \in 0..m - 1
    BY <1>6, <2>3, <2>4
  <2> QED
    BY <2>1, <2>3, <2>5 DEF B
<1>3. ASSUME NEW j \in D, NEW k \in D, j \in Before(ps, k)
      PROVE  SortedAt(ps, j) < SortedAt(ps, k)
  <2>1. Before(ps, j) \cup {j} \subseteq Before(ps, k)
    BY <1>3, <1>6 DEF Before
  <2> DEFINE B == Before(ps, j)
             C == Before(ps, k)
  <2> HIDE DEF B, C
  <2>2. IsFiniteSet(B) /\ IsFiniteSet(C) /\ j \notin B /\ B \cup {j} \in SUBSET C
    BY <1>2, <2>1 DEF B, C
  <2>3. Cardinality(B \cup {j}) = Cardinality(B) + 1 /\ Cardinality(B \cup {j}) <= Cardinality(C)
    BY <2>2, FS_AddElement, FS_Subset
  <2>4. Cardinality(B) \in Nat /\ Cardinality(C) \in Nat
    BY <2>2, FS_CardinalityType
  <2> QED
    BY <1>2, <2>3, <2>4 DEF B, C
<1>4. ASSUME NEW j \in D
      PROVE  SortedAt(ps, j) <= SortedAt(ps, i) <=> j \in Before(ps, i) \/ j = i
  <2>1. j \in Before(ps, i) \/ j = i \/ i \in Before(ps, j)
    BY <1>6 DEF Before
  <2>2. SortedAt(ps, j) \in Nat /\ SortedAt(ps, i) \in Nat
    BY <1>2, <1>6
  <2>3. j \in Before(ps, i) => SortedAt(ps, j) < SortedAt(ps, i)
    BY <1>3, <1>6
  <2>4. i \in Before(ps, j) => SortedAt(ps, i) < SortedAt(ps, j)
    BY <1>3, <1>6
  <2>5. i \in Before(ps, j) => j \notin Before(ps, i) /\ j # i
    BY <1>6 DEF Before
  <2> QED
    BY <2>1, <2>2, <2>3, <2>4, <2>5
<1>5. IsFiniteSet(D \ Before(ps, i)) /\ Cardinality(D \ Before(ps, i)) = m - SortedAt(ps, i)
  <2>0. i \in D
    BY <1>6
  <2>1. D \cap Before(ps, i) = Before(ps, i)
    BY <1>2, <2>0
  <2>2. IsFiniteSet(D \ Before(ps, i))
        /\ Cardinality(D \ Before(ps, i)) = Cardinality(D) - Cardinality(D \cap Before(ps, i))
    BY <1>1, FS_Difference
  <2> QED
    BY <1>1, <1>2, <2>0, <2>1, <2>2
<1> QED
  BY <1>2, <1>4, <1>5, <1>6 DEF m

\* A product grows with its factors.
LEMMA Grows ==
  ASSUME NEW p \in Nat, NEW q \in Nat, NEW x \in Nat, NEW y \in Nat, p <= q, x <= y
  PROVE  p * x <= q * y /\ p * x \in Nat
<1>1. PICK d \in Nat, e \in Nat : q = p + d /\ y = x + e
  <2>1. q - p \in Nat /\ y - x \in Nat /\ q = p + (q - p) /\ y = x + (y - x)
    OBVIOUS
  <2> QED
    BY <2>1
<1>2. q * y = p * x + (p * e + d * x + d * e)
  BY <1>1
<1>3. p * x \in Nat /\ p * e \in Nat /\ d * x \in Nat /\ d * e \in Nat
  OBVIOUS
<1> QED
  BY <1>2, <1>3

\* A correction that stops at one is below alpha when the product is.
LEMMA Capped ==
  ASSUME NEW x \in Nat, NEW one \in Nat, NEW alpha \in 1..one
  PROVE  AtMost(x, one) < alpha <=> x < alpha
BY DEF AtMost

\* In what follows at[i] is the position of a p-value p[i] among those sorted, and
\* before[i] those that are sorted before it.

Ranked(D, m, p, at, before) ==
  /\ m \in Nat /\ p \in [D -> Nat] /\ at \in [D -> 0..m] /\ before \in [D -> SUBSET D]
  /\ \A j, k \in D : at[k] <= at[j] <=> k \in before[j] \/ k = j
  /\ \A j, k \in D : k \in before[j] => j \notin before[k] /\ j # k
  /\ \A j, k \in D : k \notin before[j] => p[j] <= p[k]
  /\ \A j, k \in D : at[k] <= at[j] => p[k] <= p[j]
  /\ \A j \in D : IsFiniteSet(D \ before[j]) /\ Cardinality(D \ before[j]) = m - at[j]

\* adjusted[i] is the greatest of the values up to the i-th.
Running(D, at, one, raw, adjusted) ==
  /\ at \in [D -> Nat] /\ one \in Nat /\ raw \in [D -> 0..one]
  /\ adjusted = [j \in D |-> Max({raw[k] : k \in {l \in D : at[l] <= at[j]}})]

\* All values up to the i-th are below alpha; their products are; every set of
\* hypotheses that holds the i-th is rejected.
Below(D, at, f, i, alpha) == \A j \in D : at[j] <= at[i] => f[j] < alpha
Steps(D, m, p, at, i, alpha) == \A j \in D : at[j] <= at[i] => p[j] * (m - at[j]) < alpha
Closed(D, p, i, alpha) ==
  \A I \in SUBSET D : i \in I => \E k \in I : p[k] * Cardinality(I) < alpha

\* A hypothesis is rejected by every set that holds it exactly when its factor and
\* those of the ones before it reject them: the sets to look at are what is left
\* at each position, and the one that rejects first in a set is its least.
LEMMA ClosureIs ==
  ASSUME NEW D, NEW m, NEW p, NEW at, NEW before, Ranked(D, m, p, at, before),
         NEW alpha \in Nat, NEW i \in D
  PROVE  Steps(D, m, p, at, i, alpha) <=> Closed(D, p, i, alpha)
<1> USE DEF Ranked, Steps, Closed
<1>1. \A j \in D : p[j] \in Nat /\ at[j] \in Nat /\ m - at[j] \in Nat
  <2> TAKE j \in D
  <2>1. p[j] \in Nat /\ at[j] \in 0..m /\ m \in Nat
    OBVIOUS
  <2> QED
    BY <2>1
<1>2. ASSUME \A j \in D : at[j] <= at[i] => p[j] * (m - at[j]) < alpha,
             NEW I \in SUBSET D, i \in I
      PROVE  \E k \in I : p[k] * Cardinality(I) < alpha
  <2> DEFINE P == {x \in Nat : \E k \in I : x = at[k]}
  <2>1. at[i] \in P /\ P \in SUBSET Nat
    BY <1>1, <1>2
  <2>2. PICK x \in P : \A y \in P : x <= y
    BY <2>1, LeastExists
  <2>3. PICK k \in I : x = at[k]
    OBVIOUS
  <2>4. \A l \in I : at[k] <= at[l]
    <3> TAKE l \in I
    <3>1. at[l] \in P
      BY <1>1
    <3> QED
      BY <2>2, <2>3, <3>1
  <2> HIDE DEF P
  <2>5. I \in SUBSET (D \ before[k])
    <3> SUFFICES ASSUME NEW l \in I, l \in before[k] PROVE FALSE
      OBVIOUS
    <3>1. k \in before[l] \/ k = l
      BY <2>4
    <3> QED
      BY <3>1
  <2>6. IsFiniteSet(I) /\ Cardinality(I) <= m - at[k]
    <3> DEFINE R == D \ before[k]
    <3>1. IsFiniteSet(R) /\ Cardinality(R) = m - at[k] /\ I \in SUBSET R
      BY <2>5
    <3> HIDE DEF R
    <3> QED
      BY <3>1, FS_Subset
  <2>7. Cardinality(I) \in Nat
    BY <2>6, FS_CardinalityType
  <2> DEFINE c == Cardinality(I)
             d == m - at[k]
             q == p[k]
  <2>8. c \in Nat /\ d \in Nat /\ q \in Nat /\ c <= d /\ q * d < alpha
    BY <1>1, <1>2, <2>4, <2>6, <2>7
  <2> HIDE DEF c, d, q
  <2>9. q * c <= q * d /\ q * c \in Nat /\ q * d \in Nat
    BY <2>8, Grows
  <2>10. q * c < alpha
    BY <2>8, <2>9
  <2> QED
    BY <2>10 DEF c, q
<1>3. ASSUME \A I \in SUBSET D : i \in I => \E k \in I : p[k] * Cardinality(I) < alpha,
             NEW j \in D, at[j] <= at[i]
      PROVE  p[j] * (m - at[j]) < alpha
  <2> DEFINE I == D \ before[j]
  <2>1. i \in I
    <3>1. j \in before[i] \/ j = i
      BY <1>3
    <3> QED
      BY <3>1
  <2>2. PICK k \in I : p[k] * Cardinality(I) < alpha
    BY <1>3, <2>1
  <2>3. Cardinality(I) = m - at[j] /\ p[j] <= p[k]
    OBVIOUS
  <2> DEFINE d == m - at[j]
             q == p[j]
             r == p[k]
  <2>4. d \in Nat /\ q \in Nat /\ r \in Nat /\ q <= r /\ r * d < alpha
    BY <1>1, <2>2, <2>3
  <2> HIDE DEF d, q, r
  <2>5. q * d <= r * d /\ q * d \in Nat /\ r * d \in Nat
    BY <2>4, Grows
  <2>6. q * d < alpha
    BY <2>4, <2>5
  <2> QED
    BY <2>6 DEF d, q
<1> QED
  BY <1>2, <1>3

\* The running maximum is one of the values up to it, and at least each of those,
LEMMA HighestIs ==
  ASSUME NEW D, NEW at, NEW one, NEW raw, NEW adjusted, Running(D, at, one, raw, adjusted),
         NEW j \in D
  PROVE  /\ adjusted[j] \in 0..one
         /\ \A k \in D : at[k] <= at[j] => raw[k] <= adjusted[j]
         /\ \E k \in D : at[k] <= at[j] /\ adjusted[j] = raw[k]
<1> USE DEF Running
<1> DEFINE S == {raw[k] : k \in {l \in D : at[l] <= at[j]}}
<1>1. raw[j] \in S
  <2>1. at[j] \in Nat /\ at[j] <= at[j]
    OBVIOUS
  <2> QED
    BY <2>1
<1>2. S \in SUBSET (0..one) /\ S # {}
  BY <1>1
<1>3. Max(S) \in S /\ \A y \in S : y <= Max(S)
  BY <1>2, MaxIs
<1>4. adjusted[j] = Max(S)
  OBVIOUS
<1> QED
  BY <1>2, <1>3, <1>4

\* so the running maxima stay below alpha as long as the values do.
LEMMA BelowIs ==
  ASSUME NEW D, NEW at, NEW one, NEW raw, NEW adjusted, Running(D, at, one, raw, adjusted),
         NEW alpha \in Nat, NEW i \in D
  PROVE  Below(D, at, adjusted, i, alpha) <=> Below(D, at, raw, i, alpha)
<1> USE DEF Below
<1>1. \A j \in D : /\ \A k \in D : at[k] <= at[j] => raw[k] <= adjusted[j]
                   /\ \E k \in D : at[k] <= at[j] /\ adjusted[j] = raw[k]
                   /\ adjusted[j] \in Nat
  BY HighestIs
<1>2. \A j \in D : at[j] \in Nat /\ raw[j] \in Nat
  BY DEF Running
<1>3. ASSUME \A j \in D : at[j] <= at[i] => adjusted[j] < alpha, NEW j \in D, at[j] <= at[i]
      PROVE  raw[j] < alpha
  <2>1. raw[j] <= adjusted[j]
    BY <1>1, <1>2
  <2> QED
    BY <1>1, <1>2, <1>3, <2>1
<1>4. ASSUME \A j \in D : at[j] <= at[i] => raw[j] < alpha, NEW j \in D, at[j] <= at[i]
      PROVE  adjusted[j] < alpha
  <2>1. PICK k \in D : at[k] <= at[j] /\ adjusted[j] = raw[k]
    BY <1>1
  <2>2. at[k] <= at[i]
    BY <1>2, <1>4, <2>1
  <2> QED
    BY <1>4, <2>1, <2>2
<1> QED
  BY <1>3, <1>4

\* Of two p-values the greater has the greater adjusted one, whichever of two
\* that are equal comes first.
LEMMA OrderIsKept ==
  ASSUME NEW D, NEW m, NEW p, NEW at, NEW before, Ranked(D, m, p, at, before),
         NEW one, NEW raw, NEW adjusted, Running(D, at, one, raw, adjusted),
         \A k \in D : raw[k] = AtMost(p[k] * (m - at[k]), one),
         NEW i \in D, NEW j \in D, p[i] <= p[j]
  PROVE  adjusted[i] <= adjusted[j]
<1>1. PICK k \in D : at[k] <= at[i] /\ adjusted[i] = raw[k]
  BY HighestIs
<1>2. /\ at[i] \in 0..m /\ at[j] \in 0..m /\ at[k] \in 0..m /\ p[i] \in Nat /\ p[j] \in Nat /\ p[k] \in Nat
      /\ raw[k] \in 0..one /\ raw[j] \in 0..one /\ one \in Nat /\ m \in Nat
  BY DEF Ranked, Running
<1>5. \A l \in D : at[l] <= at[j] => raw[l] <= adjusted[j] /\ adjusted[j] \in 0..one
  BY HighestIs
<1>6. \A h, l \in D : at[l] <= at[h] => p[l] <= p[h]
  BY DEF Ranked
<1>3. CASE at[k] <= at[j]
  BY <1>1, <1>3, <1>5
<1>4. CASE ~(at[k] <= at[j])
  <2> DEFINE c == m - at[k]
             d == m - at[j]
             q == p[k]
  <2>1. c \in Nat /\ d \in Nat /\ c <= d /\ q \in Nat /\ at[j] <= at[k]
    BY <1>2, <1>4
  <2>2. q = p[j]
    <3>1. p[j] <= p[k] /\ p[k] <= p[i]
      BY <1>1, <1>6, <2>1
    <3> QED
      BY <1>2, <3>1
  <2>3. raw[k] = AtMost(q * c, one) /\ raw[j] = AtMost(q * d, one)
    BY <2>2
  <2> HIDE DEF c, d, q
  <2>4. q * c <= q * d /\ q * c \in Nat /\ q * d \in Nat
    BY <2>1, Grows
  <2>5. \A x, y \in Nat : x <= y => AtMost(x, one) <= AtMost(y, one)
    BY <1>2 DEF AtMost
  <2>6. raw[k] <= raw[j]
    BY <2>3, <2>4, <2>5
  <2>7. raw[j] <= adjusted[j] /\ adjusted[j] \in 0..one
    BY <1>2, <1>5
  <2> QED
    BY <1>1, <1>2, <2>6, <2>7
<1> QED
  BY <1>3, <1>4

\* For any number of p-values and any level: Holm's correction is the closure of
\* Bonferroni's, rejects all that Bonferroni's does, and keeps the order of the
\* p-values, ties included.
THEOREM HolmCloses ==
  ASSUME NEW one \in Nat, NEW alpha \in 1..one, NEW ps \in Seq(0..one)
  PROVE  HolmIsClosure(ps, alpha, one)
<1> DEFINE m == Len(ps)
           D == DOMAIN ps
           at == [i \in D |-> SortedAt(ps, i)]
           before == [i \in D |-> Before(ps, i)]
           raw == [i \in D |-> AtMost(ps[i] * (m - at[i]), one)]
           adjusted == [i \in D |-> Max({raw[j] : j \in {k \in D : at[k] <= at[i]}})]
           rejected == {i \in D : \A j \in {k \in D : at[k] <= at[i]} : adjusted[j] < alpha}
           Rejects(I) == \E i \in I : ps[i] * Cardinality(I) < alpha
<1>1. m \in Nat /\ D = 1..m /\ ps \in [D -> Nat] /\ one \in Nat /\ alpha \in Nat
  <2>1. m \in Nat /\ D = 1..m /\ ps \in [1..m -> 0..one]
    BY LenProperties
  <2> QED
    BY <2>1
<1>2. /\ holm_bonferroni_correction(ps, alpha, one).adjusted = adjusted
      /\ holm_bonferroni_correction(ps, alpha, one).rejected = rejected
  BY DEF holm_bonferroni_correction
<1>3. bonferroni_correction(ps, alpha, one).rejected = {i \in D : AtMost(ps[i] * m, one) < alpha}
  BY DEF bonferroni_correction
<1> HIDE DEF m
<1>4. ASSUME NEW i \in D
      PROVE  /\ at[i] \in 0..m - 1
             /\ \A j \in D : at[j] <= at[i] <=> j \in Before(ps, i) \/ j = i
             /\ IsFiniteSet(D \ Before(ps, i)) /\ Cardinality(D \ Before(ps, i)) = m - at[i]
  <2>2. /\ SortedAt(ps, i) \in 0..Len(ps) - 1
        /\ \A j \in DOMAIN ps : SortedAt(ps, j) <= SortedAt(ps, i) <=> j \in Before(ps, i) \/ j = i
        /\ IsFiniteSet((DOMAIN ps) \ Before(ps, i))
        /\ Cardinality((DOMAIN ps) \ Before(ps, i)) = Len(ps) - SortedAt(ps, i)
    BY SortedIs
  <2>3. \A j \in D : at[j] = SortedAt(ps, j)
    OBVIOUS
  <2> HIDE DEF at
  <2> QED
    BY <2>2, <2>3 DEF m
<1> HIDE DEF D, raw, adjusted, rejected, Rejects
<1>5. at \in [D -> 0..m]
  <2>1. \A i \in D : at[i] \in 0..m
    <3> TAKE i \in D
    <3>1. at[i] \in 0..m - 1
      BY <1>4
    <3> HIDE DEF at
    <3> QED
      BY <1>1, <3>1
  <2> QED
    BY <2>1
<1>6. before \in [D -> SUBSET D] /\ \A i \in D : before[i] = Before(ps, i)
  BY DEF Before, D
<1> HIDE DEF at, before
<1>7. /\ \A j, k \in D : at[k] <= at[j] <=> k \in before[j] \/ k = j
      /\ \A j \in D : IsFiniteSet(D \ before[j]) /\ Cardinality(D \ before[j]) = m - at[j]
  BY <1>4, <1>6
<1>8. \A j, k \in D : k \in before[j] <=> ps[k] < ps[j] \/ (ps[k] = ps[j] /\ k < j)
  BY <1>6 DEF Before, D
<1>9. /\ \A j, k \in D : k \in before[j] => j \notin before[k] /\ j # k
      /\ \A j, k \in D : k \notin before[j] => ps[j] <= ps[k]
      /\ \A j, k \in D : at[k] <= at[j] => ps[k] <= ps[j]
  <2>1. ASSUME NEW j \in D, NEW k \in D
        PROVE  /\ k \in before[j] => j \notin before[k] /\ j # k
               /\ k \notin before[j] => ps[j] <= ps[k]
               /\ at[k] <= at[j] => ps[k] <= ps[j]
    <3>1. ps[j] \in Nat /\ ps[k] \in Nat /\ j \in Nat /\ k \in Nat
      BY <1>1
    <3>2. /\ k \in before[j] <=> ps[k] < ps[j] \/ (ps[k] = ps[j] /\ k < j)
          /\ j \in before[k] <=> ps[j] < ps[k] \/ (ps[j] = ps[k] /\ j < k)
          /\ at[k] <= at[j] <=> k \in before[j] \/ k = j
      BY <1>7, <1>8
    <3> QED
      BY <3>1, <3>2
  <2> QED
    BY <2>1
<1>10. Ranked(D, m, ps, at, before)
  BY <1>1, <1>5, <1>6, <1>7, <1>9 DEF Ranked
<1>11. \A i \in D : ps[i] * (m - at[i]) \in Nat /\ m - at[i] \in Nat /\ ps[i] \in Nat /\ m - at[i] <= m
  <2> TAKE i \in D
  <2>1. ps[i] \in Nat /\ at[i] \in 0..m
    BY <1>1, <1>5
  <2>2. m - at[i] \in Nat /\ m - at[i] <= m
    BY <1>1, <2>1
  <2>3. ps[i] * (m - at[i]) \in Nat
    BY <2>1, <2>2, Grows
  <2> QED
    BY <2>1, <2>2, <2>3
<1>12. \A i \in D : /\ raw[i] = AtMost(ps[i] * (m - at[i]), one)
                    /\ raw[i] \in 0..one
                    /\ raw[i] < alpha <=> ps[i] * (m - at[i]) < alpha
  <2>1. \A x \in Nat : AtMost(x, one) \in 0..one /\ (AtMost(x, one) < alpha <=> x < alpha)
    BY DEF AtMost
  <2> QED
    BY <1>11, <2>1 DEF raw
<1>13. Running(D, at, one, raw, adjusted)
  <2>1. raw \in [D -> 0..one]
    <3>1. raw = [i \in D |-> raw[i]]
      BY DEF raw
    <3> QED
      BY <1>12, <3>1
  <2>2. at \in [D -> Nat]
    BY <1>5
  <2> QED
    BY <1>1, <2>1, <2>2 DEF Running, adjusted
<1>14. ASSUME NEW i \in D
       PROVE  i \in rejected <=> \A j \in D : at[j] <= at[i] => ps[j] * (m - at[j]) < alpha
  <2>1. Below(D, at, adjusted, i, alpha) <=> Below(D, at, raw, i, alpha)
    BY <1>1, <1>13, BelowIs
  <2>2. i \in rejected <=> \A j \in D : at[j] <= at[i] => adjusted[j] < alpha
    BY DEF rejected
  <2> QED
    BY <1>12, <2>1, <2>2 DEF Below
<1>15. ASSUME NEW i \in D
       PROVE  i \in rejected <=> \A I \in SUBSET D : i \in I => Rejects(I)
  <2>1. Steps(D, m, ps, at, i, alpha) <=> Closed(D, ps, i, alpha)
    BY <1>1, <1>10, ClosureIs
  <2> QED
    BY <1>14, <2>1 DEF Rejects, Steps, Closed
<1>16. ASSUME NEW i \in D, AtMost(ps[i] * m, one) < alpha
       PROVE  i \in rejected
  <2>1. ps[i] \in Nat /\ ps[i] * m \in Nat
    BY <1>1, <1>11, Grows
  <2>2. ps[i] * m < alpha
    BY <1>16, <2>1, Capped
  <2>3. ASSUME NEW j \in D, at[j] <= at[i] PROVE ps[j] * (m - at[j]) < alpha
    <3> DEFINE c == m - at[j]
    <3>1. c \in Nat /\ c <= m /\ ps[j] \in Nat /\ ps[j] <= ps[i]
      BY <1>9, <1>11, <2>3
    <3> HIDE DEF c
    <3>2. ps[j] * c <= ps[i] * m /\ ps[j] * c \in Nat
      BY <1>1, <2>1, <3>1, Grows
    <3>3. ps[j] * c < alpha
      BY <1>1, <2>1, <2>2, <3>2
    <3> QED
      BY <3>3 DEF c
  <2> QED
    BY <1>14, <2>3
<1>17. ASSUME NEW i \in D, NEW j \in D, ps[i] <= ps[j]
       PROVE  adjusted[i] <= adjusted[j]
  BY <1>10, <1>12, <1>13, <1>17, OrderIsKept
<1>18. rejected = {i \in D : \A I \in SUBSET D : i \in I => Rejects(I)}
  <2>1. rejected \subseteq D
    BY DEF rejected
  <2> QED
    BY <1>15, <2>1
<1> QED
  BY <1>2, <1>3, <1>16, <1>17, <1>18 DEF HolmIsClosure, D, Rejects

------------------------------ (* resolution *) -----------------------------

\* Min of a set of numbers that has a member is one.
LEMMA MinIs ==
  ASSUME NEW T \in SUBSET Nat, T # {}
  PROVE  Min(T) \in T
BY LeastExists DEF Min

\* What is found among the free sources is one that serves the request, one with
\* its name if there is one, and none only when none of them serves it.
FoundAmong(free, available, name, mode, found) ==
  \/ found = {} /\ \A k \in free : ~Serves(available[k], name, mode)
  \/ \E i \in free : /\ found = {i}
                     /\ Serves(available[i], name, mode)
                     /\ (\E k \in free : available[k] = name) => available[i] = name

LEMMA FindIs ==
  ASSUME NEW Names, NEW available \in Seq(Names), NEW name, NEW mode, NEW used
  PROVE  FoundAmong((DOMAIN available) \ used, available, name, mode,
                    find_matching_index(available, name, mode, used))
<1> DEFINE free == (DOMAIN available) \ used
           exact == {i \in free : available[i] = name}
           partial == {i \in free : name \subseteq available[i]}
<1>1. exact \in SUBSET Nat /\ partial \in SUBSET Nat
  <2>1. DOMAIN available \subseteq Nat
    BY LenProperties
  <2> QED
    BY <2>1
<1>2. exact # {} => Min(exact) \in exact
  BY <1>1, MinIs
<1>3. partial # {} => Min(partial) \in partial
  BY <1>1, MinIs
<1>4. CASE exact # {}
  <2>1. find_matching_index(available, name, mode, used) = {Min(exact)}
    BY <1>4 DEF find_matching_index
  <2> QED
    BY <1>2, <1>4, <2>1 DEF Serves, FoundAmong
<1>5. CASE exact = {} /\ (mode = "ExactOnly" \/ partial = {})
  <2>1. find_matching_index(available, name, mode, used) = {}
    BY <1>5 DEF find_matching_index
  <2> QED
    BY <1>5, <2>1 DEF Serves, FoundAmong
<1>6. CASE exact = {} /\ mode # "ExactOnly" /\ partial # {}
  <2>1. find_matching_index(available, name, mode, used) = {Min(partial)}
    BY <1>6 DEF find_matching_index
  <2> QED
    BY <1>3, <1>6, <2>1 DEF Serves, FoundAmong
<1> QED
  BY <1>4, <1>5, <1>6

\* A request is handled when it is missing or a source serves it, by name if one has it.
Handled(available, name, mode, chosen) ==
  /\ (\A k \in DOMAIN available : ~Serves(available[k], name, mode)) => name \in Range(chosen.missing)
  /\ (\E k \in DOMAIN available : Serves(available[k], name, mode))
       => \E k \in chosen.used : Serves(available[k], name, mode)
  /\ name \in Range(available) => \E k \in chosen.used : available[k] = name

Unserved(available, mode, Names) ==
  {name \in Names : \A k \in DOMAIN available : ~Serves(available[k], name, mode)}

\* What the first i requests have chosen.
ChosenInv(available, requested, mode, Names, chosen, i) ==
  /\ chosen.used \subseteq DOMAIN available /\ IsFiniteSet(chosen.used)
  /\ chosen.missing \in Seq(Unserved(available, mode, Names))
  /\ Cardinality(chosen.used) + Len(chosen.missing) <= i
  /\ \A j \in 1..i : Handled(available, requested[j], mode, chosen)

\* A request more keeps it.
LEMMA ChosenStep ==
  ASSUME NEW Names, NEW available \in Seq(Names), NEW requested \in Seq(Names), NEW mode,
         NEW chosen, NEW i \in 1..Len(requested),
         ChosenInv(available, requested, mode, Names, chosen, i - 1)
  PROVE  ChosenInv(available, requested, mode, Names,
                   resolve_one(available, requested[i], mode, chosen), i)
<1> DEFINE name == requested[i]
           next == resolve_one(available, name, mode, chosen)
           found == find_matching_index(available, name, mode, chosen.used)
           all == find_matching_index(available, name, mode, {})
           U == Unserved(available, mode, Names)
           gone == found = {} /\ all = {}
<1>1. name \in Names /\ i \in Nat /\ i - 1 \in Nat
  BY LenProperties, ElementOfSeq
<1>2. /\ next.used = chosen.used \cup found
      /\ next.missing = IF gone THEN Append(chosen.missing, name) ELSE chosen.missing
  BY DEF resolve_one
<1>3. chosen.missing \in Seq(U) /\ Len(chosen.missing) \in Nat
  BY LenProperties DEF ChosenInv, U
<1>4. \/ found = {} /\ \A k \in (DOMAIN available) \ chosen.used : ~Serves(available[k], name, mode)
      \/ \E j \in (DOMAIN available) \ chosen.used :
           /\ found = {j} /\ Serves(available[j], name, mode)
           /\ (\E k \in (DOMAIN available) \ chosen.used : available[k] = name) => available[j] = name
  <2>1. FoundAmong((DOMAIN available) \ chosen.used, available, name, mode, found)
    BY FindIs
  <2> HIDE DEF found, all, next, name
  <2> QED
    BY <2>1 DEF FoundAmong
<1>5. \/ all = {} /\ \A k \in DOMAIN available : ~Serves(available[k], name, mode)
      \/ all # {} /\ \E j \in DOMAIN available : Serves(available[j], name, mode)
  <2>1. FoundAmong((DOMAIN available) \ {}, available, name, mode, all)
    BY FindIs
  <2> HIDE DEF found, all, next, name
  <2> QED
    BY <2>1 DEF FoundAmong
<1> HIDE DEF found, all, next, U
<1>6. gone => name \in U
  BY <1>1, <1>5 DEF Unserved, U
<1>7. /\ next.missing \in Seq(U)
      /\ Range(chosen.missing) \subseteq Range(next.missing)
      /\ gone => name \in Range(next.missing)
      /\ Len(next.missing) = Len(chosen.missing) + (IF gone THEN 1 ELSE 0)
  <2>1. CASE gone
    <3>1. next.missing = Append(chosen.missing, name) /\ name \in U
      BY <1>2, <1>6, <2>1
    <3> DEFINE m == chosen.missing
               p == next.missing
    <3> HIDE DEF m, p
    <3>2. /\ p \in Seq(U) /\ Len(p) = Len(m) + 1
          /\ \A j \in 1..Len(m) : p[j] = m[j]
          /\ p[Len(m) + 1] = name
      BY <1>3, <3>1, AppendProperties DEF m, p
    <3>3. DOMAIN p = 1..Len(m) + 1 /\ DOMAIN m = 1..Len(m) /\ Len(m) \in Nat
      BY <1>3, <3>2, LenProperties DEF m
    <3>4. Range(m) \subseteq Range(p) /\ name \in Range(p)
      BY <3>2, <3>3 DEF Range
    <3> QED
      BY <2>1, <3>2, <3>4 DEF m, p
  <2>2. CASE ~gone
    <3>1. next.missing = chosen.missing
      BY <1>2, <2>2
    <3>2. Len(chosen.missing) = Len(chosen.missing) + 0
      BY <1>3
    <3> QED
      BY <1>3, <2>2, <3>1, <3>2
  <2> QED
    BY <2>1, <2>2
<1>8. /\ next.used \subseteq DOMAIN available /\ chosen.used \subseteq next.used
      /\ IsFiniteSet(next.used)
      /\ Cardinality(next.used) = Cardinality(chosen.used) + (IF found = {} THEN 0 ELSE 1)
      /\ Cardinality(chosen.used) \in Nat
  <2>1. IsFiniteSet(chosen.used) /\ chosen.used \subseteq DOMAIN available
    BY DEF ChosenInv
  <2>2. Cardinality(chosen.used) \in Nat
    BY <2>1, FS_CardinalityType
  <2>3. CASE found = {}
    <3>1. next.used = chosen.used
      BY <1>2, <2>3
    <3> QED
      BY <2>1, <2>2, <2>3, <3>1
  <2>4. ASSUME NEW j \in (DOMAIN available) \ chosen.used, found = {j}
        PROVE  /\ IsFiniteSet(next.used)
               /\ Cardinality(next.used) = Cardinality(chosen.used) + 1
               /\ next.used \subseteq DOMAIN available
    <3>1. next.used = chosen.used \cup {j} /\ j \notin chosen.used
      BY <1>2, <2>4
    <3> QED
      BY <2>1, <3>1, FS_AddElement
  <2>5. found = {} \/ \E j \in (DOMAIN available) \ chosen.used : found = {j}
    BY <1>4
  <2> QED
    BY <1>2, <2>1, <2>2, <2>3, <2>4, <2>5
<1>9. Cardinality(next.used) + Len(next.missing) <= i
  <2>1. Cardinality(chosen.used) + Len(chosen.missing) <= i - 1
    BY DEF ChosenInv
  <2>2. Len(chosen.missing) \in Nat /\ Cardinality(chosen.used) \in Nat
    BY <1>3, <1>8
  <2>3. CASE gone
    <3>1. Len(next.missing) = Len(chosen.missing) + 1
          /\ Cardinality(next.used) = Cardinality(chosen.used) + 0
      BY <1>7, <1>8, <2>3
    <3> QED
      BY <1>1, <2>1, <2>2, <3>1
  <2>4. CASE ~gone
    <3>1. Len(next.missing) = Len(chosen.missing) + 0
      BY <1>7, <2>4
    <3>2. \E x \in 0..1 : Cardinality(next.used) = Cardinality(chosen.used) + x
      BY <1>8
    <3> QED
      BY <1>1, <2>1, <2>2, <3>1, <3>2
  <2> QED
    BY <2>3, <2>4
<1>10. \A j \in 1..i : Handled(available, requested[j], mode, next)
  <2> TAKE j \in 1..i
  <2>1. CASE j # i
    <3>1. Handled(available, requested[j], mode, chosen)
      <4>1. j \in 1..i - 1
        BY <1>1, <2>1
      <4> QED
        BY <4>1 DEF ChosenInv
    <3> QED
      BY <1>7, <1>8, <3>1 DEF Handled
  <2>2. CASE j = i
    <3>1. \A k \in DOMAIN available : available[k] = name => Serves(available[k], name, mode)
      BY DEF Serves
    <3>2. found \subseteq next.used /\ chosen.used \subseteq next.used
      BY <1>2
    <3>3. Handled(available, name, mode, next)
      <4>1. (\A k \in DOMAIN available : ~Serves(available[k], name, mode)) => name \in Range(next.missing)
        BY <1>4, <1>5, <1>7
      <4>2. ASSUME NEW k \in DOMAIN available, Serves(available[k], name, mode)
            PROVE  \E m \in next.used : Serves(available[m], name, mode)
        BY <1>4, <3>2, <4>2
      <4>3. ASSUME name \in Range(available)
            PROVE  \E m \in next.used : available[m] = name
        <5>1. PICK k \in DOMAIN available : available[k] = name
          BY <4>3 DEF Range
        <5> QED
          BY <1>4, <3>1, <3>2, <5>1
      <4> QED
        BY <4>1, <4>2, <4>3 DEF Handled
    <3> QED
      BY <2>2, <3>3
  <2> QED
    BY <2>1, <2>2
<1>11. ChosenInv(available, requested, mode, Names, next, i)
  BY <1>7, <1>8, <1>9, <1>10 DEF ChosenInv, U
<1> QED
  BY <1>11 DEF next

\* What is chosen after each request, up to len.
Chosen(u, len, available, requested, mode) ==
  u = [i \in 0..len |-> IF i = 0 THEN [used |-> {}, missing |-> << >>]
                      ELSE resolve_one(available, requested[i], mode, u[i - 1])]

\* There is such a function.
LEMMA ChosenExists ==
  ASSUME NEW available, NEW requested, NEW mode, NEW len \in Nat
  PROVE  \E u : Chosen(u, len, available, requested, mode)
<1> DEFINE Some(k) == \E u : Chosen(u, k, available, requested, mode)
           T == {k \in Nat : ~Some(k)}
<1> SUFFICES ASSUME T # {} PROVE FALSE
  OBVIOUS
<1>2. PICK k \in T : \A j \in T : k <= j
  <2>1. T \in SUBSET Nat
    OBVIOUS
  <2> QED
    BY <2>1, LeastExists
<1>3. k \in Nat /\ ~Some(k)
  OBVIOUS
<1> HIDE DEF T
<1>4. CASE k = 0
  <2> DEFINE u == [i \in 0..0 |-> [used |-> {}, missing |-> << >>]]
  <2>1. u = [i \in 0..0 |-> IF i = 0 THEN [used |-> {}, missing |-> << >>]
                            ELSE resolve_one(available, requested[i], mode, u[i - 1])]
    OBVIOUS
  <2> HIDE DEF u
  <2>2. Chosen(u, 0, available, requested, mode)
    BY <2>1 DEF Chosen
  <2> QED
    BY <1>3, <1>4, <2>2
<1>5. CASE k # 0
  <2>1. k - 1 \in Nat /\ k \in Nat /\ ~(k <= k - 1)
    BY <1>3, <1>5
  <2>2. Some(k - 1)
    BY <1>2, <2>1 DEF T
  <2>3. PICK v : Chosen(v, k - 1, available, requested, mode)
    BY <2>2
  <2> DEFINE last == resolve_one(available, requested[k], mode, v[k - 1])
             w == [i \in 0..k |-> IF i < k THEN v[i] ELSE last]
  <2>4. \A j \in 0..k - 1 : v[j] = IF j = 0 THEN [used |-> {}, missing |-> << >>]
                                   ELSE resolve_one(available, requested[j], mode, v[j - 1])
    BY <2>3 DEF Chosen
  <2>5. \A i \in 0..k : w[i] = IF i = 0 THEN [used |-> {}, missing |-> << >>]
                               ELSE resolve_one(available, requested[i], mode, w[i - 1])
    <3> TAKE i \in 0..k
    <3>1. CASE i = k
      <4>1. w[i] = last /\ w[i - 1] = v[k - 1]
        BY <1>5, <2>1, <3>1
      <4> QED
        BY <1>5, <3>1, <4>1
    <3>2. CASE i # k
      <4>1. i \in 0..k - 1 /\ w[i] = v[i] /\ (i # 0 => w[i - 1] = v[i - 1])
        BY <2>1, <3>2
      <4> QED
        BY <2>4, <4>1
    <3> QED
      BY <3>1, <3>2
  <2>6. w = [i \in 0..k |-> w[i]]
    OBVIOUS
  <2> HIDE DEF w
  <2>7. Chosen(w, k, available, requested, mode)
    BY <2>5, <2>6 DEF Chosen
  <2> QED
    BY <1>3, <2>7
<1> QED
  BY <1>4, <1>5

\* However long the lists of sources and requests, and whatever they name: only a
\* request that matches no source is missing, every other one is served by a
\* source that was chosen, one with its very name if there is one, although a
\* request for a part of a name may have used that up before.
THEOREM RequestsAreServed ==
  ASSUME NEW Names, NEW available \in Seq(Names), NEW requested \in Seq(Names), NEW mode
  PROVE  RequestsServed(available, requested, mode)
<1> DEFINE len == Len(requested)
           Inv(chosen, i) == ChosenInv(available, requested, mode, Names, chosen, i)
<1>1. len \in Nat /\ len \in 0..len /\ requested \in [1..len -> Names]
  BY LenProperties
<1>2. PICK u : Chosen(u, len, available, requested, mode)
               /\ resolve_source_names(available, requested, mode) = u[len]
  <2>1. \E u : Chosen(u, len, available, requested, mode)
    BY <1>1, ChosenExists
  <2> QED
    BY <2>1 DEF resolve_source_names, Chosen
<1>3. \A i \in 0..len : u[i] = IF i = 0 THEN [used |-> {}, missing |-> << >>]
                             ELSE resolve_one(available, requested[i], mode, u[i - 1])
  BY <1>2 DEF Chosen
<1>4. Inv(u[0], 0)
  <2>1. u[0] = [used |-> {}, missing |-> << >>]
    BY <1>1, <1>3
  <2>2. /\ u[0].used = {} /\ u[0].missing = << >> /\ Len(<< >>) = 0
        /\ IsFiniteSet({}) /\ Cardinality({}) = 0
    BY <2>1, FS_EmptySet
  <2> QED
    BY <2>2 DEF ChosenInv
<1> DEFINE T == {i \in 0..len : ~Inv(u[i], i)}
<1>5. T = {}
  <2> SUFFICES ASSUME T # {} PROVE FALSE
    OBVIOUS
  <2>1. PICK k \in T : \A j \in T : k <= j
    <3>1. T \in SUBSET Nat
      OBVIOUS
    <3> QED
      BY <3>1, LeastExists
  <2>2. k \in 0..len /\ ~Inv(u[k], k)
    OBVIOUS
  <2>3. k # 0
    BY <1>4, <2>2
  <2>4. k \in 1..len /\ k - 1 \in 0..len /\ ~(k <= k - 1)
    BY <1>1, <2>2, <2>3
  <2>5. Inv(u[k - 1], k - 1)
    BY <2>1, <2>4
  <2>6. u[k] = resolve_one(available, requested[k], mode, u[k - 1])
    BY <1>3, <2>2, <2>3
  <2> QED
    BY <2>2, <2>4, <2>5, <2>6, ChosenStep
<1>6. Inv(u[len], len)
  BY <1>1, <1>5
<1> DEFINE chosen == u[len]
<1>7. ASSUME NEW name \in Range(requested)
      PROVE  /\ name \in Names /\ Handled(available, name, mode, chosen)
  <2>1. PICK j \in 1..len : name = requested[j]
    BY <1>1 DEF Range
  <2> QED
    BY <1>1, <1>6, <2>1 DEF ChosenInv
<1>8. Range(chosen.missing) \subseteq Unserved(available, mode, Names)
  <2>1. chosen.missing \in Seq(Unserved(available, mode, Names))
    BY <1>6 DEF ChosenInv
  <2> QED
    BY <2>1, RangeOfSeq
<1>9. Cardinality(chosen.used) + Len(chosen.missing) <= len
  BY <1>6 DEF ChosenInv
<1> HIDE DEF chosen, len, Inv
<1>10. ASSUME NEW name \in Range(requested)
       PROVE  /\ name \in Range(chosen.missing)
                   <=> \A k \in DOMAIN available : ~Serves(available[k], name, mode)
              /\ name \in Range(chosen.missing)
                   \/ \E k \in chosen.used : Serves(available[k], name, mode)
              /\ name \in Range(available) => \E k \in chosen.used : available[k] = name
  BY <1>7, <1>8 DEF Handled, Unserved
<1>11. resolve_source_names(available, requested, mode) = chosen
  BY <1>2 DEF chosen
<1> QED
  BY <1>9, <1>10, <1>11 DEF RequestsServed, len
=============================================================================
