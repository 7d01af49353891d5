----------------------------- MODULE MCAlgorithms -----------------------------
(***************************************************************************)
(* The numerical code on samples that grow: two of bytes, one of bits, and *)
(* one of which only the length counts.  Each definition is compared with  *)
(* what it is a fast or a one-pass form of, or with another one that       *)
(* computes the same thing.                                                *)
(***************************************************************************)
EXTENDS Lengths, Conditioning, Reports

MaxBytes == 5
MaxBits == 8
MaxLength == 130
Values == {0, 68, 85, 102}
\* On both sides of the lengths at which a test begins or a limit is reached.
LongLengths == {199, 200, 255, 256, 499, 500, 554, 555, 999, 1000, 1023, 1025, 1100, 2049, 2501,
                4097, 4864, 5001, 10001}

VARIABLES a, b, bits      \* and n, the length of one
vars == <<a, b, bits, n>>

Init == a = << >> /\ b = << >> /\ bits = << >> /\ n = 0

GrowA ==
  /\ bits = << >> /\ n = 0 /\ Len(a) + Len(b) < MaxBytes
  /\ \E v \in Values : a' = Append(a, v)
  /\ UNCHANGED <<b, bits, n>>
GrowB ==
  /\ bits = << >> /\ n = 0 /\ Len(a) + Len(b) < MaxBytes
  /\ \E v \in Values : b' = Append(b, v)
  /\ UNCHANGED <<a, bits, n>>
GrowBits ==
  /\ a = << >> /\ b = << >> /\ n = 0 /\ Len(bits) < MaxBits
  /\ \E v \in {0, 1} : bits' = Append(bits, v)
  /\ UNCHANGED <<a, b, n>>
Lengthen ==
  /\ a = << >> /\ b = << >> /\ bits = << >>
  /\ \/ n < MaxLength /\ n' = n + 1
     \/ n = MaxLength /\ n' \in LongLengths
  /\ UNCHANGED <<a, b, bits>>

Next == GrowA \/ GrowB \/ GrowBits \/ Lengthen
Spec == Init /\ [][Next]_vars

----------------------------- (* conditioning *) ----------------------------

XorAll(s) == FoldSeq(LAMBDA x, y : x ^^ y, 0, s)

\* A byte with the two bits of each pair exchanged, and with every bit inverted.
Exchanged(v) == CASE v = 68 -> 136 [] v = 85 -> 170 [] v = 102 -> 153 [] v = 0 -> 0
Inverted(v)  == 255 - v

\* What conditioning keeps of the raw bytes.  Folding keeps their sum, an odd
\* one included; debiasing does not favour a value (exchanging the bits of all
\* pairs inverts the output) nor depend on what comes later; the hash of any
\* output that is at least half as long as its input has seen every raw byte,
\* and a block never hashes none; of the distances between collisions none is
\* left out.
ConditioningKeeps ==
  /\ XorAll(xor_fold(a)) = XorAll(a)
  /\ von_neumann_debias([i \in DOMAIN a |-> Exchanged(a[i])])
       = [i \in DOMAIN von_neumann_debias(a) |-> Inverted(von_neumann_debias(a)[i])]
  /\ IsPrefix(von_neumann_debias(a), von_neumann_debias(a \o b))
  /\ n \in 1 .. MaxLength =>
       \A n_output \in {CeilDiv(n, 2), n, 2 * n} :
         LET hashed == sha256_condition_bytes(n, n_output)
         IN  /\ \A op \in hashed : Sound(op) /\ op.at < op.to
             /\ \A i \in {0, n \div 3, n \div 2, n - 1} : \E op \in hashed : op.at <= i /\ i < op.to
  /\ LET d == collision_distances(a)
         places == collisions(a)
     IN  IF places = {} THEN d.count = 0
         ELSE d.count = Cardinality(places) - 1 /\ d.sum = Max(places) - Min(places)

--------------------------- (* tests of samples *) --------------------------

\* The pairs of an element of a and one of b, by which is greater.
Above == Cardinality({p \in (DOMAIN a) \X (DOMAIN b) : a[p[1]] > b[p[2]]})
Below == Cardinality({p \in (DOMAIN a) \X (DOMAIN b) : a[p[1]] < b[p[2]]})

\* The tests that compare two samples through histograms and cumulated counts
\* agree with comparing all pairs, and with the one that ranks the values: the
\* same U, Cliff's delta from it, and a variance that is zero only when all
\* values are equal; the distance of Kolmogorov and Smirnov is zero exactly
\* when the samples have the same distribution.
RankTestsAgree ==
  LET U == mann_whitney_u_twice(a, b)
      Equal == \A v \in Bytes(a, b) : hist(a, v) * Len(b) = hist(b, v) * Len(a)
  IN  a # << >> /\ b # << >> =>
        /\ U = Len(a) * Len(b) + Above - Below
        /\ rank_sum_twice(a, b) = U + Len(a) * (Len(a) + 1)
        /\ cliffs_greater(a, b) = Above - Below
        /\ mann_whitney_sigma_sq(a, b) >= 0
        /\ mann_whitney_sigma_sq(a, b) = 0 <=> Cardinality(Bytes(a, b)) = 1
        /\ ks_distance(a, b) = 0 <=> Equal

\* Holm's correction is the closure of Bonferroni's.
HolmIsClosedTesting == HolmIsClosure(a, 171, 255)

\* The tests of several groups, some of them empty or of one value, divide by no
\* zero: what each refuses is enough.
GroupsRefused ==
  \A k \in {0, 1, n \div 2, n, n + 1} :
    AllSound(anova(<<n, k, 1>>) \cup levene_test(<<k, n>>) \cup kruskal_wallis(<<k, n, 0>>)
               \cup inter_session_stability(<<n, k, 2>>))

\* All parts: what a corrected comparison of samples rests on.
TestsAgree == RankTestsAgree /\ HolmIsClosedTesting /\ GroupsRefused

------------------------- (* passes over a sample *) ------------------------

\* The longest stretches of a sample on which Test holds, as <<first, last>>.
Stretches(Test(_)) ==
  {<<i, j>> \in (DOMAIN a) \X (DOMAIN a) :
     /\ i <= j /\ \A k \in i .. j : Test(k)
     /\ i = 1 \/ ~Test(i - 1)
     /\ j = Len(a) \/ ~Test(j + 1)}

\* The two passes that look for runs agree, and the runs make up the sample.
RunsAgree ==
  LET dist == run_length_distribution(a)
      runs == runs_analysis(a)
  IN  /\ Total(dist) = Len(a)
      /\ runs.total_runs = Len(dist)
      /\ runs.longest_run = Max({0} \cup Range(dist))

\* The bursts are the stretches of bytes that reach the threshold, in order, each
\* once and the last one too.
BurstsAreMaximal ==
  LET bursts == burst_detection(a, 60)
      High(k) == a[k] >= burst_threshold(a, 60)
  IN  a # << >> =>
        /\ {<<p[1] + 1, p[2] + 1>> : p \in Range(bursts)} = Stretches(High)
        /\ \A i, j \in DOMAIN bursts : i < j => bursts[i][2] + 1 < bursts[j][1]
        /\ Total([i \in DOMAIN bursts |-> bursts[i][2] - bursts[i][1] + 1])
             = Cardinality({k \in DOMAIN a : High(k)})

\* The segments of a drift are a partition of the sample.
SegmentsTile ==
  n \in 2 .. MaxLength =>
    \A k \in {2, 3, 7, n - 1, n} :
      LET segments == drift_segments(n, k)
      IN  k \in 2 .. n =>
            /\ \A p \in segments : p[1] < p[2]
            /\ Cardinality(segments) = k
            /\ Total([p \in segments |-> p[2] - p[1]]) = n
            /\ \A p \in segments : p[2] = n \/ \E q \in segments : q[1] = p[2]

\* The points of a recurrence plot on diagonals and columns of two or more, and
\* the number of those, as counted with one row of lengths at a time.
LinesAgree ==
  LET plot == Recurrent(a, 50)
      InLine(p, dj) == <<p[1] - 1, p[2] - dj>> \in plot \/ <<p[1] + 1, p[2] + dj>> \in plot
      Starts(dj) == {p \in plot : <<p[1] - 1, p[2] - dj>> \notin plot
                                    /\ <<p[1] + 1, p[2] + dj>> \in plot}
  IN  \A dj \in {0, 1} :
        /\ points_in_lines(a, 50, dj) = Cardinality({p \in plot : InLine(p, dj)})
        /\ line_count(a, 50, dj) = Cardinality(Starts(dj))

\* Of the templates that match, those are counted as longer ones that match
\* with one element more.
CountsNest ==
  /\ count_a(a, 1, 50) \subseteq count_b(a, 1, 50)
  /\ count_a(a, 1, 50) = count_b(a, 2, 50)

\* Sessions of whole trials combine to the z of all their trials in one session,
\* in any order and wherever they were cut: what the weights are chosen for.
SessionsCombine ==
  \A w \in {1, 2} :
    LET combined == stouffer_combine(<<a, b>>, w)
    IN  /\ combined = stouffer_combine(<<b, a>>, w)
        /\ Len(a) % w = 0 =>
             /\ combined.total_trials = Len(a \o b) \div w
             /\ combined.stouffer_z = IF Len(a \o b) < w THEN {} ELSE {terminal_z(a \o b, w)}

\* All passes over a sample agree with what they stand for.
ScansAgree ==
  /\ RunsAgree /\ BurstsAreMaximal /\ SegmentsTile /\ LinesAgree /\ CountsNest
  /\ SessionsCombine

------------------------------- (* reports *) -------------------------------

VerdictsOn(x, significant) ==
  LET runs == [longest |-> x \div 100, expected_longest |-> 5000,
               total |-> 300 + x \div 10, expected |-> 300000]
  IN  ForensicVerdicts([value |-> x, significant |-> significant, runs |-> runs])
        @@ ChaosVerdicts(x) @@ AdvancedVerdicts(x)

\* What each statistic is like in random data.
Ideal(metric) ==
  CASE metric \in {"autocorrelation", "bias", "stationarity", "runs", "lyapunov", "rqa_det"} -> 0
    [] metric \in {"hurst", "dfa"} -> 500
    [] OTHER -> 25 * MaxLength

\* No verdict is worse on the next value nearer to that of random data, and none but
\* the forensic ones is given on what is not a number; what is fit for
\* calibration has no bias; and there are verdicts on what was analysed.
VerdictsMonotone ==
  LET Rank == [FAIL |-> 0, WARN |-> 1, PASS |-> 2]
      Between(x, y, z) == (x <= y /\ y <= z) \/ (z <= y /\ y <= x)
      Fit(x, trials) == calibration_check([terminal_z |-> x, bias |-> x, shannon |-> 8000 - x,
                                           trials |-> trials, std_z |-> 1000 - x]) = {}
  IN  /\ \A k \in {n - 1, n + 1}, significant \in BOOLEAN :
           LET here  == VerdictsOn(25 * n, significant)
               there == VerdictsOn(25 * k, significant)
           IN  \A metric \in DOMAIN here :
                 Between(25 * n, 25 * k, Ideal(metric)) => Rank[here[metric]] <= Rank[there[metric]]
      /\ Range(ChaosVerdicts(NaN) @@ AdvancedVerdicts(NaN)) = {"NA"}
      /\ ~Fit(n, 0) /\ (Fit(n, 2) => verdict_bias(CeilDiv(n, 10), FALSE) = "PASS")
      /\ \A config \in SUBSET {"forensic", "chaos", "cross_correlation"} :
           LET report == analyze(<<[forensic |-> [value |-> n, significant |-> FALSE,
                                                  runs |-> [longest |-> 1, expected_longest |-> 0,
                                                            total |-> 1, expected |-> 0]],
                                    chaos |-> NaN]>>, config)
           IN  ~report.across
                 /\ Cardinality(report.sources[1].verdicts) = Cardinality(config \ {"cross_correlation"})

\* The bytes of a stand for the names of sources, those of b for requests, each
\* for the set of its bits.  Requests are served, and without partial names in
\* any order alike.
ResolutionSound ==
  LET Names(s) == [i \in DOMAIN s |-> {p \in {1, 2, 4, 8, 16, 32, 64} : s[i] & p = p}]
      available == Names(a)
      requested == Names(b)
      Used(requests) == resolve_source_names(available, requests, "ExactOnly").used
  IN  /\ \A mode \in {"ExactOnly", "ExactThenSubstringInsensitive"} :
           RequestsServed(available, requested, mode)
      /\ Used(Reverse(requested)) = Used(requested)

\* The latency that is reported was measured, and no other is above it; the
\* stability is 1 exactly when all rounds gave the same, whatever their order.
BenchStatistics ==
  LET halves == [i \in DOMAIN a |-> a[i] \div 17]
  IN  a # << >> =>
        /\ percentile_of(a, 99) = Max(Range(a))
        /\ percentile_of(a, 50) \in Range(a)
        /\ stability_index(halves) \in 0 .. 1000
        /\ stability_index(halves) = 1000 <=> Cardinality(Range(halves)) = 1
        /\ stability_index(halves) = stability_index(Reverse(halves))

\* A source that missed or failed a round is below one with the same averages
\* that did not, and none is above for more failures, however sources are ranked.
ScoresFair ==
  \A rank_by \in {"Balanced", "MinEntropy", "Throughput"}, rounds \in 1 .. 3 :
    \A success, failures \in 0 .. 4 :
      LET Score(k, f) == score_row(rank_by, [min_entropy |-> 10 * n, throughput |-> n + 1, stability |-> 900,
                                             success_rounds |-> k, failures |-> f], MaxLength, rounds)
      IN  /\ Score(success, failures + 1) <= Score(success, failures)
          /\ Score(success, failures) <= Score(success + 1, failures)
          /\ n > 0 /\ (success < rounds \/ failures > 0) => Score(success, failures) < Score(rounds, 0)

\* What is said of samples and sources is in the order of what was measured.
JudgementsSound ==
  /\ a = << >> /\ bits = << >> /\ n <= MaxLength => VerdictsMonotone /\ ScoresFair
  /\ bits = << >> /\ n = 0 => ResolutionSound /\ BenchStatistics

-------------------------------- (* battery *) ------------------------------

\* A shift register of length l gives the sequence s.
Register(s, l) ==
  \E c \in [1 .. l -> {0, 1}] :
    \A i \in l + 1 .. Len(s) : s[i] = Total([k \in 1 .. l |-> c[k] * s[i - k]]) % 2

\* The sums of the rows of a matrix.
Span(matrix) ==
  {[c \in 1 .. Len(matrix[1]) |-> Total([r \in S |-> matrix[r][c]]) % 2] :
     S \in SUBSET (DOMAIN matrix)}

\* The linear complexity is that of the shortest register, and the rank the
\* dimension of the rows; read as a circle, a sequence has every pattern as
\* often as its two continuations, so neither difference of the serial test is
\* negative; the search for templates finds as many as fit side by side.
BatteryAgrees ==
  LET l == Battery!berlekamp_massey(bits)
      matrix == <<SubSeq(bits, 1, 3), SubSeq(bits, 4, 6), SubSeq(bits, 6, 8)>>
      Psi(m) == Battery!psi_sum_sq(bits, m)
      Matches == {i \in 1 .. Len(bits) - 1 : SubSeq(bits, i, i + 1) = <<1, 1>>}
      Apart(M) == \A i, j \in M : i < j => i + 2 <= j
  IN  bits # << >> =>
        /\ Register(bits, l)
        /\ l > 0 => ~Register(bits, l - 1)
        /\ Len(bits) = 8 => Cardinality(Span(matrix)) = 2^Battery!gf2_rank(matrix)
        /\ \A m \in 2 .. 4 : /\ 2 * Psi(m) >= Psi(m - 1)
                             /\ 4 * Psi(m) + (IF m = 2 THEN Len(bits)^2 ELSE Psi(m - 2)) >= 4 * Psi(m - 1)
        /\ Battery!template_matches(bits, <<1, 1>>)
             = Max({Cardinality(M) : M \in {X \in SUBSET Matches : Apart(X)}})
        /\ Battery!cusum(bits) >= AtLeast(Abs(Battery!walk(bits)[Len(bits)]), 1)
=============================================================================
