------------------------- MODULE TuiCollectorProofs -------------------------
(***************************************************************************)
(* Proofs about TuiCollector for any categories, sources and number of     *)
(* collector threads.  The rows on screen are computed by recursion over   *)
(* the categories; what is needed of them, that they are rows and at least *)
(* one, follows from the least place at which it would fail (LeastExists). *)
(***************************************************************************)
EXTENDS TuiCollector, SequenceTheorems, FiniteSetTheorems, WellFoundedInduction, TLAPS

\* Threads that have a job: one at most, and the flag tells whether there is.
OneInv ==
  /\ \A t, u \in Threads : job[t].pc # "none" /\ job[u].pc # "none" => t = u
  /\ collector_flag <=> \E t \in Threads : job[t].pc # "none"

\* Nothing has been published since a mode left a collection behind, and a walk
\* never has two modes that are not the current one.
WalkInv ==
  /\ \A t \in Threads : job[t].pc = "collect" /\ job[t].mode # conditioning_mode =>
       \A s \in Watched : walk[s] = {}
  /\ \A s \in Watched : \A m, n \in walk[s] : m = n

\* A session in which one conditioning is followed was started in the current
\* one; a collector left behind by it has given the session's only odd samples.
SessionInv ==
  /\ session_writer.conditioning \in {conditioning_mode, "any", "none"}
  /\ session_writer.conditioning = "any" => session_writer.odd = {}
  /\ session_writer.conditioning = "none" => session_writer = NoSession
  /\ \A t \in Threads :
       job[t].pc \in {"collect", "record"} /\ job[t].mode # session_writer.conditioning =>
         \A m \in session_writer.odd : m = job[t].mode
  /\ \A m, n \in session_writer.odd : m = n
-----------------------------------------------------------------------------
(* Least and greatest elements.                                            *)

LEMMA LeastExists ==
  ASSUME NEW T \in SUBSET Nat, T # {}
  PROVE  \E x \in T : \A y \in T : x <= y
<1> DEFINE R == OpToRel(<, Nat)
<1>1. IsWellFoundedOn(R, Nat)
  BY NatLessThanWellFounded
<1>2. \A x, y \in Nat : <<y, x>> \in R <=> y < x
  BY DEF OpToRel
<1> HIDE DEF R
<1>3. PICK x \in T : \A y \in T : ~(<<y, x>> \in R)
  BY <1>1, WFMin
<1>4. \A y \in T : x <= y
  <2> TAKE y \in T
  <2>1. x \in Nat /\ y \in Nat
    OBVIOUS
  <2>2. ~(y < x)
    BY <1>2, <1>3, <2>1
  <2> QED
    BY <2>1, <2>2
<1> QED
  BY <1>4

LEMMA MinIs ==
  ASSUME NEW T \in SUBSET Nat, T # {}
  PROVE  Min(T) \in T /\ \A y \in T : Min(T) <= y
BY LeastExists DEF Min

LEMMA MaxIs ==
  ASSUME NEW T \in SUBSET Nat, T # {}, NEW n \in Nat, \A y \in T : y <= n
  PROVE  Max(T) \in T /\ \A y \in T : Max(T) >= y
<1> DEFINE U == {k \in Nat : \A y \in T : y <= k}
<1>1. U \in SUBSET Nat /\ U # {}
  OBVIOUS
<1>2. PICK m \in U : \A k \in U : m <= k
  BY <1>1, LeastExists
<1>3. m \in T
  <2> SUFFICES ASSUME m \notin T PROVE FALSE
    OBVIOUS
  <2>1. m \in Nat /\ \A y \in T : y \in Nat /\ y <= m /\ y # m
    BY <1>2
  <2>2. m # 0
    <3>1. PICK y : y \in T
      OBVIOUS
    <3>2. y \in Nat /\ y <= m /\ y # m /\ m \in Nat
      BY <2>1, <3>1
    <3> QED
      BY <3>2
  <2>3. m - 1 \in U
    BY <2>1, <2>2
  <2> QED
    BY <1>2, <2>1, <2>3
<1>4. \A y \in T : m >= y
  BY <1>2
<1> QED
  BY <1>3, <1>4 DEF Max
-----------------------------------------------------------------------------
(* The rows on screen.                                                     *)

\* Sequences that are not empty, put one after the other.
LEMMA Flattened ==
  ASSUME NEW S, NEW ss \in Seq(Seq(S)), Len(ss) # 0,
         \A i \in 1..Len(ss) : Len(ss[i]) >= 1
  PROVE  FlattenSeq(ss) \in Seq(S) /\ Len(FlattenSeq(ss)) >= 1
<1> DEFINE n == Len(ss)
           Upto(k) == {g \in [1..k -> Seq(S)] :
                         \A i \in 1..k : /\ g[i] = IF i = 1 THEN ss[i] ELSE g[i-1] \o ss[i]
                                         /\ Len(g[i]) >= 1}
<1>1. n \in Nat \ {0} /\ \A i \in 1..n : ss[i] \in Seq(S) /\ Len(ss[i]) >= 1
  BY LenProperties, ElementOfSeq
<1> HIDE DEF n
<1>2. \A k \in 1..n : Upto(k) # {}
  <2> DEFINE T == {k \in 1..n : Upto(k) = {}}
  <2> SUFFICES ASSUME T # {} PROVE FALSE
    OBVIOUS
  <2>1. T \in SUBSET Nat
    OBVIOUS
  <2>2. PICK k \in T : \A j \in T : k <= j
    BY <2>1, LeastExists
  <2>3. k \in 1..n /\ Upto(k) = {}
    OBVIOUS
  <2> HIDE DEF T
  <2>4. CASE k = 1
    <3> DEFINE g == [i \in 1..1 |-> ss[1]]
    <3>1. ss[1] \in Seq(S) /\ Len(ss[1]) >= 1
      BY <1>1
    <3>2. g \in Upto(1)
      BY <3>1
    <3> QED
      BY <2>3, <2>4, <3>2
  <2>5. CASE k # 1
    <3>1. k - 1 \in 1..n /\ k \in Nat
      BY <1>1, <2>3, <2>5
    <3>2. k - 1 \notin T
      BY <2>2, <3>1
    <3>3. PICK g \in [1..k - 1 -> Seq(S)] :
            \A i \in 1..k - 1 : /\ g[i] = IF i = 1 THEN ss[i] ELSE g[i-1] \o ss[i]
                                /\ Len(g[i]) >= 1
      <4>1. Upto(k - 1) # {}
        BY <3>1, <3>2 DEF T
      <4> QED
        BY <4>1
    <3> DEFINE last == g[k - 1] \o ss[k]
               h == [i \in 1..k |-> IF i < k THEN g[i] ELSE last]
    <3>4. g[k - 1] \in Seq(S) /\ Len(g[k - 1]) >= 1 /\ k - 1 \in 1..k - 1
      <4>1. k - 1 \in 1..k - 1
        BY <3>1
      <4> QED
        BY <3>3, <4>1
    <3>5. last \in Seq(S) /\ Len(last) >= 1
      <4>1. ss[k] \in Seq(S)
        BY <1>1, <2>3
      <4>2. last \in Seq(S) /\ Len(last) = Len(g[k - 1]) + Len(ss[k])
        BY <3>4, <4>1, ConcatProperties
      <4>3. Len(g[k - 1]) \in Nat /\ Len(ss[k]) \in Nat
        BY <3>4, <4>1, LenProperties
      <4> DEFINE a == Len(g[k - 1])
                 b == Len(ss[k])
      <4>4. a \in Nat /\ b \in Nat /\ a >= 1 /\ Len(last) = a + b
        BY <3>4, <4>2, <4>3
      <4> HIDE DEF last, a, b
      <4>5. Len(last) >= 1
        BY <4>4
      <4> QED
        BY <4>2, <4>5
    <3>6. h \in [1..k -> Seq(S)]
      BY <3>1, <3>3, <3>5
    <3>7. \A i \in 1..k : /\ h[i] = IF i = 1 THEN ss[i] ELSE h[i-1] \o ss[i]
                          /\ Len(h[i]) >= 1
      <4> TAKE i \in 1..k
      <4>1. CASE i = k
        <5>1. h[i] = last /\ i # 1 /\ h[i - 1] = g[k - 1]
          <6> HIDE DEF last
          <6>1. k \in 1..k /\ ~(k < k) /\ k - 1 \in 1..k /\ k - 1 < k
            BY <3>1
          <6> QED
            BY <2>5, <4>1, <6>1
        <5> QED
          BY <3>5, <4>1, <5>1
      <4>2. CASE i # k
        <5>1. i \in 1..k - 1 /\ h[i] = g[i] /\ (i # 1 => h[i - 1] = g[i - 1])
          BY <3>1, <4>2
        <5>2. g[i] = (IF i = 1 THEN ss[i] ELSE g[i-1] \o ss[i]) /\ Len(g[i]) >= 1
          BY <3>3, <5>1
        <5> HIDE DEF h
        <5> QED
          BY <5>1, <5>2
      <4> QED
        BY <4>1, <4>2
    <3> HIDE DEF h
    <3>8. h \in Upto(k)
      BY <3>6, <3>7
    <3> QED
      BY <2>3, <3>8
  <2> QED
    BY <2>4, <2>5
<1>3. PICK g \in [1..n -> Seq(S)] :
        \A i \in 1..n : /\ g[i] = IF i = 1 THEN ss[i] ELSE g[i-1] \o ss[i]
                        /\ Len(g[i]) >= 1
  <2>1. n \in 1..n
    BY <1>1
  <2>2. Upto(n) # {}
    BY <1>2, <2>1
  <2> QED
    BY <2>2
<1>4. PICK f : f = [i \in 1..n |-> IF i = 1 THEN ss[i] ELSE f[i-1] \o ss[i]]
               /\ FlattenSeq(ss) = f[n]
  <2>1. g = [i \in 1..n |-> IF i = 1 THEN ss[i] ELSE g[i-1] \o ss[i]]
    BY <1>3
  <2>2. \E f : f = [i \in 1..n |-> IF i = 1 THEN ss[i] ELSE f[i-1] \o ss[i]]
    BY <2>1
  <2> QED
    BY <2>2 DEF FlattenSeq, n
<1>5. f[n] = g[n]
  <2> DEFINE T == {i \in 1..n : f[i] # g[i]}
  <2>0. n \in 1..n
    BY <1>1
  <2> SUFFICES ASSUME T # {} PROVE FALSE
    BY <2>0
  <2>1. T \in SUBSET Nat
    OBVIOUS
  <2>2. PICK k \in T : \A j \in T : k <= j
    BY <2>1, LeastExists
  <2>3. k \in 1..n /\ f[k] # g[k]
    OBVIOUS
  <2> HIDE DEF T
  <2>4. k # 1 => f[k - 1] = g[k - 1]
    <3> SUFFICES ASSUME k # 1 PROVE f[k - 1] = g[k - 1]
      OBVIOUS
    <3>1. k - 1 \in 1..n /\ k \in Nat /\ ~(k <= k - 1)
      BY <1>1, <2>3
    <3>2. k - 1 \notin T
      BY <2>2, <3>1
    <3> QED
      BY <3>1, <3>2 DEF T
  <2>5. f[k] = IF k = 1 THEN ss[k] ELSE f[k-1] \o ss[k]
    BY <1>4, <2>3
  <2>6. g[k] = IF k = 1 THEN ss[k] ELSE g[k-1] \o ss[k]
    BY <1>3, <2>3
  <2> QED
    BY <2>3, <2>4, <2>5, <2>6
<1>6. g[n] \in Seq(S) /\ Len(g[n]) >= 1
  <2>1. n \in 1..n
    BY <1>1
  <2> QED
    BY <1>3, <2>1
<1> QED
  BY <1>4, <1>5, <1>6

Row == [cat : Range(Categories), source : Sources \cup {None}]

LEMMA RangeFinite ==
  ASSUME NEW S, NEW f \in Seq(S)
  PROVE  IsFiniteSet(Range(f)) /\ \A i \in 1..Len(f) : f[i] \in Range(f)
<1>1. Len(f) \in Nat /\ DOMAIN f = 1..Len(f) /\ f \in [1..Len(f) -> S]
  BY LenProperties
<1>2. f \in Surjection(1..Len(f), Range(f))
  BY <1>1 DEF Surjection, Range
<1>3. ExistsSurjection(1..Len(f), Range(f))
  BY <1>2 DEF ExistsSurjection
<1> QED
  BY <1>1, <1>3, FS_NatSurjection DEF Range

\* The categories are some, and so are the sources of each.
LEMMA CategoriesAre ==
  /\ Len(Categories) \in Nat \ {0} /\ DOMAIN Categories = 1..Len(Categories)
  /\ \A i \in 1..Len(Categories) :
       /\ Categories[i] \in Range(Categories) /\ Categories[i] \in DOMAIN SourcesOf
       /\ SourcesOf[Categories[i]] \in Seq(Nat)
       /\ Len(SourcesOf[Categories[i]]) \in Nat
       /\ DOMAIN SourcesOf[Categories[i]] = 1..Len(SourcesOf[Categories[i]])
       /\ \A j \in 1..Len(SourcesOf[Categories[i]]) :
            SourcesOf[Categories[i]][j] \in Sources
<1>1. Categories \in Seq(DOMAIN SourcesOf) /\ Categories # << >>
  BY TuiAssumption
<1>2. Len(Categories) \in Nat \ {0} /\ DOMAIN Categories = 1..Len(Categories)
  BY <1>1, EmptySeq, LenProperties
<1>3. ASSUME NEW i \in 1..Len(Categories)
      PROVE  /\ Categories[i] \in Range(Categories) /\ Categories[i] \in DOMAIN SourcesOf
             /\ SourcesOf[Categories[i]] \in Seq(Nat)
             /\ Range(SourcesOf[Categories[i]]) \subseteq Sources
  <2>1. Categories[i] \in DOMAIN SourcesOf /\ Categories[i] \in Range(Categories)
    BY <1>1, <1>2, ElementOfSeq DEF Range
  <2>2. SourcesOf[Categories[i]] \in Seq(Nat)
    BY <2>1, TuiAssumption
  <2>3. Range(SourcesOf[Categories[i]]) \subseteq Sources
    BY <1>2 DEF Sources
  <2> QED
    BY <2>1, <2>2, <2>3
<1>4. ASSUME NEW i \in 1..Len(Categories)
      PROVE  /\ Len(SourcesOf[Categories[i]]) \in Nat
             /\ DOMAIN SourcesOf[Categories[i]] = 1..Len(SourcesOf[Categories[i]])
             /\ \A j \in 1..Len(SourcesOf[Categories[i]]) :
                  SourcesOf[Categories[i]][j] \in Sources
  <2> DEFINE f == SourcesOf[Categories[i]]
  <2>1. f \in Seq(Nat) /\ Range(f) \subseteq Sources
    BY <1>3
  <2> HIDE DEF f
  <2>2. Len(f) \in Nat /\ DOMAIN f = 1..Len(f) /\ \A j \in 1..Len(f) : f[j] \in Range(f)
    BY <2>1, LenProperties, RangeFinite
  <2> QED
    BY <2>1, <2>2 DEF f
<1> QED
  BY <1>2, <1>3, <1>4

LEMMA SourcesFinite ==
  IsFiniteSet(Sources) /\ Sources \subseteq Nat /\ None \notin Sources
  /\ IsFiniteSet(Range(Categories))
<1> DEFINE of == [i \in 1..Len(Categories) |-> Range(SourcesOf[Categories[i]])]
           all == {Range(SourcesOf[Categories[i]]) : i \in DOMAIN Categories}
<1>1. \A i \in 1..Len(Categories) : SourcesOf[Categories[i]] \in Seq(Nat)
  BY CategoriesAre
<1>2. \A i \in 1..Len(Categories) :
        /\ IsFiniteSet(Range(SourcesOf[Categories[i]]))
        /\ Range(SourcesOf[Categories[i]]) \subseteq Nat
  <2> TAKE i \in 1..Len(Categories)
  <2> DEFINE f == SourcesOf[Categories[i]]
  <2>1. f \in Seq(Nat)
    BY <1>1
  <2> HIDE DEF f
  <2>2. IsFiniteSet(Range(f)) /\ DOMAIN f = 1..Len(f)
    BY <2>1, RangeFinite, LenProperties
  <2>3. \A j \in 1..Len(f) : f[j] \in Nat
    BY <2>1, ElementOfSeq
  <2>4. Range(f) \subseteq Nat
    BY <2>2, <2>3 DEF Range
  <2> QED
    BY <2>2, <2>4 DEF f
<1>3. IsFiniteSet(all)
  <2>1. of \in Surjection(1..Len(Categories), all)
    BY CategoriesAre DEF Surjection
  <2>2. ExistsSurjection(1..Len(Categories), all)
    BY <2>1 DEF ExistsSurjection
  <2> HIDE DEF all
  <2> QED
    BY <2>2, CategoriesAre, FS_NatSurjection
<1>4. (\A T \in all : IsFiniteSet(T)) /\ UNION all \subseteq Nat
  BY <1>2, CategoriesAre
<1>5. IsFiniteSet(UNION all)
  <2> HIDE DEF all
  <2> QED
    BY <1>3, <1>4, FS_UNION
<1>6. Sources = UNION all
  BY DEF Sources
<1>7. IsFiniteSet(Range(Categories))
  BY TuiAssumption, RangeFinite
<1>8. Sources \subseteq Nat
  BY <1>4, <1>6
<1>9. None \notin Sources
  BY <1>8 DEF None
<1> QED
  BY <1>5, <1>6, <1>7, <1>8, <1>9

\* Whatever is collapsed, there are rows: headers of categories, and sources.
LEMMA RowsAre ==
  ASSUME NEW C
  PROVE  /\ build_virtual_rows(C) \in Seq(Row)
         /\ Len(build_virtual_rows(C)) \in Nat /\ Len(build_virtual_rows(C)) >= 1
         /\ DOMAIN build_virtual_rows(C) = 1..Len(build_virtual_rows(C))
<1> DEFINE under(c) == IF c \in C THEN << >>
                       ELSE [j \in DOMAIN SourcesOf[c] |->
                               [cat |-> c, source |-> SourcesOf[c][j]]]
           part(c) == <<Header(c)>> \o under(c)
           ss == [i \in DOMAIN Categories |-> part(Categories[i])]
           n == Len(Categories)
<1>1. n \in Nat \ {0} /\ DOMAIN Categories = 1..n
  BY CategoriesAre
<1>2. ASSUME NEW i \in 1..n
      PROVE  part(Categories[i]) \in Seq(Row) /\ Len(part(Categories[i])) >= 1
  <2> DEFINE c == Categories[i]
             f == SourcesOf[c]
             u == under(c)
             h == <<Header(c)>>
  <2>1. /\ c \in Range(Categories) /\ Len(f) \in Nat /\ DOMAIN f = 1..Len(f)
        /\ \A j \in 1..Len(f) : f[j] \in Sources
    BY CategoriesAre
  <2>2. under(c) \in Seq(Row)
    <3>1. CASE c \in C
      <4>1. under(c) = << >>
        BY <3>1
      <4> QED
        BY <4>1, EmptySeq
    <3>2. CASE c \notin C
      <4> HIDE DEF c, f
      <4> DEFINE g == [j \in 1..Len(f) |-> [cat |-> c, source |-> f[j]]]
      <4>1. g \in [1..Len(f) -> Row]
        BY <2>1 DEF Row
      <4>2. g \in Seq(Row)
        BY <2>1, <4>1, SeqDef
      <4>3. under(c) = g
        BY <2>1, <3>2 DEF f
      <4> QED
        BY <4>2, <4>3
    <3> QED
      BY <3>1, <3>2
  <2>3. Header(c) \in Row
    BY <2>1 DEF Header, Row
  <2> HIDE DEF c, u, under
  <2>4. h \in Seq(Row) /\ Len(h) = 1
    BY <2>3
  <2> HIDE DEF h
  <2>5. h \o u \in Seq(Row) /\ Len(h \o u) = Len(h) + Len(u)
    BY <2>2, <2>4, ConcatProperties DEF u
  <2>6. Len(u) \in Nat
    BY <2>2, LenProperties DEF u
  <2>7. Len(h \o u) >= 1
    BY <2>4, <2>5, <2>6
  <2> QED
    BY <2>5, <2>7 DEF h, u, c
<1>3. ss \in Seq(Seq(Row)) /\ Len(ss) = n
  <2> HIDE DEF part, n
  <2>1. ss \in [1..n -> Seq(Row)]
    BY <1>1, <1>2
  <2>2. ss \in Seq(Seq(Row))
    BY <1>1, <2>1, SeqDef
  <2> HIDE DEF ss
  <2>3. Len(ss) = n
    BY <1>1, <2>1, <2>2, LenProperties
  <2> QED
    BY <2>2, <2>3
<1>4. \A i \in 1..Len(ss) : Len(ss[i]) >= 1
  <2> HIDE DEF part
  <2> QED
    BY <1>1, <1>2, <1>3
<1>5. build_virtual_rows(C) = FlattenSeq(ss)
  BY DEF build_virtual_rows
<1> HIDE DEF ss
<1>6. Len(ss) # 0
  BY <1>1, <1>3
<1>7. FlattenSeq(ss) \in Seq(Row) /\ Len(FlattenSeq(ss)) >= 1
  BY <1>3, <1>4, <1>6, Flattened
<1> QED
  BY <1>5, <1>7, LenProperties
-----------------------------------------------------------------------------
(* The source list.                                                        *)

ListTyped ==
  /\ cursor \in Nat /\ active \in Sources \cup {None} /\ selected \subseteq Sources
  /\ collapsed \subseteq Range(Categories)

RestTyped ==
  /\ show_help \in BOOLEAN /\ running \in BOOLEAN /\ paused \in BOOLEAN
  /\ conditioning_mode \in Modes /\ recording \in BOOLEAN
  /\ collector_flag \in BOOLEAN
  /\ job \in [Threads -> Jobs]
  /\ session_writer \in Sessions
  /\ walk \in [Watched -> SUBSET Modes]

\* A thread that still has to publish or to record does so with the source and
\* the mode it captured.
JobInv ==
  \A t \in Threads : job[t].pc \in {"collect", "record"} =>
    job[t].mode \in Modes /\ job[t].name \in Sources

LEMMA Parts == TypeOK <=> ListTyped /\ RestTyped
BY DEF TypeOK, ListTyped, RestTyped

LEMMA RowAt ==
  ASSUME ListTyped, cursor \in DOMAIN virtual_rows
  PROVE  /\ virtual_rows[cursor].cat \in Range(Categories)
         /\ virtual_rows[cursor].source \in Sources \cup {None}
         /\ cursor >= 1
         /\ \A i \in DOMAIN virtual_rows : i \in Nat /\ i <= Len(virtual_rows) /\ i >= 1
         /\ Len(virtual_rows) \in Nat /\ DOMAIN virtual_rows = 1..Len(virtual_rows)
<1>1. /\ virtual_rows \in Seq(Row) /\ Len(virtual_rows) \in Nat
      /\ DOMAIN virtual_rows = 1..Len(virtual_rows)
  BY RowsAre DEF virtual_rows
<1>2. virtual_rows[cursor] \in Row
  BY <1>1, ElementOfSeq
<1>3. virtual_rows[cursor].cat \in Range(Categories)
      /\ virtual_rows[cursor].source \in Sources \cup {None}
  BY <1>2 DEF Row
<1> QED
  BY <1>1, <1>3

\* Two numbers, and three.
LEMMA MaxWithOne ==
  ASSUME NEW n \in Int
  PROVE  Max({1, n}) = IF n >= 1 THEN n ELSE 1
<1> DEFINE m == IF n >= 1 THEN n ELSE 1
<1>1. m \in {1, n} /\ \A y \in {1, n} : m >= y
  OBVIOUS
<1>2. \A x \in {1, n} : (\A y \in {1, n} : x >= y) => x = m
  OBVIOUS
<1> HIDE DEF m
<1>3. Max({1, n}) = m
  BY <1>1, <1>2 DEF Max
<1> QED
  BY <1>3 DEF m

LEMMA MinOfTwo ==
  ASSUME NEW a \in Nat, NEW b \in Nat
  PROVE  Min({a, b}) = IF a <= b THEN a ELSE b
<1> DEFINE m == IF a <= b THEN a ELSE b
<1>1. m \in {a, b} /\ \A y \in {a, b} : m <= y
  OBVIOUS
<1>2. \A x \in {a, b} : (\A y \in {a, b} : x <= y) => x = m
  OBVIOUS
<1> HIDE DEF m
<1>3. Min({a, b}) = m
  BY <1>1, <1>2 DEF Min
<1> QED
  BY <1>3 DEF m

\* Collapsing takes the cursor to a row there still is.
LEMMA Collapsed ==
  ASSUME ListTyped, cursor \in DOMAIN virtual_rows, NEW C, Collapse(C)
  PROVE  cursor' \in Nat /\ cursor' \in DOMAIN virtual_rows'
<1> DEFINE n == Len(build_virtual_rows(C))
<1>1. n \in Nat /\ n >= 1 /\ DOMAIN build_virtual_rows(C) = 1..n
  BY RowsAre
<1>2. cursor \in Nat /\ cursor >= 1
  BY RowAt DEF ListTyped
<1>3. cursor' = Min({cursor, Max({1, n})}) /\ virtual_rows' = build_virtual_rows(C)
  <2>1. virtual_rows' = build_virtual_rows(collapsed')
    BY DEF virtual_rows, build_virtual_rows
  <2> QED
    BY <2>1 DEF Collapse, Clamped
<1> HIDE DEF n
<1>4. Max({1, n}) = n
  BY <1>1, MaxWithOne
<1>5. cursor' = IF cursor <= n THEN cursor ELSE n
  BY <1>1, <1>2, <1>3, <1>4, MinOfTwo
<1> QED
  BY <1>1, <1>2, <1>3, <1>5

\* Up, down and the jumps stay on rows.
LEMMA Moved ==
  ASSUME ListTyped, cursor \in DOMAIN virtual_rows, MoveCursor
  PROVE  cursor' \in Nat /\ cursor' \in DOMAIN virtual_rows'
<1> DEFINE n == Len(virtual_rows)
           before == {i \in Headers : i < cursor}
           after == {i \in Headers : i > cursor}
<1>1. /\ cursor \in Nat /\ cursor >= 1 /\ n \in Nat /\ cursor <= n
      /\ DOMAIN virtual_rows = 1..n /\ Headers \subseteq 1..n
  BY RowAt DEF ListTyped, Headers
<1>2. virtual_rows' = virtual_rows
  BY DEF MoveCursor, virtual_rows, build_virtual_rows
<1>3. /\ before \in SUBSET Nat /\ after \in SUBSET Nat
      /\ before \subseteq 1..n /\ after \subseteq 1..n /\ \A i \in before : i <= n
  <2>1. before \subseteq Headers /\ after \subseteq Headers
    OBVIOUS
  <2> HIDE DEF n, before, after
  <2>2. before \subseteq 1..n /\ after \subseteq 1..n
    BY <1>1, <2>1
  <2> QED
    BY <1>1, <2>2
<1>4. cursor' \in {Max({1, cursor - 1}),
                   IF cursor < n THEN cursor + 1 ELSE cursor,
                   IF before = {} THEN cursor ELSE Max(before),
                   IF after = {} THEN cursor ELSE Min(after)}
  BY DEF MoveCursor
<1> HIDE DEF n, before, after
<1>5. Max({1, cursor - 1}) \in 1..n
  <2>1. cursor - 1 \in Int
    BY <1>1
  <2>2. Max({1, cursor - 1}) = IF cursor - 1 >= 1 THEN cursor - 1 ELSE 1
    BY <2>1, MaxWithOne
  <2> QED
    BY <1>1, <2>2
<1>6. (IF cursor < n THEN cursor + 1 ELSE cursor) \in 1..n
  BY <1>1
<1>7. (IF before = {} THEN cursor ELSE Max(before)) \in 1..n
  <2>1. before # {} => Max(before) \in before
    BY <1>1, <1>3, MaxIs
  <2> QED
    BY <1>1, <1>3, <2>1
<1>8. (IF after = {} THEN cursor ELSE Min(after)) \in 1..n
  <2>1. after # {} => Min(after) \in after
    BY <1>3, MinIs
  <2> QED
    BY <1>1, <1>3, <2>1
<1>9. cursor' \in 1..n
  BY <1>4, <1>5, <1>6, <1>7, <1>8
<1> QED
  BY <1>1, <1>2, <1>9

LEMMA ListAtFirst ==
  ASSUME Init
  PROVE  ListTyped /\ SelectionOnScreen
<1> DEFINE rows == build_virtual_rows({})
           first == {i \in DOMAIN rows : rows[i].source # None}
<1>1. rows \in Seq(Row) /\ Len(rows) \in Nat /\ Len(rows) >= 1 /\ DOMAIN rows = 1..Len(rows)
  BY RowsAre
<1>2. /\ cursor = IF first = {} THEN 1 ELSE Min(first)
      /\ active = IF first = {} THEN None ELSE rows[Min(first)].source
      /\ selected = {active} \ {None} /\ collapsed = {}
  BY DEF Init
<1>3. virtual_rows = rows
  BY <1>2 DEF virtual_rows
<1> HIDE DEF rows
<1>4. first \in SUBSET Nat /\ first \subseteq 1..Len(rows)
  BY <1>1
<1>5. CASE first = {}
  <2>1. cursor = 1 /\ active = None /\ selected = {}
    BY <1>2, <1>5
  <2>2. 1 \in 1..Len(rows)
    BY <1>1
  <2>3. cursor \in DOMAIN virtual_rows
    BY <1>1, <1>3, <2>1, <2>2
  <2>4. ListTyped
    BY <1>2, <2>1 DEF ListTyped
  <2> QED
    BY <2>1, <2>3, <2>4 DEF SelectionOnScreen
<1>6. CASE first # {}
  <2>1. Min(first) \in first
    BY <1>4, <1>6, MinIs
  <2>2. cursor \in 1..Len(rows) /\ active = rows[cursor].source /\ active # None
    BY <1>1, <1>2, <1>6, <2>1
  <2>3. rows[cursor] \in Row
    BY <1>1, <2>2, ElementOfSeq
  <2>4. active \in Sources
    BY <2>2, <2>3 DEF Row
  <2>5. selected = {active}
    BY <1>2, <2>2
  <2>6. cursor \in Nat /\ cursor \in DOMAIN virtual_rows
    BY <1>1, <1>3, <2>2
  <2> QED
    BY <1>2, <2>4, <2>5, <2>6 DEF ListTyped, SelectionOnScreen
<1> QED
  BY <1>5, <1>6

\* Steps that leave the source list alone.
LEMMA ListKept ==
  ASSUME ListTyped, SelectionOnScreen, UNCHANGED list
  PROVE  ListTyped' /\ SelectionOnScreen'
BY DEF list, ListTyped, SelectionOnScreen, virtual_rows, build_virtual_rows

LEMMA ListStep ==
  ASSUME ListTyped, SelectionOnScreen, [Next]_vars
  PROVE  ListTyped' /\ SelectionOnScreen'
<1>1. cursor \in DOMAIN virtual_rows
  BY DEF SelectionOnScreen
<1> DEFINE s == virtual_rows[cursor].source
<1>2. /\ s \in Sources \cup {None} /\ virtual_rows[cursor].cat \in Range(Categories)
      /\ ~IsHeader(cursor) => s \in Sources
  BY <1>1, RowAt DEF IsHeader
<1>3. ASSUME UNCHANGED <<cursor, collapsed>> PROVE cursor' \in Nat /\ cursor' \in DOMAIN virtual_rows'
  BY <1>1, <1>3 DEF virtual_rows, build_virtual_rows, ListTyped
<1>4. CASE MoveCursor
  BY <1>1, <1>4, Moved DEF MoveCursor, ListTyped, SelectionOnScreen
<1>5. CASE ToggleCategory
  <2> DEFINE c == virtual_rows[cursor].cat
             C == IF c \in collapsed THEN collapsed \ {c} ELSE collapsed \cup {c}
  <2>1. Collapse(C) /\ UNCHANGED <<active, selected>>
    BY <1>5 DEF ToggleCategory
  <2>2. C \subseteq Range(Categories)
    BY <1>2 DEF ListTyped
  <2> HIDE DEF C
  <2>3. collapsed' = C
    BY <2>1 DEF Collapse
  <2> QED
    BY <1>1, <2>1, <2>2, <2>3, Collapsed DEF ListTyped, SelectionOnScreen
<1>6. CASE CollapseAll
  <2> DEFINE C == IF collapsed = Range(Categories) THEN {} ELSE Range(Categories)
  <2>1. Collapse(C) /\ UNCHANGED <<active, selected>>
    BY <1>6 DEF CollapseAll
  <2>2. C \subseteq Range(Categories)
    OBVIOUS
  <2> HIDE DEF C
  <2>3. collapsed' = C
    BY <2>1 DEF Collapse
  <2> QED
    BY <1>1, <2>1, <2>2, <2>3, Collapsed DEF ListTyped, SelectionOnScreen
<1>7. CASE Deselect
  <2>1. /\ s \in selected /\ selected' = selected \ {s}
        /\ active' = IF active # s THEN active
                     ELSE IF selected' = {} THEN None ELSE Min(selected')
        /\ UNCHANGED <<cursor, collapsed>>
    BY <1>7 DEF Deselect
  <2>2. active \in selected /\ selected \subseteq Sources /\ Sources \subseteq Nat
    BY <2>1, SourcesFinite DEF SelectionOnScreen, ListTyped
  <2>3. selected' # {} => Min(selected') \in selected'
    BY <2>1, <2>2, MinIs
  <2>4. selected' \subseteq Sources /\ active' \in Sources \cup {None}
        /\ (IF selected' = {} THEN active' = None ELSE active' \in selected')
    BY <2>1, <2>2, <2>3
  <2>5. collapsed' \subseteq Range(Categories)
    BY <2>1 DEF ListTyped
  <2> QED
    BY <1>3, <2>1, <2>4, <2>5 DEF ListTyped, SelectionOnScreen
<1>8. CASE Select
  <2>1. /\ ~IsHeader(cursor) /\ selected' = selected \cup {s} /\ active' = s
        /\ UNCHANGED <<cursor, collapsed>>
    BY <1>8 DEF Select
  <2>2. s \in Sources /\ selected' \subseteq Sources /\ collapsed' \subseteq Range(Categories)
    BY <1>2, <2>1 DEF ListTyped
  <2> QED
    BY <1>3, <2>1, <2>2 DEF ListTyped, SelectionOnScreen
<1>9. CASE DismissHelp \/ ShowHelp \/ Pause \/ CycleConditioning \/ CycleSizeOrMode
           \/ start_recording \/ StopRecording \/ Quit \/ AfterQuit \/ Tick \/ UNCHANGED vars
  <2>1. UNCHANGED list
    BY <1>9 DEF DismissHelp, ShowHelp, Pause, CycleConditioning, CycleSizeOrMode,
       start_recording, StopRecording, stop_recording, Quit, AfterQuit, Tick, vars
  <2> QED
    BY <2>1, ListKept
<1>10. ASSUME NEW t \in Threads, Collector(t) PROVE ListTyped' /\ SelectionOnScreen'
  <2>1. UNCHANGED list
    BY <1>10 DEF Collector, Publish, Published, RecordOne, Panics, CollectorExits
  <2> QED
    BY <2>1, ListKept
<1> QED
  BY <1>4, <1>5, <1>6, <1>7, <1>8, <1>9, <1>10 DEF Next

(* However keys select, deselect, move and collapse, the source shown is one *)
(* of those selected, one is shown as long as one is selected, and the       *)
(* cursor is on a row, where handle_key may index virtual_rows: for any      *)
(* categories and sources, provided there are some.                          *)
THEOREM SelectionStays == Spec => []SelectionOnScreen
<1>1. Init => ListTyped /\ SelectionOnScreen
  BY ListAtFirst
<1>2. ListTyped /\ SelectionOnScreen /\ [Next]_vars => ListTyped' /\ SelectionOnScreen'
  BY ListStep
<1> QED
  BY <1>1, <1>2, PTL DEF Spec

-----------------------------------------------------------------------------
(* The collector threads.                                                  *)

\* A collection of a starts in mode m, in a thread that had nothing to do.
Starts(a, m) ==
  /\ ~collector_flag /\ collector_flag' = TRUE
  /\ \E t \in Threads : \E X \in SUBSET Sources :
       /\ job[t].pc = "none"
       /\ job' = [job EXCEPT ![t] = [pc |-> "collect", name |-> a, mode |-> m, todo |-> X]]

LEMMA KickStarts ==
  ASSUME NEW a \in Sources \cup {None}, NEW m \in Modes, NEW sel \in SUBSET Sources,
         RestTyped, Kick(a, m, sel)
  PROVE  UNCHANGED thread \/ (a \in Sources /\ Starts(a, m))
<1>1. CASE collector_flag \/ a = None \/ Idle = {}
  BY <1>1 DEF Kick
<1>2. CASE ~(collector_flag \/ a = None \/ Idle = {})
  <2> DEFINE X == IF recording THEN sel \ {a} ELSE {}
             t == Min(Idle)
  <2>1. a \in Sources /\ X \in SUBSET Sources
    BY <1>2
  <2>2. t \in Idle
    <3>1. Idle \in SUBSET Nat /\ Idle # {}
      BY <1>2, TuiAssumption DEF Idle, Threads
    <3> QED
      BY <3>1, MinIs
  <2>3. /\ collector_flag' = TRUE
        /\ job' = [job EXCEPT ![t] = [pc |-> "collect", name |-> a, mode |-> m, todo |-> X]]
    BY <1>2 DEF Kick
  <2> HIDE DEF X, t
  <2>4. t \in Threads /\ job[t].pc = "none"
    BY <2>2 DEF Idle
  <2> QED
    BY <1>2, <2>1, <2>3, <2>4 DEF Starts
<1> QED
  BY <1>1, <1>2

\* A session without odd samples, if one is open, in mode m or in no one mode.
Plain(w, m) == w.odd = {} /\ (w = NoSession \/ w.conditioning \in {m, "any"})

\* A step leaves the threads alone, starts a collection in the mode there is
\* then, or is a collector's; and when the mode changes, the walks start again
\* and the session is no longer followed.
LEMMA ThreadStep ==
  ASSUME TypeOK, SelectionOnScreen, [Next]_vars
  PROVE  \/ /\ \/ UNCHANGED thread
               \/ \E a \in Sources : \E m \in Modes : m = conditioning_mode' /\ Starts(a, m)
            /\ conditioning_mode' \in Modes
            /\ \/ UNCHANGED <<conditioning_mode, walk>>
               \/ walk' = [s \in Watched |-> {}]
            /\ \/ UNCHANGED <<conditioning_mode, session_writer>>
               \/ Plain(session_writer', conditioning_mode')
         \/ \E t \in Threads : Collector(t)
<1>1. ListTyped' /\ ListTyped /\ RestTyped
  BY ListStep, Parts
<1>2. active \in Sources \cup {None} /\ active' \in Sources \cup {None}
      /\ selected \in SUBSET Sources /\ selected' \in SUBSET Sources
  BY <1>1 DEF ListTyped
<1>3. conditioning_mode \in Modes
  BY <1>1 DEF RestTyped
<1>4. ASSUME NEW m \in Modes, Kick(active, m, selected)
      PROVE  UNCHANGED thread \/ \E a \in Sources : Starts(a, m)
  <2>1. PICK a \in Sources \cup {None} : a = active
    BY <1>2
  <2>2. PICK sel \in SUBSET Sources : sel = selected
    BY <1>2
  <2>3. Kick(a, m, sel)
    BY <1>4, <2>1, <2>2
  <2> QED
    BY <1>1, <2>3, KickStarts
<1>5. CASE Select
  <2> DEFINE r == virtual_rows[cursor].source
  <2>1. /\ ~IsHeader(cursor) /\ selected' = selected \cup {r}
        /\ Kick(r, conditioning_mode, selected')
        /\ UNCHANGED <<conditioning_mode, walk, session_writer>>
    BY <1>5 DEF Select, modes, shared
  <2>2. PICK a \in Sources \cup {None} : a = r
    BY <1>1, RowAt DEF SelectionOnScreen
  <2>3. PICK sel \in SUBSET Sources : sel = selected'
    BY <1>2
  <2>4. PICK m \in Modes : m = conditioning_mode
    BY <1>3
  <2> HIDE DEF r
  <2>5. Kick(a, m, sel)
    BY <2>1, <2>2, <2>3, <2>4
  <2>6. UNCHANGED thread \/ (a \in Sources /\ Starts(a, m))
    BY <1>1, <2>5, KickStarts
  <2> QED
    BY <1>3, <2>1, <2>4, <2>6
<1>6. CASE CycleConditioning
  <2>1. conditioning_mode' \in Modes
    BY <1>3, <1>6 DEF CycleConditioning, next_conditioning, Modes
  <2>2. PICK m \in Modes : m = conditioning_mode'
    BY <2>1
  <2>3. Kick(active, m, selected)
    BY <1>6, <2>2 DEF CycleConditioning
  <2>4. UNCHANGED thread \/ \E a \in Sources : Starts(a, m)
    BY <1>4, <2>3
  <2>5. walk' = [s \in Watched |-> {}] /\ session_writer' = Remixed(session_writer)
    BY <1>6 DEF CycleConditioning
  <2>6. Plain(session_writer', conditioning_mode')
    BY <1>1, <2>5 DEF Plain, Remixed, NoSession, RestTyped, Sessions
  <2> QED
    BY <2>1, <2>2, <2>4, <2>5, <2>6
<1>7. CASE CycleSizeOrMode \/ Tick
  <2>1. PICK m \in Modes : m = conditioning_mode
    BY <1>3
  <2>2. Kick(active, m, selected) /\ UNCHANGED <<conditioning_mode, walk, session_writer>>
    BY <1>7, <2>1 DEF CycleSizeOrMode, Tick, modes, shared
  <2>3. UNCHANGED thread \/ \E a \in Sources : Starts(a, m)
    BY <1>4, <2>2
  <2> QED
    BY <1>3, <2>1, <2>2, <2>3
<1>8. CASE DismissHelp \/ ShowHelp \/ Pause \/ MoveCursor \/ ToggleCategory \/ CollapseAll
           \/ Deselect \/ Quit \/ UNCHANGED vars
  <2>1. UNCHANGED thread /\ UNCHANGED <<conditioning_mode, walk, session_writer>>
    BY <1>8 DEF DismissHelp, ShowHelp, Pause, MoveCursor, ToggleCategory, CollapseAll,
       Deselect, Quit, vars, modes, shared
  <2> QED
    BY <1>3, <2>1
<1>9. CASE start_recording \/ StopRecording \/ AfterQuit
  <2>1. UNCHANGED thread /\ UNCHANGED <<conditioning_mode, walk>>
    BY <1>9 DEF start_recording, StopRecording, stop_recording, AfterQuit
  <2>2. Plain(session_writer', conditioning_mode')
    BY <1>9, <2>1 DEF start_recording, StopRecording, stop_recording, AfterQuit, Plain, NoSession
  <2> QED
    BY <1>3, <2>1, <2>2
<1> QED
  BY <1>5, <1>6, <1>7, <1>8, <1>9 DEF Next

\* What becomes of the job of a collector that takes a step, and of the session.
LEMMA CollectorStep ==
  ASSUME RestTyped, JobInv, NEW t \in Threads, Collector(t)
  PROVE  /\ UNCHANGED <<list, modes>>
         /\ job[t].pc # "none" /\ job'[t] \in Jobs
         /\ job' = [u \in Threads |-> IF u = t THEN job'[t] ELSE job[u]]
         /\ job'[t].pc # "collect"
         /\ job'[t].pc = "record" =>
              job[t].pc \in {"collect", "record"}
              /\ job'[t].mode = job[t].mode /\ job'[t].name = job[t].name
         /\ \/ /\ job'[t].pc # "none" /\ UNCHANGED collector_flag
            \/ job'[t].pc = "none" /\ collector_flag' = FALSE
         /\ walk' \in [Watched -> SUBSET Modes]
         /\ \/ UNCHANGED walk
            \/ /\ job[t].pc = "collect"
               /\ \A s \in Watched : walk'[s] = walk[s]
                                  \/ walk'[s] = walk[s] \cup ({job[t].mode} \ {conditioning_mode})
         /\ session_writer' \in Sessions
         /\ \/ UNCHANGED session_writer
            \/ /\ job[t].pc = "record" /\ session_writer.sources # {}
               /\ session_writer.conditioning \notin {job[t].mode, "any"}
               /\ session_writer' =
                    [session_writer EXCEPT !.odd = session_writer.odd \cup {job[t].mode}]
<1>1. /\ job \in [Threads -> Jobs] /\ walk \in [Watched -> SUBSET Modes]
      /\ session_writer \in Sessions
  BY DEF RestTyped
<1>2. job[t] \in Jobs
  BY <1>1
<1>3. /\ NoJob \in Jobs /\ NoJob.pc = "none"
      /\ Exiting \in Jobs /\ Exiting.pc = "exit"
  BY DEF NoJob, Exiting, Jobs
<1> DEFINE Replaces(j) == job' = [u \in Threads |-> IF u = t THEN j ELSE job[u]]
<1>4. ASSUME NEW j, job' = [job EXCEPT ![t] = j] PROVE Replaces(j) /\ job'[t] = j
  BY <1>1, <1>4
<1>5. CASE RecordOne(t)
  <2>1. PICK s \in NextToRecord(job[t]) :
          /\ write_sample(s, job[t].mode) \/ UNCHANGED session_writer
          /\ job' = [job EXCEPT ![t] = IF job[t].todo = {s} THEN Exiting
                                       ELSE [job[t] EXCEPT !.todo = job[t].todo \ {s}]]
    BY <1>5 DEF RecordOne
  <2>2. /\ job[t].pc = "record" /\ UNCHANGED <<list, modes, collector_flag, walk>>
        /\ job[t].mode \in Modes
    BY <1>5 DEF RecordOne, JobInv
  <2>3. /\ session_writer' \in Sessions
        /\ \/ UNCHANGED session_writer
           \/ /\ session_writer.sources # {}
              /\ session_writer.conditioning \notin {job[t].mode, "any"}
              /\ session_writer' =
                   [session_writer EXCEPT !.odd = session_writer.odd \cup {job[t].mode}]
    BY <1>1, <2>1, <2>2 DEF write_sample, Sessions
  <2>4. CASE job[t].todo = {s}
    <3>1. job' = [job EXCEPT ![t] = Exiting]
      BY <2>1, <2>4
    <3>2. Replaces(Exiting) /\ job'[t] = Exiting
      BY <1>4, <3>1
    <3> QED
      BY <1>1, <1>3, <2>2, <2>3, <3>2
  <2>5. CASE job[t].todo # {s}
    <3> DEFINE j == [job[t] EXCEPT !.todo = job[t].todo \ {s}]
    <3>1. j \in Jobs /\ j.pc = "record" /\ j.mode = job[t].mode /\ j.name = job[t].name
      BY <1>2, <2>2 DEF Jobs
    <3>2. job' = [job EXCEPT ![t] = j]
      BY <2>1, <2>5
    <3> HIDE DEF j
    <3>3. Replaces(j) /\ job'[t] = j
      BY <1>4, <3>2
    <3> QED
      BY <1>1, <2>2, <2>3, <3>1, <3>3
  <2> QED
    BY <2>4, <2>5
<1>6. CASE Panics(t)
  <2>1. /\ job[t].pc # "none" /\ UNCHANGED <<list, modes, collector_flag, shared>>
        /\ job' = [job EXCEPT ![t] = Exiting]
    BY <1>6 DEF Panics
  <2>2. Replaces(Exiting) /\ job'[t] = Exiting
    BY <1>4, <2>1
  <2> QED
    BY <1>1, <1>3, <2>1, <2>2 DEF shared
<1>7. CASE CollectorExits(t)
  <2>1. /\ job[t].pc = "exit" /\ UNCHANGED <<list, modes, shared>> /\ collector_flag' = FALSE
        /\ job' = [job EXCEPT ![t] = NoJob]
    BY <1>7 DEF CollectorExits
  <2>2. Replaces(NoJob) /\ job'[t] = NoJob
    BY <1>4, <2>1
  <2> QED
    BY <1>1, <1>3, <2>1, <2>2 DEF shared
<1>8. CASE Publish(t)
  <2> DEFINE c == {job[t].mode} \ {conditioning_mode}
  <2>1. /\ job[t].pc = "collect" /\ UNCHANGED <<list, modes, collector_flag, session_writer>>
        /\ job' = [job EXCEPT ![t] = IF session_writer = NoSession THEN Exiting
                                     ELSE [job[t] EXCEPT !.pc = "record",
                                             !.todo = job[t].todo \cup {job[t].name}]]
    BY <1>1, <1>8 DEF Publish, Published
  <2>2. PICK got \in SUBSET ({job[t].name} \cap Watched) :
          walk' = [s \in Watched |-> walk[s] \cup IF s \in got THEN c ELSE {}]
    BY <1>8 DEF Publish, Published
  <2>3. job[t].mode \in Modes /\ job[t].name \in Sources /\ c \subseteq Modes
    BY <2>1 DEF JobInv
  <2> HIDE DEF c
  <2>4. /\ walk' \in [Watched -> SUBSET Modes]
        /\ \A s \in Watched : walk'[s] = walk[s] \/ walk'[s] = walk[s] \cup c
    BY <1>1, <2>2, <2>3
  <2>5. CASE session_writer # NoSession
    <3> DEFINE j == [job[t] EXCEPT !.pc = "record", !.todo = job[t].todo \cup {job[t].name}]
    <3>1. j \in Jobs /\ j.pc = "record" /\ j.mode = job[t].mode /\ j.name = job[t].name
      BY <1>2, <2>3 DEF Jobs
    <3>2. job' = [job EXCEPT ![t] = j]
      BY <2>1, <2>5
    <3> HIDE DEF j
    <3>3. Replaces(j) /\ job'[t] = j
      BY <1>4, <3>2
    <3> QED
      BY <1>1, <2>1, <2>4, <3>1, <3>3 DEF c
  <2>6. CASE session_writer = NoSession
    <3>1. job' = [job EXCEPT ![t] = Exiting]
      BY <2>1, <2>6
    <3>2. Replaces(Exiting) /\ job'[t] = Exiting
      BY <1>4, <3>1
    <3> QED
      BY <1>1, <1>3, <2>1, <2>4, <3>2 DEF c
  <2> QED
    BY <2>5, <2>6
<1> QED
  BY <1>5, <1>6, <1>7, <1>8 DEF Collector

\* A collection that starts is the only one.
LEMMA StartIsAlone ==
  ASSUME RestTyped, OneInv, NEW a \in Sources, NEW m \in Modes, Starts(a, m)
  PROVE  /\ job' \in [Threads -> Jobs] /\ collector_flag' = TRUE
         /\ \E t \in Threads :
              /\ job'[t].pc = "collect" /\ job'[t].mode = m /\ job'[t].name \in Sources
              /\ \A u \in Threads : u # t => job'[u].pc = "none"
<1>1. PICK t \in Threads, X \in SUBSET Sources :
        /\ job[t].pc = "none"
        /\ job' = [job EXCEPT ![t] = [pc |-> "collect", name |-> a, mode |-> m, todo |-> X]]
  BY DEF Starts
<1>2. job \in [Threads -> Jobs]
  BY DEF RestTyped
<1>3. \A u \in Threads : job[u].pc = "none"
  BY DEF Starts, OneInv
<1> DEFINE j == [pc |-> "collect", name |-> a, mode |-> m, todo |-> X]
<1>4. j \in Jobs
  BY DEF Jobs
<1>5. /\ job' = [job EXCEPT ![t] = j]
      /\ j.pc = "collect" /\ j.mode = m /\ j.name = a
  BY <1>1
<1> HIDE DEF j
<1>6. /\ job' \in [Threads -> Jobs] /\ job'[t] = j
      /\ \A u \in Threads : u # t => job'[u] = job[u]
  BY <1>2, <1>4, <1>5
<1> QED
  BY <1>3, <1>5, <1>6 DEF Starts

LEMMA JobsStep ==
  ASSUME TypeOK, SelectionOnScreen, JobInv, OneInv, [Next]_vars
  PROVE  /\ job' \in [Threads -> Jobs] /\ collector_flag' \in BOOLEAN
         /\ JobInv' /\ OneInv'
<1>1. RestTyped
  BY Parts
<1>2. job \in [Threads -> Jobs] /\ collector_flag \in BOOLEAN
  BY <1>1 DEF RestTyped
<1>3. CASE UNCHANGED thread
  BY <1>2, <1>3 DEF thread, JobInv, OneInv
<1>4. ASSUME NEW a \in Sources, NEW m \in Modes, Starts(a, m)
      PROVE  /\ job' \in [Threads -> Jobs] /\ collector_flag' \in BOOLEAN
             /\ JobInv' /\ OneInv'
  <2>1. job' \in [Threads -> Jobs] /\ collector_flag' = TRUE
    BY <1>1, <1>4, StartIsAlone
  <2>2. PICK t \in Threads :
          /\ job'[t].pc = "collect" /\ job'[t].mode = m /\ job'[t].name \in Sources
          /\ \A u \in Threads : u # t => job'[u].pc = "none"
    BY <1>1, <1>4, StartIsAlone
  <2>3. \A u \in Threads : job'[u].pc # "none" => u = t
    BY <2>2
  <2>4. \A u \in Threads : job'[u].pc \in {"collect", "record"} => u = t
    BY <2>3
  <2>5. JobInv'
    BY <2>2, <2>4 DEF JobInv
  <2>6. OneInv'
    BY <2>1, <2>2, <2>3 DEF OneInv
  <2> QED
    BY <2>1, <2>5, <2>6
<1>5. ASSUME NEW t \in Threads, Collector(t)
      PROVE  /\ job' \in [Threads -> Jobs] /\ collector_flag' \in BOOLEAN
             /\ JobInv' /\ OneInv'
  <2>1. /\ job[t].pc # "none" /\ job'[t] \in Jobs
        /\ job' = [u \in Threads |-> IF u = t THEN job'[t] ELSE job[u]]
        /\ job'[t].pc = "record" =>
             job[t].pc \in {"collect", "record"}
             /\ job'[t].mode = job[t].mode /\ job'[t].name = job[t].name
        /\ job'[t].pc # "collect"
        /\ \/ job'[t].pc # "none" /\ UNCHANGED collector_flag
           \/ job'[t].pc = "none" /\ collector_flag' = FALSE
    BY <1>1, <1>5, CollectorStep
  <2>2. \A u \in Threads : u # t => job'[u] = job[u]
    BY <2>1
  <2>3. job' \in [Threads -> Jobs]
    BY <1>2, <2>1
  <2>4. JobInv'
    BY <2>1, <2>2 DEF JobInv
  <2>5. \A u \in Threads : u # t => job'[u].pc = "none"
    BY <2>1, <2>2 DEF OneInv
  <2>6. collector_flag
    BY <2>1 DEF OneInv
  <2>7. OneInv'
    BY <1>2, <2>1, <2>5, <2>6 DEF OneInv
  <2> QED
    BY <1>2, <2>1, <2>3, <2>4, <2>7
<1> QED
  BY <1>3, <1>4, <1>5, ThreadStep

\* What the keys set keeps its type.
LEMMA RestStep ==
  ASSUME TypeOK, SelectionOnScreen, JobInv, OneInv, [Next]_vars
  PROVE  TypeOK'
<1>1. RestTyped /\ ListTyped
  BY Parts
<1>2. job' \in [Threads -> Jobs] /\ collector_flag' \in BOOLEAN
  BY JobsStep
<1>3. conditioning_mode' \in Modes /\ walk' \in [Watched -> SUBSET Modes]
  <2>1. ASSUME NEW t \in Threads, Collector(t) 
        PROVE  conditioning_mode' \in Modes /\ walk' \in [Watched -> SUBSET Modes]
    BY <1>1, <2>1, CollectorStep DEF RestTyped, modes
  <2>2. CASE conditioning_mode' \in Modes
             /\ (UNCHANGED <<conditioning_mode, walk>> \/ walk' = [s \in Watched |-> {}])
    BY <1>1, <2>2 DEF RestTyped
  <2> QED
    BY <2>1, <2>2, ThreadStep
<1> DEFINE Rest == /\ show_help' \in BOOLEAN /\ running' \in BOOLEAN /\ paused' \in BOOLEAN
                   /\ recording' \in BOOLEAN /\ session_writer' \in Sessions
<1>4. Rest
  <2>1. ASSUME NEW t \in Threads, Collector(t) PROVE Rest
    <3>1. UNCHANGED modes /\ session_writer' \in Sessions
      BY <1>1, <2>1, CollectorStep
    <3> QED
      BY <1>1, <3>1 DEF RestTyped, modes
  <2>2. CASE DismissHelp \/ ShowHelp \/ Pause \/ Quit
    BY <1>1, <2>2 DEF DismissHelp, ShowHelp, Pause, Quit, RestTyped, shared
  <2>3. CASE start_recording \/ StopRecording \/ AfterQuit
    <3>1. session_writer' \in Sessions
      BY <1>1, <2>3 DEF start_recording, StopRecording, AfterQuit, stop_recording, RestTyped,
         NoSession, Sessions
    <3> QED
      BY <1>1, <2>3, <3>1 DEF start_recording, StopRecording, AfterQuit, stop_recording,
         RestTyped
  <2>4. CASE MoveCursor \/ ToggleCategory \/ CollapseAll \/ Deselect \/ Select
             \/ CycleSizeOrMode \/ Tick \/ UNCHANGED vars
    BY <1>1, <2>4 DEF MoveCursor, ToggleCategory, CollapseAll, Deselect, Select,
       CycleSizeOrMode, Tick, RestTyped, vars, modes, shared
  <2>5. CASE CycleConditioning
    <3>1. session_writer' \in Sessions
      BY <1>1, <2>5 DEF CycleConditioning, Remixed, RestTyped, Sessions
    <3> QED
      BY <1>1, <2>5, <3>1 DEF CycleConditioning, RestTyped
  <2> QED
    BY <2>1, <2>2, <2>3, <2>4, <2>5 DEF Next
<1>5. RestTyped'
  BY <1>2, <1>3, <1>4 DEF RestTyped
<1>6. ListTyped'
  BY <1>1, ListStep
<1>7. ListTyped' /\ RestTyped' => TypeOK'
  BY DEF TypeOK, ListTyped, RestTyped
<1> QED
  BY <1>5, <1>6, <1>7

LEMMA WalkStep ==
  ASSUME TypeOK, SelectionOnScreen, JobInv, OneInv, WalkInv, [Next]_vars
  PROVE  WalkInv'
<1>1. RestTyped
  BY Parts
<1>2. job' \in [Threads -> Jobs]
  BY JobsStep
\* A new mode starts the walks again.
<1>3. CASE walk' = [s \in Watched |-> {}]
  BY <1>3 DEF WalkInv
\* A collection starts in the mode of its time.
<1>4. CASE /\ UNCHANGED <<conditioning_mode, walk>>
           /\ \/ UNCHANGED thread
              \/ \E a \in Sources : \E m \in Modes : m = conditioning_mode' /\ Starts(a, m)
  <2>1. CASE UNCHANGED thread
    BY <1>4, <2>1 DEF WalkInv, thread
  <2>2. ASSUME NEW a \in Sources, NEW m \in Modes, m = conditioning_mode', Starts(a, m)
        PROVE  WalkInv'
    <3>1. PICK t \in Threads :
            /\ job'[t].pc = "collect" /\ job'[t].mode = m /\ job'[t].name \in Sources
            /\ \A u \in Threads : u # t => job'[u].pc = "none"
      BY <1>1, <2>2, StartIsAlone
    <3>2. \A u \in Threads : job'[u].pc = "collect" => job'[u].mode = conditioning_mode'
      BY <2>2, <3>1
    <3> QED
      BY <1>4, <3>2 DEF WalkInv
  <2> QED
    BY <1>4, <2>1, <2>2
\* What is published was collected by the only collector there is.
<1>5. ASSUME NEW t \in Threads, Collector(t) PROVE WalkInv'
  <2>1. /\ UNCHANGED conditioning_mode
        /\ job[t].pc # "none" /\ job'[t].pc # "collect"
        /\ job' = [u \in Threads |-> IF u = t THEN job'[t] ELSE job[u]]
        /\ walk' \in [Watched -> SUBSET Modes]
    BY <1>1, <1>5, CollectorStep DEF modes
  <2>2. \/ UNCHANGED walk
        \/ /\ job[t].pc = "collect"
           /\ \A s \in Watched : walk'[s] = walk[s]
                              \/ walk'[s] = walk[s] \cup ({job[t].mode} \ {conditioning_mode})
    BY <1>1, <1>5, CollectorStep
  <2>3. \A u \in Threads : job'[u].pc # "collect"
    <3> TAKE u \in Threads
    <3>1. CASE u = t
      BY <2>1, <3>1
    <3>2. CASE u # t
      BY <2>1, <3>2 DEF OneInv
    <3> QED
      BY <3>1, <3>2
  <2>4. \A s \in Watched : \A m, n \in walk'[s] : m = n
    <3>1. CASE UNCHANGED walk
      BY <3>1 DEF WalkInv
    <3>2. CASE /\ job[t].pc = "collect"
               /\ \A s \in Watched : walk'[s] = walk[s]
                    \/ walk'[s] = walk[s] \cup ({job[t].mode} \ {conditioning_mode})
      <4>1. CASE job[t].mode = conditioning_mode
        BY <3>2, <4>1 DEF WalkInv
      <4>2. CASE job[t].mode # conditioning_mode
        <5>1. \A s \in Watched : walk[s] = {}
          BY <3>2, <4>2 DEF WalkInv
        <5> QED
          BY <3>2, <5>1
      <4> QED
        BY <4>1, <4>2
    <3> QED
      BY <2>2, <3>1, <3>2
  <2> QED
    BY <2>1, <2>3, <2>4 DEF WalkInv
<1> QED
  BY <1>3, <1>4, <1>5, ThreadStep

LEMMA SessionStep ==
  ASSUME TypeOK, SelectionOnScreen, JobInv, OneInv, SessionInv, [Next]_vars
  PROVE  SessionInv'
<1>1. RestTyped
  BY Parts
<1>2. job' \in [Threads -> Jobs]
  BY JobsStep
<1>3. TypeOK'
  BY RestStep
\* A session that starts, ends or is no longer followed has no odd samples.
<1>4. CASE Plain(session_writer', conditioning_mode')
  <2>1. session_writer'.odd = {}
    BY <1>4 DEF Plain
  <2>2. /\ session_writer'.conditioning \in {conditioning_mode', "any", "none"}
        /\ session_writer'.conditioning = "none" => session_writer' = NoSession
    <3>1. conditioning_mode' # "none"
      BY <1>3 DEF TypeOK, Modes
    <3> QED
      BY <1>4, <3>1 DEF Plain, NoSession
  <2> QED
    BY <2>1, <2>2 DEF SessionInv
\* A collection starts in the mode of its time, the session's if it has one.
<1>5. CASE /\ UNCHANGED <<conditioning_mode, session_writer>>
           /\ \/ UNCHANGED thread
              \/ \E a \in Sources : \E m \in Modes : m = conditioning_mode' /\ Starts(a, m)
  <2>1. CASE UNCHANGED thread
    BY <1>5, <2>1 DEF SessionInv, thread
  <2>2. ASSUME NEW a \in Sources, NEW m \in Modes, m = conditioning_mode', Starts(a, m)
        PROVE  SessionInv'
    <3>1. PICK t \in Threads :
            /\ job'[t].pc = "collect" /\ job'[t].mode = m /\ job'[t].name \in Sources
            /\ \A u \in Threads : u # t => job'[u].pc = "none"
      BY <1>1, <2>2, StartIsAlone
    <3>2. \A u \in Threads : job'[u].pc \in {"collect", "record"} =>
            job'[u].mode = conditioning_mode'
      BY <2>2, <3>1
    <3>3. session_writer.conditioning # conditioning_mode => session_writer.odd = {}
      BY DEF SessionInv, NoSession
    <3> QED
      BY <1>5, <3>2, <3>3 DEF SessionInv
  <2> QED
    BY <1>5, <2>1, <2>2
\* What a collector writes is in the mode it captured, and it is the only one.
<1>6. ASSUME NEW t \in Threads, Collector(t) PROVE SessionInv'
  <2>1. /\ UNCHANGED conditioning_mode
        /\ job[t].pc # "none" /\ job'[t].pc # "collect"
        /\ job'[t].pc = "record" =>
             job[t].pc \in {"collect", "record"}
             /\ job'[t].mode = job[t].mode /\ job'[t].name = job[t].name
        /\ job' = [u \in Threads |-> IF u = t THEN job'[t] ELSE job[u]]
    BY <1>1, <1>6, CollectorStep DEF modes
  <2>2. \/ UNCHANGED session_writer
        \/ /\ job[t].pc = "record" /\ session_writer.sources # {}
           /\ session_writer.conditioning \notin {job[t].mode, "any"}
           /\ session_writer' =
                [session_writer EXCEPT !.odd = session_writer.odd \cup {job[t].mode}]
    BY <1>1, <1>6, CollectorStep
  <2>3. \A u \in Threads : job'[u].pc \in {"collect", "record"} =>
          u = t /\ job[t].pc \in {"collect", "record"} /\ job'[u].mode = job[t].mode
    <3> TAKE u \in Threads
    <3>1. CASE u = t
      BY <2>1, <3>1
    <3>2. CASE u # t
      BY <2>1, <3>2 DEF OneInv
    <3> QED
      BY <3>1, <3>2
  <2>4. CASE UNCHANGED session_writer
    BY <2>1, <2>3, <2>4 DEF SessionInv
  <2>5. CASE /\ job[t].pc = "record" /\ session_writer.sources # {}
             /\ session_writer.conditioning \notin {job[t].mode, "any"}
             /\ session_writer' =
                  [session_writer EXCEPT !.odd = session_writer.odd \cup {job[t].mode}]
    <3>1. \A m \in session_writer.odd : m = job[t].mode
      BY <2>5 DEF SessionInv
    <3>2. session_writer'.odd = session_writer.odd \cup {job[t].mode}
          /\ session_writer'.conditioning = session_writer.conditioning
      BY <1>1, <2>5 DEF RestTyped, Sessions
    <3>3. \A m \in session_writer'.odd : m = job[t].mode
      BY <3>1, <3>2
    <3>4. session_writer.conditioning # "none"
      BY <2>5 DEF SessionInv, NoSession
    <3> QED
      BY <2>1, <2>3, <2>5, <3>2, <3>3, <3>4 DEF SessionInv
  <2> QED
    BY <2>2, <2>4, <2>5
<1> QED
  BY <1>4, <1>5, <1>6, ThreadStep

LEMMA AllAtFirst ==
  Init => TypeOK /\ SelectionOnScreen /\ JobInv /\ OneInv /\ WalkInv /\ SessionInv
<1> SUFFICES ASSUME Init
             PROVE  TypeOK /\ SelectionOnScreen /\ JobInv /\ OneInv /\ WalkInv /\ SessionInv
  OBVIOUS
<1>1. ListTyped /\ SelectionOnScreen
  BY ListAtFirst
<1>2. NoSession \in Sessions
  BY DEF NoSession, Sessions
<1>3. NoJob \in Jobs /\ NoJob.pc = "none"
  BY DEF NoJob, Jobs
<1>4. job = [t \in Threads |-> NoJob] /\ collector_flag = FALSE /\ walk = [s \in Watched |-> {}]
  BY DEF Init
<1>5. /\ show_help = FALSE /\ running = TRUE /\ paused = FALSE
      /\ conditioning_mode = "Raw" /\ recording = FALSE /\ session_writer = NoSession
  BY DEF Init
<1>6. job \in [Threads -> Jobs] /\ \A t \in Threads : job[t].pc = "none"
  BY <1>3, <1>4
<1>7. RestTyped
  BY <1>2, <1>4, <1>5, <1>6 DEF RestTyped, Modes
<1>8. JobInv /\ OneInv /\ WalkInv /\ SessionInv
  BY <1>4, <1>5, <1>6 DEF JobInv, OneInv, WalkInv, SessionInv, NoSession
<1> QED
  BY <1>1, <1>7, <1>8, Parts

LEMMA AllAlways ==
  Spec => [](TypeOK /\ SelectionOnScreen /\ JobInv /\ OneInv /\ WalkInv /\ SessionInv)
<1>1. /\ TypeOK /\ SelectionOnScreen /\ JobInv /\ OneInv /\ WalkInv /\ SessionInv /\ [Next]_vars
      => TypeOK' /\ SelectionOnScreen' /\ JobInv' /\ OneInv' /\ WalkInv' /\ SessionInv'
  BY Parts, ListStep, JobsStep, RestStep, WalkStep, SessionStep
<1> QED
  BY <1>1, AllAtFirst, PTL DEF Spec

(* Every variable keeps its type: what a collector publishes and records is  *)
(* of a source and in a mode, those it captured.                             *)
THEOREM TuiTypeCorrect == Spec => []TypeOK
BY AllAlways, PTL

LEMMA AtMostOne ==
  ASSUME NEW S, \A x, y \in S : x = y
  PROVE  Cardinality(S) <= 1
<1>1. CASE S = {}
  BY <1>1, FS_EmptySet
<1>2. CASE S # {}
  <2>1. PICK x : x \in S
    BY <1>2
  <2>2. S = {x}
    BY <2>1
  <2>3. Cardinality({x}) = 1
    BY FS_Singleton
  <2> QED
    BY <2>2, <2>3
<1> QED
  BY <1>1, <1>2

(* One collector runs at a time and the flag is up exactly while it does,    *)
(* whatever ticks, keys, panics and slow sources do: for any number of       *)
(* threads that could be alive.                                              *)
THEOREM CollectorIsAlone == Spec => []OneCollector
<1>1. OneInv => OneCollector
  <2> SUFFICES ASSUME OneInv PROVE OneCollector
    OBVIOUS
  <2>1. Threads \ Idle = {t \in Threads : job[t].pc # "none"}
    BY DEF Idle
  <2>2. Cardinality(Threads \ Idle) <= 1
    BY <2>1, AtMostOne DEF OneInv
  <2>3. Idle # Threads <=> \E t \in Threads : job[t].pc # "none"
    BY DEF Idle
  <2> QED
    BY <2>2, <2>3 DEF OneCollector, OneInv
<1> QED
  BY <1>1, AllAlways, PTL

(* A walk mixes the bytes of the current mode with those of one other at     *)
(* most: the collection that was in flight as the mode changed is the only   *)
(* one, and the change emptied the walks.                                    *)
THEOREM WalksMixTwo == Spec => []WalkMixesOneInFlight
<1>1. WalkInv => WalkMixesOneInFlight
  BY AtMostOne DEF WalkInv, WalkMixesOneInFlight
<1> QED
  BY <1>1, AllAlways, PTL

(* A session through which the mode is left alone holds samples of one other *)
(* mode at most, those of the collector that was in flight as it started:    *)
(* however recordings, modes and collections follow one another, for any     *)
(* sources and any number of threads that could be alive.                    *)
THEOREM OneLeftOver == Spec => []OneModeLeftOver
<1>1. SessionInv => OneModeLeftOver
  BY AtMostOne DEF SessionInv, OneModeLeftOver
<1> QED
  BY <1>1, AllAlways, PTL
=============================================================================
