------------------------------- MODULE Kernel -------------------------------
(***************************************************************************)
(* How the numerical code is modelled.  A statistic of a sample is a       *)
(* function of its bytes in floating point, but which elements it reads,   *)
(* where it cuts the sample and what it divides by depend on lengths only. *)
(* A kernel is the set of those operations, for given lengths: none after  *)
(* an early return, and for a loop those of the iterations that go         *)
(* furthest.  Each operation has a condition without which the program     *)
(* panics, or gives a value that is no number.                             *)
(***************************************************************************)
EXTENDS Integers, Sequences, FiniteSetsExt, Functions

Index(i, len)    == [what |-> "index", at |-> i, to |-> i + 1, of |-> len]  \* s[i]
Slice(i, j, len) == [what |-> "slice", at |-> i, to |-> j, of |-> len]      \* s[i..j]
Minus(x, y)      == [what |-> "minus", at |-> y, to |-> x, of |-> x]        \* x - y in usize
Over(d)          == [what |-> "over", at |-> 0, to |-> 0, of |-> d]         \* x / d or x % d in usize
Ratio(d)         == [what |-> "ratio", at |-> 0, to |-> 0, of |-> d]        \* x / d in f64
Chunks(d)        == [what |-> "chunks", at |-> 0, to |-> 0, of |-> d]       \* s.chunks(d), s.windows(d)

\* An early return computes nothing more.
Invalid == {}

\* The last iteration of  for i in lo..hi,  if there is one.
LastOf(lo, hi, Op(_)) == IF lo < hi THEN {Op(hi - 1)} ELSE {}

\* A slice or an index lies inside, a difference of lengths is not negative,
\* a length divided by is not zero.
Sound(op) ==
  /\ op.what \in {"index", "slice"}          => 0 <= op.at /\ op.at <= op.to /\ op.to <= op.of
  /\ op.what = "minus"                       => op.at <= op.to
  /\ op.what \in {"over", "ratio", "chunks"} => op.of # 0

AtMost(x, y)  == IF x < y THEN x ELSE y
AtLeast(x, y) == IF x < y THEN y ELSE x
Abs(x)        == IF x < 0 THEN -x ELSE x
CeilDiv(x, y) == (x + y - 1) \div y      \* usize::div_ceil
Monus(x, y)   == AtLeast(x - y, 0)       \* usize::saturating_sub

Count(s, Test(_)) == Cardinality({i \in DOMAIN s : Test(s[i])})

\* The sum of f[x] over its domain.
Total(f) == FoldFunction(LAMBDA x, y : x + y, 0, f)

\* The pieces of  for i in 0..k { s[i * w..i * w + w] },  as <<from, to>>.
Windows(w, k) == {<<i * w, i * w + w>> : i \in 0 .. k - 1}
Cuts(pieces, len) == {Slice(p[1], p[2], len) : p \in pieces}
=============================================================================
