---------------------------- MODULE Conditioning ----------------------------
(***************************************************************************)
(* conditioning.rs: what is done to raw bytes before they are given out,   *)
(* and what an estimator of min-entropy counts.                             *)
(***************************************************************************)
EXTENDS Kernel, SequencesExt, Bitwise

------------------------------ (* conditioning *) ---------------------------

\* The i-th bit of a byte, from the most significant one.
Bit(byte, i) == (byte \div 2^(7 - i)) % 2

\* Of each pair of bits that differ the first one; eight of them are a byte,
\* and what is left over is dropped.
debiased_bits(data) ==
  FlattenSeq([k \in DOMAIN data |->
    FlattenSeq([p \in 1 .. 4 |->
      LET b1 == Bit(data[k], 2 * p - 2)
          b2 == Bit(data[k], 2 * p - 1)
      IN  IF b1 # b2 THEN <<b1>> ELSE << >>])])
Packed(bits) == Total([i \in 1 .. 8 |-> bits[i] * 2^(8 - i)])
von_neumann_debias(data) ==
  LET bits == debiased_bits(data)
  IN  [k \in 1 .. Len(bits) \div 8 |-> Packed(SubSeq(bits, 8 * k - 7, 8 * k))]

\* As if the odd byte were dropped.
xor_fold_even(data) ==
  LET half == Len(data) \div 2
  IN  IF Len(data) < 2 THEN data ELSE [i \in 1 .. half |-> data[i] ^^ data[half + i]]
\* The first half XORed with the second; an odd byte goes into the last one.
xor_fold(data) ==
  LET half == Len(data) \div 2
      odd  == Len(data) % 2 = 1
      Folded(i) == data[i] ^^ data[half + i]
  IN  IF Len(data) < 2 THEN data
      ELSE [i \in 1 .. half |-> IF odd /\ i = half THEN Folded(i) ^^ data[Len(data)] ELSE Folded(i)]

\* Where, in n raw bytes, the 64 start that are hashed for each block of 32
\* bytes of output: after the last raw byte the first ones come again.
sha256_offset(n, blocks) ==
  LET Offset[block \in 0 .. blocks] ==
        IF block = 0 THEN 0
        ELSE LET next == Offset[block - 1] + 64 IN IF next >= n THEN 0 ELSE next
  IN  Offset
sha256_condition_bytes(n, n_output) ==
  LET blocks == CeilDiv(n_output, 32)
      offset == sha256_offset(n, blocks)
  IN  IF n = 0 THEN Invalid
      ELSE {Slice(offset[block], AtMost(offset[block] + 64, n), n) : block \in 0 .. blocks - 1}

\* How many bytes condition gives, of n raw ones of which bits survive.
condition(n, bits, n_output, mode) ==
  CASE mode = "Raw"        -> AtMost(n, n_output)
    [] mode = "VonNeumann" -> AtMost(bits \div 8, n_output)
    [] mode = "Sha256"     -> IF n = 0 THEN 0 ELSE n_output

---------------------- (* what an estimator counts *) ----------------------

\* Where a byte equals its successor, and the distances of those places: their
\* sum and their number.
collisions(s) == {i \in 1 .. Len(s) - 1 : s[i] = s[i + 1]}
collision_distances(s) ==
  LET Step[i \in 0 .. AtLeast(Len(s) - 1, 0)] ==
        IF i = 0 THEN [prev |-> 0, sum |-> 0, count |-> 0]
        ELSE LET before == Step[i - 1]
             IN  IF i \notin collisions(s) THEN before
                 ELSE IF before.prev = 0 THEN [before EXCEPT !.prev = i]
                 ELSE [prev |-> i, sum |-> before.sum + i - before.prev, count |-> before.count + 1]
  IN  Step[AtLeast(Len(s) - 1, 0)]
=============================================================================
