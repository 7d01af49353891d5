-------------------------- MODULE PoolOutputProofs --------------------------
(***************************************************************************)
(* Proofs about PoolOutput for any number of callers, any requests and any *)
(* sizes.  Three facts carry them: the buffer always holds the last bytes  *)
(* that arrived, in order (BufferInv); no counter value is in use twice,   *)
(* by a finished block or by one under way (CounterInv); the state is the  *)
(* one the last finished block left (StateInv).                            *)
(***************************************************************************)
EXTENDS PoolOutput, SequenceTheorems, TLAPS

\* The buffer is the tail of everything that arrived.
BufferInv ==
  /\ Len(buffer) <= produced
  /\ \A i \in 1..Len(buffer) : buffer[i] = produced - Len(buffer) + i

\* c has drawn the counter value of a block it has not finished.
Mixing(c) == pc[c] \in {"rnd_sample", "rnd_state", "rnd_mix"}

CounterInv ==
  /\ \A i \in 1..Len(blocks) : blocks[i].cnt <= counter
  /\ CounterNeverRepeats
  /\ \A c \in Callers : Mixing(c) =>
       /\ cnt[c] <= counter
       /\ \A i \in 1..Len(blocks) : blocks[i].cnt # cnt[c]
       /\ \A d \in Callers : Mixing(d) /\ c # d => cnt[c] # cnt[d]

StateInv ==
  /\ state = Len(blocks)
  /\ OwnStateAdvances
  /\ \A c \in Callers : pc[c] = "rnd_mix" =>
       \A i \in 1..Len(blocks) : blocks[i].by = c => i <= prev[c]

-----------------------------------------------------------------------------
\* Draining the first k bytes of a sequence: what is taken and what is left.
LEMMA DrainSplits ==
  ASSUME NEW s \in Seq(Nat), NEW k \in 0..Len(s)
  PROVE  /\ SubSeq(s, 1, k) \in Seq(Nat)
         /\ Len(SubSeq(s, 1, k)) = k
         /\ \A i \in 1..k : SubSeq(s, 1, k)[i] = s[i]
         /\ SubSeq(s, k + 1, Len(s)) \in Seq(Nat)
         /\ Len(SubSeq(s, k + 1, Len(s))) = Len(s) - k
         /\ \A i \in 1..(Len(s) - k) : SubSeq(s, k + 1, Len(s))[i] = s[k + i]
<1>1. /\ SubSeq(s, 1, k) \in Seq(Nat)
      /\ Len(SubSeq(s, 1, k)) = IF 1 <= k THEN k - 1 + 1 ELSE 0
      /\ \A i \in 1..k - 1 + 1 : SubSeq(s, 1, k)[i] = s[1 + i - 1]
  <2>1. \A i \in 1..k : s[i] \in Nat
    OBVIOUS
  <2> QED
    BY <2>1, SubSeqProperties
<1>2. /\ SubSeq(s, k + 1, Len(s)) \in Seq(Nat)
      /\ Len(SubSeq(s, k + 1, Len(s))) =
           IF k + 1 <= Len(s) THEN Len(s) - (k + 1) + 1 ELSE 0
      /\ \A i \in 1..Len(s) - (k + 1) + 1 :
           SubSeq(s, k + 1, Len(s))[i] = s[k + 1 + i - 1]
  <2>1. \A i \in k + 1..Len(s) : s[i] \in Nat
    OBVIOUS
  <2> QED
    BY <2>1, SubSeqProperties
<1>3. \A i \in 1..k : i \in Int /\ 1 + i - 1 = i
  OBVIOUS
<1>4. \A i \in 1..(Len(s) - k) : i \in 1..Len(s) - (k + 1) + 1 /\ k + 1 + i - 1 = k + i
  OBVIOUS
<1>5. k - 1 + 1 = k /\ (IF 1 <= k THEN k - 1 + 1 ELSE 0) = k
  OBVIOUS
<1>6. (IF k + 1 <= Len(s) THEN Len(s) - (k + 1) + 1 ELSE 0) = Len(s) - k
  OBVIOUS
<1> QED
  BY <1>1, <1>2, <1>3, <1>4, <1>5, <1>6

\* Collecting k bytes: the buffer grows by the k bytes that arrive next.
LEMMA CollectGrows ==
  ASSUME NEW s \in Seq(Nat), NEW k \in Nat, NEW n \in Nat
  PROVE  LET t == s \o [i \in 1..k |-> n + i] IN
         /\ t \in Seq(Nat)
         /\ Len(t) = Len(s) + k
         /\ \A i \in 1..Len(t) :
              t[i] = IF i <= Len(s) THEN s[i] ELSE n + (i - Len(s))
<1> DEFINE a == [i \in 1..k |-> n + i]
<1>1. a \in Seq(Nat) /\ Len(a) = k
  OBVIOUS
<1>2. \A j \in 1..k : a[j] = n + j
  OBVIOUS
<1> HIDE DEF a
<1>3. /\ s \o a \in Seq(Nat)
      /\ Len(s \o a) = Len(s) + k
      /\ \A i \in 1..Len(s) + k : (s \o a)[i] =
           IF i <= Len(s) THEN s[i] ELSE a[i - Len(s)]
  BY <1>1, ConcatProperties
<1>4. \A i \in 1..Len(s) + k : i > Len(s) => i - Len(s) \in 1..k
  OBVIOUS
<1>5. \A i \in 1..Len(s) + k :
        (s \o a)[i] = IF i <= Len(s) THEN s[i] ELSE n + (i - Len(s))
  BY <1>2, <1>3, <1>4
<1> QED
  BY <1>3, <1>5 DEF a

-----------------------------------------------------------------------------
(* Type correctness of every variable, for all sizes and requests.         *)
THEOREM OutputTypeCorrect == Spec => []TypeOK
<1> USE OutputConstants DEF TypeOK, Locations
<1>1. Init => TypeOK
  BY DEF Init
<1>2. TypeOK /\ [Next]_vars => TypeOK'
  <2> SUFFICES ASSUME TypeOK, [Next]_vars PROVE TypeOK'
    OBVIOUS
  <2> USE DEF shared, local, Goto
  <2>1. ASSUME NEW c \in Callers, NEW r \in Requests, Begin(c, r) PROVE TypeOK'
    <3>1. r.n \in Nat /\ 6 * r.n \in Nat
      BY Z3
    <3> QED
      BY <2>1, <3>1 DEF Begin
  <2>2. ASSUME NEW c \in Callers, RawReady(c) PROVE TypeOK'
    BY <2>2 DEF RawReady
  <2>3. ASSUME NEW c \in Callers, RawNotReady(c) PROVE TypeOK'
    BY <2>3 DEF RawNotReady
  <2>4. ASSUME NEW c \in Callers, NEW k \in 0..Yield, RawCollect(c, k) PROVE TypeOK'
    <3>1. buffer' \in Seq(Nat) /\ produced' \in Nat
      BY <2>4, CollectGrows DEF RawCollect, Collect
    <3> QED
      BY <2>4, <3>1 DEF RawCollect
  <2>5. ASSUME NEW c \in Callers, NEW k \in 0..Yield, RndCollect(c, k) PROVE TypeOK'
    <3>1. buffer' \in Seq(Nat) /\ produced' \in Nat
      BY <2>5, CollectGrows DEF RndCollect, Collect
    <3> QED
      BY <2>5, <3>1 DEF RndCollect
  <2>6. ASSUME NEW c \in Callers, RawTake(c) PROVE TypeOK'
    <3>1. AtMost(need[c], Len(buffer)) \in 0..Len(buffer)
      BY DEF AtMost
    <3>2. buffer' \in Seq(Nat) /\ chunk' \in [Callers -> Seq(Nat)]
      BY <2>6, <3>1, DrainSplits DEF RawTake, Drain
    <3> QED
      BY <2>6, <3>2 DEF RawTake
  <2>7. ASSUME NEW c \in Callers, RawNothing(c) PROVE TypeOK'
    BY <2>7 DEF RawNothing, Finish
  <2>8. ASSUME NEW c \in Callers, RawCount(c) PROVE TypeOK'
    BY <2>8 DEF RawCount, Finish
  <2>9. ASSUME NEW c \in Callers, RndCheck(c) PROVE TypeOK'
    BY <2>9 DEF RndCheck
  <2>10. ASSUME NEW c \in Callers, RndCounter(c) PROVE TypeOK'
    BY <2>10 DEF RndCounter
  <2>11. ASSUME NEW c \in Callers, RndSample(c) PROVE TypeOK'
    <3>1. AtMost(Len(buffer), SampleMax) \in 0..Len(buffer)
      BY DEF AtMost
    <3>2. buffer' \in Seq(Nat) /\ chunk' \in [Callers -> Seq(Nat)]
      BY <2>11, <3>1, DrainSplits DEF RndSample, Drain
    <3> QED
      BY <2>11, <3>2 DEF RndSample
  <2>12. ASSUME NEW c \in Callers, RndState(c) PROVE TypeOK'
    BY <2>12 DEF RndState
  <2>13. ASSUME NEW c \in Callers, RndMix(c) PROVE TypeOK'
    <3>1. blocks' \in Seq(Block)
      BY <2>13, AppendProperties DEF RndMix, Block
    <3> QED
      BY <2>13, <3>1 DEF RndMix
  <2>14. ASSUME NEW c \in Callers, RndBlocksDone(c) PROVE TypeOK'
    BY <2>14 DEF RndBlocksDone
  <2>15. ASSUME NEW c \in Callers, RndCount(c) PROVE TypeOK'
    BY <2>15 DEF RndCount, Finish
  <2>16. CASE UNCHANGED vars
    BY <2>16 DEF vars
  <2> QED
    BY <2>1, <2>2, <2>3, <2>4, <2>5, <2>6, <2>7, <2>8, <2>9, <2>10, <2>11,
       <2>12, <2>13, <2>14, <2>15, <2>16 DEF Next, Step
<1> QED
  BY <1>1, <1>2, PTL DEF Spec

-----------------------------------------------------------------------------
\* What a step does to the buffer, and to the chunk of the caller that drains.
Unmoved == UNCHANGED <<produced, buffer>>

Collects ==
  \E k \in Nat : produced' = produced + k
                 /\ buffer' = buffer \o [i \in 1..k |-> produced + i]

Drains(c) ==
  \E k \in 0..Len(buffer) : Drain(c, k) /\ UNCHANGED produced

\* Every step collects, drains, clears a chunk or leaves all three alone.
LEMMA BufferSteps ==
  ASSUME TypeOK, [Next]_vars
  PROVE  \/ Collects /\ UNCHANGED chunk
         \/ \E c \in Callers : Drains(c)
         \/ Unmoved /\ UNCHANGED chunk
         \/ Unmoved /\ \E c \in Callers : chunk' = [chunk EXCEPT ![c] = <<>>]
<1> DEFINE Goal == \/ Collects /\ UNCHANGED chunk
                   \/ \E c \in Callers : Drains(c)
                   \/ Unmoved /\ UNCHANGED chunk
                   \/ Unmoved /\ \E c \in Callers :
                        chunk' = [chunk EXCEPT ![c] = <<>>]
<1> USE OutputConstants DEF TypeOK
<1>1. ASSUME NEW c \in Callers, NEW k \in 0..Yield,
             RawCollect(c, k) \/ RndCollect(c, k)
      PROVE  Goal
  <2>1. k \in Nat
    OBVIOUS
  <2>2. UNCHANGED chunk
    BY <1>1 DEF RawCollect, RndCollect, local
  <2>3. Collects
    BY <1>1, <2>1 DEF RawCollect, RndCollect, Collect, Collects
  <2> QED
    BY <2>2, <2>3
<1>2. ASSUME NEW c \in Callers, RawTake(c) PROVE Goal
  <2>1. AtMost(need[c], Len(buffer)) \in 0..Len(buffer)
    BY DEF AtMost
  <2> QED
    BY <1>2, <2>1 DEF RawTake, Drains
<1>3. ASSUME NEW c \in Callers, RndSample(c) PROVE Goal
  <2>1. AtMost(Len(buffer), SampleMax) \in 0..Len(buffer)
    BY DEF AtMost
  <2> QED
    BY <1>3, <2>1 DEF RndSample, Drains
<1>4. ASSUME NEW c \in Callers, RawCount(c) \/ RndMix(c) PROVE Goal
  BY <1>4 DEF RawCount, RndMix, Unmoved
<1>5. ASSUME UNCHANGED <<produced, buffer, chunk>> PROVE Goal
  BY <1>5 DEF Unmoved
<1> HIDE DEF TypeOK, Goal
<1> QED
  <2>1. ASSUME NEW c \in Callers,
               \/ RawReady(c) \/ RawNotReady(c) \/ RawNothing(c) \/ RndCheck(c)
               \/ RndCounter(c) \/ RndState(c) \/ RndBlocksDone(c) \/ RndCount(c)
               \/ \E r \in Requests : Begin(c, r)
        PROVE  UNCHANGED <<produced, buffer, chunk>>
    BY <2>1 DEF RawReady, RawNotReady, RawNothing, RndCheck, RndCounter,
       RndState, RndBlocksDone, RndCount, Begin, shared, local
  <2>2. ASSUME UNCHANGED vars PROVE UNCHANGED <<produced, buffer, chunk>>
    BY <2>2 DEF vars
  <2>3. Goal
    BY <1>1, <1>2, <1>3, <1>4, <1>5, <2>1, <2>2 DEF Next, Step
  <2> QED
    BY <2>3 DEF Goal

\* The bytes a drain hands out are those that arrived next after the ones
\* handed out before, and the rest of the buffer keeps its place.
LEMMA DrainInOrder ==
  ASSUME TypeOK, BufferInv, NEW c \in Callers, NEW k \in 0..Len(buffer),
         Drain(c, k)
  PROVE  /\ Len(buffer') = Len(buffer) - k
         /\ \A i \in 1..Len(buffer') : buffer'[i] = produced - Len(buffer') + i
         /\ chunk' = [chunk EXCEPT ![c] = Stream!Stretch(produced - Len(buffer), k)]
<1> USE DEF TypeOK
<1> DEFINE taken == SubSeq(buffer, 1, k)
           rest == SubSeq(buffer, k + 1, Len(buffer))
<1>1. /\ taken \in Seq(Nat) /\ Len(taken) = k
      /\ \A i \in 1..k : taken[i] = buffer[i]
      /\ rest \in Seq(Nat) /\ Len(rest) = Len(buffer) - k
      /\ \A i \in 1..(Len(buffer) - k) : rest[i] = buffer[k + i]
  BY DrainSplits
<1>2. chunk' = [chunk EXCEPT ![c] = taken] /\ buffer' = rest
  BY DEF Drain
<1> HIDE DEF taken, rest
<1>3. Len(buffer') = Len(buffer) - k
  BY <1>1, <1>2
<1>4. \A i \in 1..Len(buffer') : buffer'[i] = produced - Len(buffer') + i
  <2> SUFFICES ASSUME NEW i \in 1..(Len(buffer) - k)
               PROVE  buffer[k + i] = produced - (Len(buffer) - k) + i
    BY <1>1, <1>2, <1>3
  <2>1. k + i \in 1..Len(buffer)
    OBVIOUS
  <2>2. buffer[k + i] = produced - Len(buffer) + (k + i)
    BY <2>1 DEF BufferInv
  <2> QED
    BY <2>2
<1>5. taken = [i \in 1..k |-> produced - Len(buffer) + i]
  <2>1. taken = [i \in 1..k |-> taken[i]]
    BY <1>1
  <2>2. \A i \in 1..k : i \in 1..Len(buffer)
    OBVIOUS
  <2>3. \A i \in 1..k : taken[i] = produced - Len(buffer) + i
    BY <1>1, <2>2 DEF BufferInv
  <2> QED
    BY <2>1, <2>3
<1> QED
  BY <1>2, <1>3, <1>4, <1>5 DEF Stream!Stretch

\* The buffer is always the tail of everything that arrived.
LEMMA BufferInvariant == Spec => []BufferInv
<1> USE DEF TypeOK
<1>1. Init => BufferInv
  BY DEF Init, BufferInv
<1>2. TypeOK /\ BufferInv /\ [Next]_vars => BufferInv'
  <2> SUFFICES ASSUME TypeOK, BufferInv, [Next]_vars PROVE BufferInv'
    OBVIOUS
  <2>1. ASSUME NEW k \in Nat, produced' = produced + k,
               buffer' = buffer \o [i \in 1..k |-> produced + i]
        PROVE  BufferInv'
    <3>1. /\ buffer' \in Seq(Nat)
          /\ Len(buffer') = Len(buffer) + k
          /\ \A i \in 1..Len(buffer') : buffer'[i] =
               IF i <= Len(buffer) THEN buffer[i] ELSE produced + (i - Len(buffer))
      BY <2>1, CollectGrows
    <3>2. Len(buffer') <= produced'
      BY <2>1, <3>1 DEF BufferInv
    <3>3. produced' - Len(buffer') = produced - Len(buffer)
      BY <2>1, <3>1
    <3>4. \A i \in 1..Len(buffer') : buffer'[i] = produced' - Len(buffer') + i
      <4> SUFFICES ASSUME NEW i \in 1..Len(buffer')
                   PROVE  buffer'[i] = produced - Len(buffer) + i
        BY <3>3
      <4>1. CASE i <= Len(buffer)
        <5>1. i \in 1..Len(buffer)
          BY <4>1
        <5> QED
          BY <3>1, <4>1, <5>1 DEF BufferInv
      <4>2. CASE i > Len(buffer)
        BY <3>1, <4>2
      <4> QED
        BY <3>1, <4>1, <4>2
    <3> QED
      BY <3>2, <3>4 DEF BufferInv
  <2>2. ASSUME NEW c \in Callers, NEW k \in 0..Len(buffer), Drain(c, k),
               UNCHANGED produced
        PROVE  BufferInv'
    <3>1. Len(buffer') <= produced'
      BY <2>2, DrainInOrder DEF BufferInv
    <3>2. \A i \in 1..Len(buffer') : buffer'[i] = produced' - Len(buffer') + i
      BY <2>2, DrainInOrder
    <3> QED
      BY <3>1, <3>2 DEF BufferInv
  <2>3. ASSUME Unmoved PROVE BufferInv'
    BY <2>3 DEF BufferInv, Unmoved
  <2> QED
    BY <2>1, <2>2, <2>3, BufferSteps DEF Collects, Drains
<1> QED
  BY <1>1, <1>2, OutputTypeCorrect, PTL DEF Spec

(* The output side implements ByteStream: whatever the interleaving, every  *)
(* source byte is handed to one caller, in order of arrival.                *)
THEOREM OutputIsByteStream == Spec => IsByteStream
<1>1. Init => Stream!Init
  <2> SUFFICES ASSUME Init PROVE Stream!Init
    OBVIOUS
  <2>1. produced = 0 /\ Len(buffer) = 0
    BY Zenon, EmptySeq DEF Init
  <2>2. produced - Len(buffer) = 0
    BY <2>1
  <2> QED
    BY <2>2, Zenon DEF Init, Stream!Init
<1>2. TypeOK /\ TypeOK' /\ BufferInv /\ [Next]_vars => [Stream!Next]_(Stream!streamVars)
  <2> SUFFICES ASSUME TypeOK, TypeOK', BufferInv, [Next]_vars
               PROVE  [Stream!Next]_(Stream!streamVars)
    OBVIOUS
  <2> USE DEF TypeOK
  <2>1. ASSUME NEW k \in Nat, produced' = produced + k,
               buffer' = buffer \o [i \in 1..k |-> produced + i], UNCHANGED chunk
        PROVE  Stream!Deliver
    <3>1. Len(buffer') = Len(buffer) + k
      BY <2>1, CollectGrows
    <3>2. produced' - Len(buffer') = produced - Len(buffer)
      BY <2>1, <3>1
    <3> QED
      BY <2>1, <3>2 DEF Stream!Deliver
  <2>2. ASSUME NEW c \in Callers, NEW k \in 0..Len(buffer), Drain(c, k),
               UNCHANGED produced
        PROVE  Stream!Take(c)
    <3>1. Len(buffer') = Len(buffer) - k
      BY <2>2, DrainInOrder
    <3>2. produced' - Len(buffer') = produced - Len(buffer) + k
      BY <2>2, <3>1
    <3>3. produced' - Len(buffer') \in produced - Len(buffer)..produced
      BY <2>2, <3>1 DEF BufferInv
    <3>4. (produced' - Len(buffer')) - (produced - Len(buffer)) = k
      BY <3>2
    <3>5. chunk' = [chunk EXCEPT ![c] = Stream!Stretch(produced - Len(buffer), k)]
      BY <2>2, DrainInOrder
    <3> QED
      BY <2>2, <3>3, <3>4, <3>5 DEF Stream!Take
  <2>3. ASSUME Unmoved, UNCHANGED chunk PROVE UNCHANGED Stream!streamVars
    BY <2>3 DEF Unmoved, Stream!streamVars
  <2>4. ASSUME Unmoved, NEW c \in Callers, chunk' = [chunk EXCEPT ![c] = <<>>]
        PROVE  Stream!UseUp(c)
    BY <2>4 DEF Unmoved, Stream!UseUp
  <2> QED
    BY <2>1, <2>2, <2>3, <2>4, BufferSteps DEF Collects, Drains, Stream!Next
<1> QED
  BY <1>1, <1>2, OutputTypeCorrect, BufferInvariant, PTL
  DEF Spec, IsByteStream, Stream!Spec

-----------------------------------------------------------------------------
\* Finishing a block adds it after the blocks there are.
LEMMA MixAppends ==
  ASSUME TypeOK, NEW c \in Callers, RndMix(c)
  PROVE  /\ Len(blocks) \in Nat
         /\ Len(blocks') = Len(blocks) + 1
         /\ \A i \in 1..Len(blocks') : i \in 1..Len(blocks) => blocks'[i] = blocks[i]
         /\ \A i \in 1..Len(blocks') : i \notin 1..Len(blocks) =>
              /\ i = Len(blocks) + 1
              /\ blocks'[i].by = c
              /\ blocks'[i].cnt = cnt[c]
              /\ blocks'[i].prev = prev[c]
<1> DEFINE b == [by |-> c, cnt |-> cnt[c], prev |-> prev[c]]
<1>1. b \in Block /\ blocks \in Seq(Block)
  BY DEF TypeOK, Block
<1>2. blocks' = Append(blocks, b)
  BY DEF RndMix
<1>3. b.by = c /\ b.cnt = cnt[c] /\ b.prev = prev[c]
  OBVIOUS
<1> HIDE DEF b
<1>4. /\ Len(blocks') = Len(blocks) + 1
      /\ \A i \in 1..Len(blocks) : blocks'[i] = blocks[i]
      /\ blocks'[Len(blocks) + 1] = b
      /\ Len(blocks) \in Nat
  BY <1>1, <1>2, AppendProperties
<1>5. \A i \in 1..Len(blocks') : i \notin 1..Len(blocks) => i = Len(blocks) + 1
  BY <1>4
<1> QED
  BY <1>3, <1>4, <1>5

\* The steps that neither draw a counter value nor finish a block.
Quiet(c) ==
  \/ RawReady(c) \/ RawNotReady(c) \/ RawTake(c) \/ RawNothing(c) \/ RawCount(c)
  \/ RndCheck(c) \/ RndSample(c) \/ RndBlocksDone(c) \/ RndCount(c)
  \/ \E r \in Requests : Begin(c, r)
  \/ \E k \in 0..Yield : RawCollect(c, k) \/ RndCollect(c, k)

LEMMA QuietSteps ==
  ASSUME TypeOK, NEW c \in Callers, Quiet(c)
  PROVE  /\ UNCHANGED <<state, counter, blocks>>
         /\ \A d \in Callers : Mixing(d)' =>
              Mixing(d) /\ cnt'[d] = cnt[d] /\ prev'[d] = prev[d]
         /\ \A d \in Callers : pc'[d] = "rnd_mix" => pc[d] = "rnd_mix"
<1> USE DEF TypeOK, Mixing, Goto, Finish, shared, local
<1>1. CASE RawReady(c) \/ RawNotReady(c) \/ RndCheck(c) \/ RndBlocksDone(c)
  BY <1>1 DEF RawReady, RawNotReady, RndCheck, RndBlocksDone
<1>2. CASE RawTake(c) \/ RawNothing(c) \/ RawCount(c)
  BY <1>2 DEF RawTake, RawNothing, RawCount, Drain
<1>3. CASE RndSample(c) \/ RndCount(c)
  BY <1>3 DEF RndSample, RndCount, Drain
<1>4. ASSUME NEW r \in Requests, Begin(c, r)
      PROVE  /\ UNCHANGED <<state, counter, blocks>>
             /\ \A d \in Callers : Mixing(d)' =>
                  Mixing(d) /\ cnt'[d] = cnt[d] /\ prev'[d] = prev[d]
             /\ \A d \in Callers : pc'[d] = "rnd_mix" => pc[d] = "rnd_mix"
  BY <1>4 DEF Begin
<1>5. ASSUME NEW k \in 0..Yield, RawCollect(c, k) \/ RndCollect(c, k)
      PROVE  /\ UNCHANGED <<state, counter, blocks>>
             /\ \A d \in Callers : Mixing(d)' =>
                  Mixing(d) /\ cnt'[d] = cnt[d] /\ prev'[d] = prev[d]
             /\ \A d \in Callers : pc'[d] = "rnd_mix" => pc[d] = "rnd_mix"
  BY <1>5 DEF RawCollect, RndCollect
<1> HIDE DEF TypeOK, Mixing, Goto, Finish, shared, local
<1> QED
  BY <1>1, <1>2, <1>3, <1>4, <1>5 DEF Quiet

LEMMA StepKinds ==
  ASSUME [Next]_vars
  PROVE  \/ \E c \in Callers :
              Quiet(c) \/ RndCounter(c) \/ RndState(c) \/ RndMix(c)
         \/ UNCHANGED vars
  BY DEF Next, Step, Quiet

\* No counter value is in use twice.
LEMMA CounterInvariant == Spec => []CounterInv
<1>1. Init => CounterInv
  BY EmptySeq DEF Init, CounterInv, CounterNeverRepeats, Mixing
<1>2. TypeOK /\ CounterInv /\ [Next]_vars => CounterInv'
  <2> SUFFICES ASSUME TypeOK, CounterInv, [Next]_vars PROVE CounterInv'
    OBVIOUS
  <2>1. ASSUME NEW c \in Callers, Quiet(c) PROVE CounterInv'
    BY <2>1, QuietSteps DEF CounterInv, CounterNeverRepeats
  <2>2. ASSUME NEW c \in Callers, RndCounter(c) PROVE CounterInv'
    <3> USE DEF TypeOK
    <3>1. /\ counter' = counter + 1
          /\ cnt' = [cnt EXCEPT ![c] = counter + 1]
          /\ UNCHANGED blocks
          /\ \A d \in Callers : d # c => Mixing(d)' = Mixing(d)
      BY <2>2 DEF RndCounter, Mixing, Goto
    <3>2. \A i \in 1..Len(blocks) : blocks[i].cnt \in Nat
      <4>1. \A i \in 1..Len(blocks) : blocks[i] \in Block
        BY ElementOfSeq
      <4> QED
        BY <4>1 DEF Block
    <3>3. \A i \in 1..Len(blocks) : blocks[i].cnt <= counter'
      BY <3>1, <3>2 DEF CounterInv
    <3>4. cnt'[c] <= counter' /\ \A i \in 1..Len(blocks) : blocks[i].cnt # cnt'[c]
      BY <3>1, <3>2 DEF CounterInv
    <3>5. \A d \in Callers : d # c /\ Mixing(d) =>
            cnt'[d] = cnt[d] /\ cnt'[d] <= counter' /\ cnt'[d] # cnt'[c]
      BY <3>1 DEF CounterInv
    <3> HIDE DEF TypeOK
    <3> QED
      BY <3>1, <3>3, <3>4, <3>5 DEF CounterInv, CounterNeverRepeats
  <2>3. ASSUME NEW c \in Callers, RndState(c) PROVE CounterInv'
    <3>1. UNCHANGED <<counter, blocks, cnt>>
          /\ \A d \in Callers : Mixing(d)' = Mixing(d)
      BY <2>3 DEF RndState, Mixing, Goto, TypeOK, shared
    <3> QED
      BY <3>1 DEF CounterInv, CounterNeverRepeats
  <2>4. ASSUME NEW c \in Callers, RndMix(c) PROVE CounterInv'
    <3>1. /\ UNCHANGED <<counter, cnt>>
          /\ Mixing(c) /\ ~Mixing(c)'
          /\ \A d \in Callers : d # c => Mixing(d)' = Mixing(d)
      BY <2>4 DEF RndMix, Mixing, Goto, TypeOK
    <3>2. /\ \A i \in 1..Len(blocks') : i \in 1..Len(blocks) => blocks'[i] = blocks[i]
          /\ \A i \in 1..Len(blocks') : i \notin 1..Len(blocks) =>
               i = Len(blocks) + 1 /\ blocks'[i].cnt = cnt[c]
      BY <2>4, MixAppends
    <3>3. \A i \in 1..Len(blocks') : blocks'[i].cnt <= counter'
      BY <3>1, <3>2 DEF CounterInv
    <3>4. CounterNeverRepeats'
      BY <3>1, <3>2 DEF CounterInv, CounterNeverRepeats
    <3>5. \A d \in Callers : Mixing(d)' =>
            /\ cnt[d] <= counter'
            /\ \A i \in 1..Len(blocks') : blocks'[i].cnt # cnt[d]
            /\ \A e \in Callers : Mixing(e)' /\ d # e => cnt[d] # cnt[e]
      BY <3>1, <3>2 DEF CounterInv
    <3> QED
      BY <3>1, <3>3, <3>4, <3>5 DEF CounterInv
  <2>5. CASE UNCHANGED vars
    BY <2>5 DEF vars, CounterInv, CounterNeverRepeats, Mixing
  <2> QED
    BY <2>1, <2>2, <2>3, <2>4, <2>5, StepKinds
<1> QED
  BY <1>1, <1>2, OutputTypeCorrect, PTL DEF Spec

(* The counter "prevents repetition": no two blocks ever hash the same      *)
(* value, however calls interleave.                                         *)
THEOREM CounterUnique == Spec => []CounterNeverRepeats
<1>1. CounterInv => CounterNeverRepeats
  BY DEF CounterInv
<1> QED
  BY <1>1, CounterInvariant, PTL

\* The state is the one the last block left; a block under way has read it
\* after its caller's own last block.
LEMMA StateInvariant == Spec => []StateInv
<1>1. Init => StateInv
  BY EmptySeq DEF Init, StateInv, OwnStateAdvances
<1>2. TypeOK /\ StateInv /\ [Next]_vars => StateInv'
  <2> SUFFICES ASSUME TypeOK, StateInv, [Next]_vars PROVE StateInv'
    OBVIOUS
  <2>1. ASSUME NEW c \in Callers, Quiet(c) PROVE StateInv'
    <3>1. \A d \in Callers : pc'[d] = "rnd_mix" =>
            pc[d] = "rnd_mix" /\ prev'[d] = prev[d]
      BY <2>1, QuietSteps DEF Mixing
    <3> QED
      BY <2>1, <3>1, QuietSteps DEF StateInv, OwnStateAdvances
  <2>2. ASSUME NEW c \in Callers, RndCounter(c) PROVE StateInv'
    BY <2>2 DEF RndCounter, Goto, TypeOK, StateInv, OwnStateAdvances
  <2>3. ASSUME NEW c \in Callers, RndState(c) PROVE StateInv'
    <3>1. /\ UNCHANGED <<state, blocks>>
          /\ prev' = [prev EXCEPT ![c] = Len(blocks)]
          /\ \A d \in Callers : d # c => pc'[d] = pc[d]
      BY <2>3 DEF RndState, Goto, TypeOK, shared, StateInv
    <3>2. /\ prev'[c] = Len(blocks)
          /\ \A d \in Callers : d # c => prev'[d] = prev[d]
      BY <3>1 DEF TypeOK
    <3>3. \A i \in 1..Len(blocks) : i <= Len(blocks)
      BY DEF TypeOK
    <3> QED
      BY <3>1, <3>2, <3>3 DEF StateInv, OwnStateAdvances
  <2>4. ASSUME NEW c \in Callers, RndMix(c) PROVE StateInv'
    <3>1. /\ state' = Len(blocks) + 1
          /\ UNCHANGED prev
          /\ pc[c] = "rnd_mix" /\ pc'[c] # "rnd_mix"
          /\ \A d \in Callers : d # c => pc'[d] = pc[d]
      BY <2>4 DEF RndMix, Goto, TypeOK
    <3>2. /\ Len(blocks') = Len(blocks) + 1 /\ Len(blocks) \in Nat
          /\ \A i \in 1..Len(blocks') : i \in 1..Len(blocks) => blocks'[i] = blocks[i]
          /\ \A i \in 1..Len(blocks') : i \notin 1..Len(blocks) =>
               /\ i = Len(blocks) + 1
               /\ blocks'[i].by = c /\ blocks'[i].prev = prev[c]
      BY <2>4, MixAppends
    <3>3. OwnStateAdvances'
      <4> SUFFICES ASSUME NEW i \in 1..Len(blocks'), NEW j \in 1..Len(blocks'),
                          i < j, blocks'[i].by = blocks'[j].by
                   PROVE  i <= blocks'[j].prev
        BY DEF OwnStateAdvances
      <4>1. i \in 1..Len(blocks)
        BY <3>2
      <4>2. CASE j \in 1..Len(blocks)
        BY <3>2, <4>1, <4>2 DEF StateInv, OwnStateAdvances
      <4>3. CASE j \notin 1..Len(blocks)
        BY <3>1, <3>2, <4>1, <4>3 DEF StateInv
      <4> QED
        BY <4>2, <4>3
    <3>4. \A d \in Callers : pc'[d] = "rnd_mix" =>
            \A i \in 1..Len(blocks') : blocks'[i].by = d => i <= prev'[d]
      BY <3>1, <3>2 DEF StateInv
    <3> QED
      BY <3>1, <3>2, <3>3, <3>4 DEF StateInv
  <2>5. CASE UNCHANGED vars
    BY <2>5 DEF vars, StateInv, OwnStateAdvances
  <2> QED
    BY <2>1, <2>2, <2>3, <2>4, <2>5, StepKinds
<1> QED
  BY <1>1, <1>2, OutputTypeCorrect, PTL DEF Spec

(* A call's block never goes back behind the state its previous block left. *)
THEOREM OwnStateChain == Spec => []OwnStateAdvances
<1>1. StateInv => OwnStateAdvances
  BY DEF StateInv
<1> QED
  BY <1>1, StateInvariant, PTL
=============================================================================
