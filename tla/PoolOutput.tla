----------------------------- MODULE PoolOutput -----------------------------
(***************************************************************************)
(* The output side of EntropyPool (crates/openentropy-core/src/pool.rs):   *)
(* threads call get_bytes concurrently and share the raw buffer, the       *)
(* counter, the conditioning state and the output total, each behind a     *)
(* mutex of its own and none held across two of them.                      *)
(*                                                                         *)
(* A collection round inside a call is one step that appends any number of *)
(* bytes up to Yield (PoolCollection has its inside).  A byte is its       *)
(* arrival position.  A SHA-256 digest is its place in blocks: digests are *)
(* fresh, for each hashes the clock and OS randomness.                     *)
(***************************************************************************)
EXTENDS Naturals, Sequences

CONSTANTS
  Callers,    \* threads calling the pool
  Requests,   \* requests they make: [mode, n]
  MaxRounds,  \* MAX_COLLECTION_ROUNDS, 8
  SampleMax,  \* bytes a block takes from the buffer, 256
  BlockLen,   \* bytes of a digest, 32
  Yield,      \* most bytes a collection round appends
  MaxBytes,   \* bound: no round appends beyond this many bytes in all
  MaxBlocks   \* bound: no conditioned call begins after this many blocks

Modes == {"raw", "vonneumann", "sha256"}

ASSUME OutputConstants ==
  /\ Requests \subseteq [mode : Modes, n : Nat]
  /\ MaxRounds \in Nat
  /\ SampleMax \in Nat
  /\ BlockLen \in Nat \ {0}
  /\ Yield \in Nat
  /\ MaxBytes \in Nat
  /\ MaxBlocks \in Nat

VARIABLES
  buffer,      \* buffer: the raw bytes not yet handed out
  produced,    \* history: bytes appended so far
  state,       \* state: the block it derives from, 0 for the seed
  counter,     \* counter
  totalOutput, \* total_output
  blocks,      \* history: every digest, with what it was hashed from
  pc,          \* where caller c is in its call
  need,        \* bytes the call of c is to return
  rounds,      \* collection rounds of a raw call
  chunk,       \* raw: the output; conditioned: the sample of this block
  done,        \* bytes of conditioned output so far
  cnt,         \* cnt: the counter value of this block
  prev         \* the state this block has hashed

shared == <<buffer, produced, state, counter, totalOutput, blocks>>
local == <<need, rounds, chunk, done, cnt, prev>>
vars == <<buffer, produced, state, counter, totalOutput, blocks,
          pc, need, rounds, chunk, done, cnt, prev>>

Locations == {"idle", "raw_check", "raw_collect", "raw_take", "raw_count",
              "rnd_check", "rnd_collect", "rnd_block", "rnd_sample",
              "rnd_state", "rnd_mix", "rnd_count"}

Block == [by : Callers, cnt : Nat, prev : Nat]

TypeOK ==
  /\ buffer \in Seq(Nat)
  /\ produced \in Nat
  /\ state \in Nat
  /\ counter \in Nat
  /\ totalOutput \in Nat
  /\ blocks \in Seq(Block)
  /\ pc \in [Callers -> Locations]
  /\ need \in [Callers -> Nat]
  /\ rounds \in [Callers -> Nat]
  /\ chunk \in [Callers -> Seq(Nat)]
  /\ done \in [Callers -> Nat]
  /\ cnt \in [Callers -> Nat]
  /\ prev \in [Callers -> Nat]

Init ==
  /\ buffer = <<>>
  /\ produced = 0
  /\ state = 0
  /\ counter = 0
  /\ totalOutput = 0
  /\ blocks = <<>>
  /\ pc = [c \in Callers |-> "idle"]
  /\ need = [c \in Callers |-> 0]
  /\ rounds = [c \in Callers |-> 0]
  /\ chunk = [c \in Callers |-> <<>>]
  /\ done = [c \in Callers |-> 0]
  /\ cnt = [c \in Callers |-> 0]
  /\ prev = [c \in Callers |-> 0]

-----------------------------------------------------------------------------
(* Helpers                                                                 *)

AtMost(a, b) == IF a <= b THEN a ELSE b

\* Control of c moves from one point of the code to another.
Goto(c, from, to) == pc[c] = from /\ pc' = [pc EXCEPT ![c] = to]

\* buf.drain(..take): the first k bytes leave the buffer for c.
Drain(c, k) ==
  /\ chunk' = [chunk EXCEPT ![c] = SubSeq(buffer, 1, k)]
  /\ buffer' = SubSeq(buffer, k + 1, Len(buffer))

\* collect_all appends k bytes at the end of the buffer.
Collect(k) ==
  /\ k <= Yield
  /\ produced + k <= MaxBytes
  /\ buffer' = buffer \o [i \in 1..k |-> produced + i]
  /\ produced' = produced + k

-----------------------------------------------------------------------------
(* get_bytes                                                               *)

\* get_bytes dispatches on the mode; Von Neumann debiasing asks for six times
\* the bytes, raw.
Begin(c, r) ==
  /\ r.mode = "sha256" => counter < MaxBlocks
  /\ Goto(c, "idle", IF r.mode = "sha256" THEN "rnd_check" ELSE "raw_check")
  /\ need' = [need EXCEPT ![c] = IF r.mode = "vonneumann" THEN 6 * r.n ELSE r.n]
  /\ UNCHANGED <<shared, rounds, chunk, done, cnt, prev>>

\* The call of c is over; its locals go.
Finish(c, from) ==
  /\ Goto(c, from, "idle")
  /\ need' = [need EXCEPT ![c] = 0]
  /\ rounds' = [rounds EXCEPT ![c] = 0]
  /\ done' = [done EXCEPT ![c] = 0]
  /\ cnt' = [cnt EXCEPT ![c] = 0]
  /\ prev' = [prev EXCEPT ![c] = 0]

-----------------------------------------------------------------------------
(* get_raw_bytes                                                           *)

\* Enough bytes are there, or the rounds are used up.
RawReady(c) ==
  /\ Len(buffer) >= need[c] \/ rounds[c] >= MaxRounds
  /\ Goto(c, "raw_check", "raw_take")
  /\ UNCHANGED <<shared, local>>

RawNotReady(c) ==
  /\ Len(buffer) < need[c]
  /\ rounds[c] < MaxRounds
  /\ Goto(c, "raw_check", "raw_collect")
  /\ UNCHANGED <<shared, local>>

\* Fault: a round that collected nothing is not counted.
CountFruitfulRounds(c, k) ==
  /\ Goto(c, "raw_collect", "raw_check")
  /\ Collect(k)
  /\ rounds' = [rounds EXCEPT ![c] = IF k = 0 THEN @ ELSE @ + 1]
  /\ UNCHANGED <<state, counter, totalOutput, blocks, need, chunk, done, cnt, prev>>

RawCollect(c, k) ==
  /\ Goto(c, "raw_collect", "raw_check")
  /\ Collect(k)
  /\ rounds' = [rounds EXCEPT ![c] = @ + 1]
  /\ UNCHANGED <<state, counter, totalOutput, blocks, need, chunk, done, cnt, prev>>

\* Fault: the bytes are copied and stay in the buffer.
CopyOut(c) ==
  LET k == AtMost(need[c], Len(buffer))
  IN /\ k > 0
     /\ Goto(c, "raw_take", "raw_count")
     /\ chunk' = [chunk EXCEPT ![c] = SubSeq(buffer, 1, k)]
     /\ UNCHANGED <<shared, need, rounds, done, cnt, prev>>

\* Take what there is, up to need, in one critical section.
RawTake(c) ==
  LET k == AtMost(need[c], Len(buffer))
  IN /\ k > 0
     /\ Goto(c, "raw_take", "raw_count")
     /\ Drain(c, k)
     /\ UNCHANGED <<produced, state, counter, totalOutput, blocks, need, rounds,
                    done, cnt, prev>>

\* take == 0: return an empty vector, counting nothing.
RawNothing(c) ==
  /\ AtMost(need[c], Len(buffer)) = 0
  /\ Finish(c, "raw_take")
  /\ UNCHANGED <<shared, chunk>>

RawCount(c) ==
  /\ Finish(c, "raw_count")
  /\ totalOutput' = totalOutput + Len(chunk[c])
  /\ chunk' = [chunk EXCEPT ![c] = <<>>]
  /\ UNCHANGED <<buffer, produced, state, counter, blocks>>

-----------------------------------------------------------------------------
(* get_random_bytes                                                        *)

\* Collect once if the buffer is low.
RndCheck(c) ==
  /\ Goto(c, "rnd_check",
          IF Len(buffer) < 2 * need[c] THEN "rnd_collect" ELSE "rnd_block")
  /\ UNCHANGED <<shared, local>>

RndCollect(c, k) ==
  /\ Goto(c, "rnd_collect", "rnd_block")
  /\ Collect(k)
  /\ UNCHANGED <<state, counter, totalOutput, blocks, local>>

\* Fault: blocks are numbered within their call.
CountWithinCall(c) ==
  /\ done[c] < need[c]
  /\ Goto(c, "rnd_block", "rnd_sample")
  /\ counter' = counter + 1
  /\ cnt' = [cnt EXCEPT ![c] = @ + 1]
  /\ UNCHANGED <<buffer, produced, state, totalOutput, blocks, need, rounds,
                 chunk, done, prev>>

\* The head of a block: one critical section increments and reads counter.
RndCounter(c) ==
  /\ done[c] < need[c]
  /\ Goto(c, "rnd_block", "rnd_sample")
  /\ counter' = counter + 1
  /\ cnt' = [cnt EXCEPT ![c] = counter']
  /\ UNCHANGED <<buffer, produced, state, totalOutput, blocks, need, rounds,
                 chunk, done, prev>>

RndSample(c) ==
  /\ Goto(c, "rnd_sample", "rnd_state")
  /\ Drain(c, AtMost(Len(buffer), SampleMax))
  /\ UNCHANGED <<produced, state, counter, totalOutput, blocks, need, rounds,
                 done, cnt, prev>>

\* h.update(*state): the state is read under its lock, which is then dropped.
RndState(c) ==
  /\ Goto(c, "rnd_state", "rnd_mix")
  /\ prev' = [prev EXCEPT ![c] = state]
  /\ UNCHANGED <<shared, need, rounds, chunk, done, cnt>>

\* Fault: the state is only replaced by the last block of a call.
MixKeepsState(c) ==
  /\ Goto(c, "rnd_mix", "rnd_block")
  /\ blocks' = Append(blocks, [by |-> c, cnt |-> cnt[c], prev |-> prev[c]])
  /\ state' = IF done[c] + BlockLen >= need[c] THEN Len(blocks) + 1 ELSE state
  /\ done' = [done EXCEPT ![c] = @ + BlockLen]
  /\ chunk' = [chunk EXCEPT ![c] = <<>>]
  /\ UNCHANGED <<buffer, produced, counter, totalOutput, need, rounds, cnt, prev>>

\* The digest becomes output and the state derived from it replaces whatever
\* state is there by now.
RndMix(c) ==
  /\ Goto(c, "rnd_mix", "rnd_block")
  /\ blocks' = Append(blocks, [by |-> c, cnt |-> cnt[c], prev |-> prev[c]])
  /\ state' = Len(blocks) + 1
  /\ done' = [done EXCEPT ![c] = @ + BlockLen]
  /\ chunk' = [chunk EXCEPT ![c] = <<>>]
  /\ UNCHANGED <<buffer, produced, counter, totalOutput, need, rounds, cnt, prev>>

RndBlocksDone(c) ==
  /\ done[c] >= need[c]
  /\ Goto(c, "rnd_block", "rnd_count")
  /\ UNCHANGED <<shared, local>>

RndCount(c) ==
  /\ Finish(c, "rnd_count")
  /\ totalOutput' = totalOutput + need[c]
  /\ UNCHANGED <<buffer, produced, state, counter, blocks, chunk>>

-----------------------------------------------------------------------------
Step(c) ==
  \/ RawReady(c) \/ RawNotReady(c)
  \/ \E k \in 0..Yield : RawCollect(c, k) \/ RndCollect(c, k)
  \/ RawTake(c) \/ RawNothing(c) \/ RawCount(c)
  \/ RndCheck(c) \/ RndCounter(c) \/ RndSample(c) \/ RndState(c) \/ RndMix(c)
  \/ RndBlocksDone(c) \/ RndCount(c)

Next ==
  \/ \E c \in Callers, r \in Requests : Begin(c, r)
  \/ \E c \in Callers : Step(c)

Spec == Init /\ [][Next]_vars

\* A caller's thread keeps running; nobody has to make another call.
FairSpec == Spec /\ \A c \in Callers : WF_vars(Step(c))
-----------------------------------------------------------------------------
(* Properties                                                              *)

Stream == INSTANCE ByteStream
            WITH Readers <- Callers, arrived <- produced,
                 given <- produced - Len(buffer), held <- chunk

\* Whatever the interleaving of raw and conditioned calls, the buffer hands
\* every source byte to one call, in the order of arrival and in contiguous
\* chunks: nothing is lost, repeated or reordered.
IsByteStream == Stream!Spec

\* No two blocks, of the same call or of different callers, hash the same
\* counter value: the "monotonic u64, prevents repetition".
CounterNeverRepeats ==
  \A i, j \in 1..Len(blocks) : i # j => blocks[i].cnt # blocks[j].cnt

\* A caller's block is conditioned on a state at least as recent as the one its
\* own previous block left, even if other callers replaced that in between.
OwnStateAdvances ==
  \A i, j \in 1..Len(blocks) :
    i < j /\ blocks[i].by = blocks[j].by => i <= blocks[j].prev

\* Every call returns, even if the sources yield nothing, and even if other
\* callers drain all they yield.
CallsReturn == \A c \in Callers : pc[c] # "idle" ~> pc[c] = "idle"
=============================================================================
