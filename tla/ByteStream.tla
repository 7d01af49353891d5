----------------------------- MODULE ByteStream -----------------------------
(***************************************************************************)
(* What the shared byte buffer of EntropyPool promises its readers: source *)
(* bytes are handed out in the order they arrived, each to one reader, in  *)
(* contiguous chunks.  A byte is named by its arrival position.            *)
(***************************************************************************)
EXTENDS Naturals, Sequences

CONSTANT Readers

VARIABLES
  arrived, \* number of bytes collected so far
  given,   \* number of bytes handed out so far
  held     \* held[r]: the chunk reader r took last and has not used up

streamVars == <<arrived, given, held>>

\* The k bytes that arrived after the first n.
Stretch(n, k) == [i \in 1..k |-> n + i]

Init ==
  /\ arrived = 0
  /\ given = 0
  /\ held = [r \in Readers |-> <<>>]

\* A collection round adds bytes at the end.
Deliver ==
  /\ arrived' \in Nat
  /\ arrived' >= arrived
  /\ UNCHANGED <<given, held>>

\* Reader r takes the next bytes, as many as it likes of those there are.
Take(r) ==
  /\ given' \in given..arrived
  /\ held' = [held EXCEPT ![r] = Stretch(given, given' - given)]
  /\ UNCHANGED arrived

UseUp(r) ==
  /\ held' = [held EXCEPT ![r] = <<>>]
  /\ UNCHANGED <<arrived, given>>

Next == Deliver \/ \E r \in Readers : Take(r) \/ UseUp(r)

Spec == Init /\ [][Next]_streamVars
=============================================================================
