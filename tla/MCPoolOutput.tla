---------------------------- MODULE MCPoolOutput ----------------------------
(* A small instance of PoolOutput: a digest has 2 bytes, a block samples 1, *)
(* a raw call tries 2 rounds; requests of every mode, one of two blocks.    *)
EXTENDS PoolOutput

CONSTANTS c1, c2

SmallRequests ==
  {[mode |-> "raw", n |-> 2], [mode |-> "vonneumann", n |-> 1],
   [mode |-> "sha256", n |-> 3]}
=============================================================================
