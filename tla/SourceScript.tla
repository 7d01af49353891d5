---------------------------- MODULE SourceScript ----------------------------
(***************************************************************************)
(* The vocabulary in which the modules Sources* write down the collect()   *)
(* of each hardware source: which kernel objects, descriptors, mappings,   *)
(* threads and children it takes, what it does when one is refused, and    *)
(* how many timings it takes for n_samples bytes.  The values read and the *)
(* arithmetic on them are left out; SourceCollect gives the steps their    *)
(* meaning.                                                                *)
(***************************************************************************)
EXTENDS Integers, Sequences

\* The values of n_samples that are tried.
CONSTANT Sizes
ASSUME SizesAssumption == Sizes \subseteq Nat

(***************************************************************************)
(* A step does something `on` a resource, and only if those in `need` are  *)
(* held.  Refused, it releases those in `free` and goes                    *)
(*   "on"     to the next step,         "next"   to the next round,        *)
(*   "break"  out of the loop,          "return" out of collect, empty,    *)
(*   "found"  out of a probe, true,     "panic"  up the stack,             *)
(*   "switch" to the source's fallback; "never": it cannot be refused.     *)
(***************************************************************************)
Step(what, on, go) ==
  [what |-> what, on |-> on, go |-> go, need |-> {}, free |-> {}, uses |-> {}]

\* Take a resource the code releases by hand, or one whose owner's Drop does
\* so at the end of the part (setup or round) it was taken in.
Get(r, go)     == Step("get", r, go)
Own(r, go)     == Step("own", r, go)
Put(r)         == Step("put", r, "never")
\* Release it unless asking for its state fails.
Reap(r)        == Step("put", r, "on")
\* A call, a test or a deadline that may say no; one that does when r is not held.
Try(go)        == Step("try", "", go)
Require(r, go) == Step("require", r, go)
Exit(go)       == Require("nothing", go)
\* Start a thread that uses the resources in R until it is joined; queue a
\* block that uses R once, and wait for it for a while.
Spawn(t, R)    == [Step("spawn", t, "panic") EXCEPT !.uses = R]
Join(t)        == Step("join", t, "never")
Post(b, R)     == [Step("post", b, "never") EXCEPT !.uses = R]
Await(b)       == Step("join", b, "on")
\* Push a timing; push it if it lies in the range kept.
Stamp          == Step("stamp", "", "never")
Filter         == Step("stamp", "", "on")

If(R, step)      == [step EXCEPT !.need = R]
Freeing(F, step) == [step EXCEPT !.free = F]

(***************************************************************************)
(* A source: `raw` rounds of `body` between `setup` and `teardown`, each   *)
(* worth `per` timings, from which the extractor `yield` makes bytes.      *)
(***************************************************************************)
Source(raw, setup, body, teardown, yield) ==
  [raw |-> raw, per |-> 1, setup |-> setup, body |-> body,
   teardown |-> teardown, yield |-> yield]

Sampler(raw, body, yield) == Source(raw, << >>, body, << >>, yield)

\* is_available probes yield no bytes.
Probe(k, body) == Sampler([n \in Sizes |-> k], body, "none")

Times(k, source) == [source EXCEPT !.per = k]

\* a * n_samples + b rounds
Linear(a, b) == [n \in Sizes |-> a * n + b]
=============================================================================
