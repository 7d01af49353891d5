---------------------------- MODULE SourceLedgers ----------------------------
(***************************************************************************)
(* What a call of collect() may hold at each point of its script.  An      *)
(* entry is the set of the possible values of `held` at one point; a       *)
(* ledger has one for every step of a script and one for the end of each   *)
(* part.  Agrees says that no step leads out of it: neither a step that    *)
(* succeeds, nor one that is passed over or refused.                       *)
(***************************************************************************)
EXTENDS SourceCollect

\* At least R is held, and at most S.
Between(R, S) == {H \in SUBSET S : R \subseteq H}
Only(R)  == Between(R, R)
Nothing  == Only({})

Parts == {"setup", "body", "teardown"}
OwnedOf(steps) == {steps[i].on : i \in {j \in DOMAIN steps : steps[j].what = "own"}}
OwnedBy(s, p)  == OwnedOf(Scripts[s][p])

\* What each thread is given to use, until it is joined.
Lent(t, R) == {[by |-> t, of |-> r] : r \in R}
LoansOf ==
  [kqueue_events |-> Lent("poker", {"sockets", "tempfile"}),
   mach_ipc |-> Lent("receiver", {"ports"})]

At(f, s) == IF s \in DOMAIN f THEN f[s] ELSE {}

(***************************************************************************)
(* A source as its steps see it: what the round and the call own, what may *)
(* be left behind, released twice or lent, whether blocks are queued, and  *)
(* the entries at the start of the body and of the teardown.               *)
(***************************************************************************)
Context(s, local, whole, again, last) ==
  [local |-> local, whole |-> whole, owns |-> local \cup whole,
   leaks |-> At(KnownLeaks, s), panics |-> At(KnownLeaksOfPanic, s),
   strays |-> IF s \in {"iosurface_crossing", "iosurface_available"} THEN {"lock"} ELSE {},
   lends |-> At(LoansOf, s), queues |-> s = "dispatch_queue_timing",
   again |-> again, last |-> last]
ContextOf(s, L) ==
  Context(s, OwnedBy(s, "body"), OwnedBy(s, "setup"), L.body[1], L.teardown[1])

\* With H held nobody has a loan from R, and nobody in R has one.
Free(x, R, H) == \A l \in x.lends : l.by \in H => l.of \notin R /\ l.by \notin R

RoundOver(x, H) == Free(x, x.local, H) /\ H \ x.local \in x.again \cap x.last
Left(x, H, leaks) ==
  Free(x, x.local \cup x.whole, H) /\ (H \ x.local) \ x.whole \subseteq leaks

\* Where a refusal may lead when H is held, and f is expected one step on.
Refused(x, go, H, f) ==
  /\ go = "on"    => H \in f
  /\ go = "next"  => RoundOver(x, H)
  /\ go = "break" => Free(x, x.local, H) /\ H \ x.local \in x.last
  /\ go \in {"return", "found"} => Left(x, H, x.leaks)
  /\ go = "panic" => Left(x, H, x.leaks \cup x.panics)
  /\ go = "switch" => Left(x, H, {}) /\ x.leaks = {} /\ x.strays = {} /\ ~x.queues

\* What a step does when it succeeds.
Done(x, c, H, f) ==
  /\ c.what \in {"get", "own"} => (c.on \in H => c.on \in x.leaks) /\ H \cup {c.on} \in f
  /\ c.what = "put" => c.on \in H \cup x.strays /\ Free(x, {c.on}, H) /\ H \ {c.on} \in f
  /\ c.what \in {"try", "stamp"} => H \in f
  /\ c.what = "require" => (c.on \in H => H \in f)
  /\ c.what = "spawn" => Lent(c.on, c.uses \cap H) \subseteq x.lends /\ H \cup {c.on} \in f
  /\ c.what = "post" => x.queues /\ H \in f
  /\ c.what = "join" => (\A l \in x.lends : l.of # c.on) /\ H \ {c.on} \in f

Kept(x, c, e, f) ==
  /\ c.what = "own" => c.on \in x.owns
  /\ \A H \in e :
    /\ ~(c.need \subseteq H) => H \in f
    /\ c.need \subseteq H => Done(x, c, H, f)
    /\ (c.need \subseteq H /\ c.go # "never" /\ (c.what = "require" => c.on \notin H)) =>
          Free(x, c.free, H) /\ Refused(x, c.go, H \ c.free, f)

\* The entries es go with the steps; some entries from e to f do.
Chain(x, steps, es) == \A i \in 1 .. Len(steps) : Kept(x, steps[i], es[i], es[i + 1])
Leads(x, steps, e, f) ==
  /\ \E S : steps \in Seq(S)
  /\ \E es : es[1] = e /\ es[Len(steps) + 1] = f /\ Chain(x, steps, es)

\* Where the parts end.
SetUpOver(x, e)  == \A H \in e : H \in x.again \cap x.last
RoundsOver(x, e) == \A H \in e : RoundOver(x, H)
AllOver(x, e)    == \A H \in e : Free(x, x.whole, H) /\ H \ x.whole \subseteq x.leaks

Agrees(s, L) ==
  LET x == ContextOf(s, L)
      AtEnd(p) == L[p][Len(Scripts[s][p]) + 1]
  IN /\ \A p \in Parts : Len(Scripts[s][p]) \in Nat
     /\ {} \in L.setup[1]
     /\ \A p \in Parts : Chain(x, Scripts[s][p], L[p])
     /\ SetUpOver(x, AtEnd("setup"))
     /\ RoundsOver(x, AtEnd("body"))
     /\ AllOver(x, AtEnd("teardown"))

Ledger(s) == CHOOSE L : Agrees(s, L)

----------------------------- (* the invariant *) ----------------------------

Around == ContextOf(source, Ledger(source))

\* What is lent is held, and so is the thread it is lent to.
LoansHeld(x, H) == ~x.queues => \A l \in loans : l \in x.lends /\ l.by \in H /\ l.of \in H

\* A call is somewhere in its script and holds what its ledger says; it has
\* lost and released twice only what its source is known to.
LedgerInv ==
  /\ source \in DOMAIN Scripts /\ n \in Sizes
  /\ part \in Parts =>
       at \in 1 .. Len(Steps) + 1 /\ held \in Ledger(source)[part][at] /\ how = ""
  /\ part \notin Parts =>
       part = "done" /\ held \subseteq Around.leaks \cup (IF how = "panic" THEN Around.panics ELSE {})
  /\ lost \subseteq Around.leaks /\ stray \subseteq Around.strays
  /\ LoansHeld(Around, held)
=============================================================================
