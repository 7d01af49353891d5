----------------------------- MODULE SourcesChip ----------------------------
(***************************************************************************)
(* The sources of the category microarch.  Most time one instruction; what *)
(* can go wrong in them is the page they execute from and the threads they *)
(* contend with.                                                           *)
(***************************************************************************)
EXTENDS SourceScript

amx_timing            == Source(Linear(1, 64), <<Try("return")>>, <<Stamp>>, << >>, "timing")
denormal_timing       == Sampler(Linear(4, 64), <<Stamp>>, "timing")
speculative_execution == Sampler(Linear(1, 64), <<Stamp>>, "timing")
\* A trained and an untrained walk make one value.
prefetcher_state      == Sampler(Linear(2, 32), <<Stamp>>, "timing")
\* Both the SEV and the SEVL timing must be in range for the pair to count.
sev_event_timing      == Times(2, Sampler(Linear(4, 32), <<Filter>>, "timing"))

\* A failing CCCrypt is not timed.
commoncrypto_aes_timing == Sampler(Linear(8, 128), <<Try("next"), Filter>>, "debiased")
cccrypt_probe           == Probe(1, <<Try("next"), Exit("found")>>)

---------------------- (* instructions run from a page *) -------------------

\* The page is unmapped by its guard's Drop.
JitPage == <<Own("page", "return")>>

\* Write and exec switches are filtered one by one, then taken in pairs.
aprr_jit_timing ==
  Source(Linear(3, 64), JitPage, <<Filter, Filter>>, << >>, "pairs")
aprr_available ==
  Source(Linear(0, 0), <<Get("page", "return")>>, << >>, <<Put("page")>>, "none")

cntfrq_cache_timing == Source(Linear(8, 256), JitPage, <<Filter>>, << >>, "debiased")
cntfrq_available    == Source(Linear(0, 0), JitPage, << >>, << >>, "none")
gxf_register_timing == Source(Linear(8, 256), JitPage, <<Filter>>, << >>, "debiased")

\* Two pages, for two counters; the beats are the output.
dual_clock_domain ==
  Source(Linear(1, 64), <<Own("page_a", "return"), Own("page_b", "return")>>,
         <<Stamp>>, << >>, "bytes")

\* The unknown instruction runs in a forked child, which may die of it.  A
\* waitpid that fails gives up on the child.
probe_jit_instruction_safe ==
  Probe(1, <<Get("child", "next"), Try("next"), Put("child"), Try("next"), Exit("found")>>)

-------------------------- (* mapped memory *) ------------------------------

\* Eight regions, unmapped by their owner's Drop even when one is refused.
memory_bus_crypto ==
  Source(Linear(20, 128), <<Own("regions", "return"), Try("return")>>,
         <<Stamp>>, << >>, "timing")

tlb_shootdown ==
  Source(Linear(4, 64), <<Get("region", "return")>>, <<Stamp>>, <<Put("region")>>,
         "variance")

------------------------------ (* threads *) --------------------------------

\* thread::spawn panics when the system has no thread to give.  The workers
\* spawned before that spin on `go` until they are told to start.
cas_contention ==
  Source(Linear(4, 64), <<Spawn("worker1", {}), Spawn("worker2", {})>>,
         <<Stamp>>, <<Join("worker1"), Join("worker2")>>, "guarded")

\* The round's two counting threads spin until `stop`.
dvfs_race ==
  Sampler([n \in Sizes |-> IF 4 * n + 64 < 256 THEN 4 * n + 64 ELSE 256],
          <<Spawn("counter1", {}), Spawn("counter2", {}),
            Join("counter1"), Join("counter2"), Stamp>>, "timing")

\* Two values for each of the main thread's timings that is in range and that
\* the contender can match with one of its own.
icc_atomic_contention ==
  Times(2, Source(Linear(8, 64), <<Spawn("contender", {})>>, <<Filter>>,
                  <<Join("contender")>>, "timing"))

\* The companion thread keeps the vector unit busy until `stop`.
sitva ==
  Source(Linear(4, 128), <<Spawn("companion", {})>>, <<Stamp>>, <<Join("companion")>>,
         "debiased")

-------------------- (* sources, fallbacks and probes *) --------------------

ChipScripts ==
  [amx_timing |-> amx_timing, denormal_timing |-> denormal_timing,
   speculative_execution |-> speculative_execution, prefetcher_state |-> prefetcher_state,
   sev_event_timing |-> sev_event_timing,
   commoncrypto_aes_timing |-> commoncrypto_aes_timing, cccrypt_probe |-> cccrypt_probe,
   aprr_jit_timing |-> aprr_jit_timing, aprr_available |-> aprr_available,
   cntfrq_cache_timing |-> cntfrq_cache_timing, cntfrq_available |-> cntfrq_available,
   gxf_register_timing |-> gxf_register_timing, dual_clock_domain |-> dual_clock_domain,
   probe_jit_instruction_safe |-> probe_jit_instruction_safe,
   memory_bus_crypto |-> memory_bus_crypto, tlb_shootdown |-> tlb_shootdown,
   cas_contention |-> cas_contention, dvfs_race |-> dvfs_race,
   icc_atomic_contention |-> icc_atomic_contention, sitva |-> sitva]
=============================================================================
