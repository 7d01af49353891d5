------------------------- MODULE SourceCollectProofs -------------------------
(***************************************************************************)
(* Proofs about a call of collect(), for any number of rounds and of bytes *)
(* asked for.  Every source oversamples enough: the timings of all its     *)
(* rounds make that many bytes.  No source loses or releases twice what it *)
(* takes, but for the known ones: each has a ledger, made step by step in  *)
(* the manner of Hoare's rules, and no call leads out of it.               *)
(***************************************************************************)
EXTENDS SourceLedgers, TLAPS

\* The timings of all rounds make all the bytes asked for, whatever that is.
Enough(script) ==
  \A m \in Sizes : Yield(script.yield, script.raw[m] * script.per, m) = {m}

\* What the extractors that lose little make of more timings than bytes.
LEMMA YieldsAll ==
  ASSUME NEW m \in Nat, NEW t \in Nat, t >= m + 3, t >= 4,
         NEW kind \in {"timing", "guarded", "variance"}
  PROVE  Yield(kind, t, m) = {m}
<1>1. extract_timing_entropy(t, m) = {m} /\ extract_timing_entropy_variance(t, m) = {m}
  BY DEF extract_timing_entropy, extract_timing_entropy_variance, Least
<1>2. ~(t < 4)
  OBVIOUS
<1>3. Yield(kind, t, m) \in {extract_timing_entropy(t, m), extract_timing_entropy_variance(t, m)}
  BY <1>2 DEF Yield
<1> QED
  BY <1>1, <1>3

LEMMA Multiple ==
  ASSUME NEW x \in Nat, NEW k \in Nat \ {0}
  PROVE  k * x \in Nat /\ k * x >= x
<1>1. PICK j \in Nat : j = k - 1
  OBVIOUS
<1>2. (j + 1) * x = j * x + x /\ j * x \in Nat
  OBVIOUS
<1>3. PICK y \in Nat : y = j * x
  BY <1>2
<1>4. k = j + 1
  BY <1>1
<1> QED
  BY <1>2, <1>3, <1>4

\* a rounds for each byte, and a few more.
LEMMA LinearIs ==
  ASSUME NEW a \in Nat \ {0}, NEW b \in Nat, NEW c \in Nat \ {0}, NEW m \in Sizes
  PROVE  Linear(a, b)[m] * c \in Nat /\ Linear(a, b)[m] * c >= m + b
<1>1. m \in Nat
  BY SizesAssumption
<1>2. PICK y \in Nat : y = a * m /\ y >= m
  BY <1>1, Multiple
<1>3. Linear(a, b)[m] = y + b /\ y + b \in Nat
  BY <1>2 DEF Linear
<1>4. c * (y + b) \in Nat /\ c * (y + b) >= y + b
  BY <1>2, Multiple
<1>5. PICK r \in Nat : r = y + b
  BY <1>3
<1>6. r * c = c * r
  OBVIOUS
<1>7. PICK z \in Nat : z = c * r
  BY <1>4, <1>5
<1> QED
  BY <1>1, <1>2, <1>3, <1>4, <1>5, <1>6, <1>7

LEMMA LinearEnough ==
  ASSUME NEW a \in Nat \ {0}, NEW b \in Nat, NEW c \in Nat \ {0}, b >= 4, NEW script,
         script.raw = Linear(a, b), script.per = c,
         script.yield \in {"timing", "guarded", "variance"}
  PROVE  Enough(script)
<1> SUFFICES ASSUME NEW m \in Sizes
             PROVE  Yield(script.yield, script.raw[m] * script.per, m) = {m}
  BY DEF Enough
<1>1. PICK t \in Nat : t = script.raw[m] * script.per /\ t >= m + b
  BY LinearIs
<1>2. m \in Nat
  BY SizesAssumption
<1>3. t >= m + 3 /\ t >= 4
  BY <1>1, <1>2
<1> QED
  BY <1>1, <1>2, <1>3, YieldsAll

LEMMA LinearBytes ==
  ASSUME NEW a \in Nat \ {0}, NEW b \in Nat, NEW c \in Nat \ {0}, NEW script,
         script.raw = Linear(a, b), script.per = c, script.yield = "bytes"
  PROVE  Enough(script)
<1> SUFFICES ASSUME NEW m \in Sizes
             PROVE  Yield(script.yield, script.raw[m] * script.per, m) = {m}
  BY DEF Enough
<1>1. PICK t \in Nat : t = script.raw[m] * script.per /\ t >= m + b
  BY LinearIs
<1>2. m \in Nat
  BY SizesAssumption
<1>3. Yield("bytes", t, m) = {m}
  BY <1>1, <1>2 DEF Yield, Least
<1> QED
  BY <1>1, <1>3

-------------------------- (* the sources, one by one *) --------------------------

LEMMA KernelEnough ==
  ASSUME NEW s \in DOMAIN KernelScripts
  PROVE  KernelScripts[s].yield \in Lossy \/ Enough(KernelScripts[s])
<1>0. /\ 1 \in Nat \ {0} /\ 2 \in Nat \ {0} /\ 4 \in Nat \ {0}
      /\ 32 \in Nat /\ 64 \in Nat /\ 32 >= 4 /\ 64 >= 4
  OBVIOUS
<1>1. ASSUME NEW x \in {clock_jitter, mach_continuous_timing, dram_row_buffer, ane_timing,
                        mach_ipc, mach_ipc_plain, mach_ipc_simple, pipe_buffer,
                        collect_single_pipe, disk_io, nvme_iokit_sensors, nvme_raw_device,
                        iosurface_crossing, keychain_write, nvme_passthrough_linux}
      PROVE  Enough(x)
  <2>1. x.raw = Linear(4, 64) /\ x.per = 1 /\ x.yield \in {"timing", "guarded", "variance"}
    BY DEF clock_jitter, mach_continuous_timing, dram_row_buffer, ane_timing, mach_ipc,
           mach_ipc_plain, mach_ipc_simple, pipe_buffer, collect_single_pipe, disk_io,
           nvme_iokit_sensors, nvme_raw_device, iosurface_crossing, keychain_write,
           nvme_passthrough_linux, Sampler, Source
  <2> QED
    BY <1>0, <2>1, LinearEnough
<1>2. ASSUME NEW x \in {mach_timing, kqueue_events, nl_inference_timing}
      PROVE  Enough(x)
  <2>1. x.raw = Linear(1, 64) /\ x.per = 1 /\ x.yield = "timing"
    BY DEF mach_timing, kqueue_events, nl_inference_timing, Sampler, Source
  <2> QED
    BY <1>0, <2>1, LinearEnough
<1>3. ASSUME NEW x \in {keychain_read, fsync_journal, gpu_divergence}
      PROVE  Enough(x)
  <2>1. x.raw = Linear(2, 64) /\ x.per = 1 /\ x.yield \in {"timing", "variance"}
    BY DEF keychain_read, fsync_journal, gpu_divergence, Sampler, Source
  <2> QED
    BY <1>0, <2>1, LinearEnough
<1>4. Enough(usb_enumeration)
  <2>1. /\ usb_enumeration.raw = Linear(2, 32) /\ usb_enumeration.per = 1
        /\ usb_enumeration.yield = "timing"
    BY DEF usb_enumeration, Sampler, Source
  <2> QED
    BY <1>0, <2>1, LinearEnough
<1>5. Enough(page_fault_timing)
  <2> SUFFICES ASSUME NEW m \in Sizes
               PROVE  Yield(page_fault_timing.yield,
                            page_fault_timing.raw[m] * page_fault_timing.per, m) = {m}
    BY DEF Enough
  <2>1. /\ page_fault_timing.raw[m] = (4 * m) \div 8 + 4 /\ page_fault_timing.per = 8
        /\ page_fault_timing.yield = "timing"
    BY DEF page_fault_timing, Sampler, Source, Times
  <2>2. m \in Nat
    BY SizesAssumption
  <2>3. PICK t \in Nat : t = ((4 * m) \div 8 + 4) * 8 /\ t >= m + 3 /\ t >= 4
    BY <2>2
  <2> QED
    BY <2>1, <2>2, <2>3, YieldsAll
<1>6. ASSUME NEW x \in {commpage_clock_timing, has_ane_services, has_nvme_services,
                        has_nvme_passthrough, can_open_raw_device, metal_available,
                        iosurface_available}
      PROVE  x.yield \in Lossy
  BY DEF Lossy, commpage_clock_timing, has_ane_services, has_nvme_services,
         has_nvme_passthrough, can_open_raw_device, metal_available, iosurface_available,
         AnyService, Probe, Sampler, Source
<1>7. KernelScripts[s] \in
        {clock_jitter, mach_continuous_timing, dram_row_buffer, ane_timing,
         mach_ipc, mach_ipc_plain, mach_ipc_simple, pipe_buffer,
         collect_single_pipe, disk_io, nvme_iokit_sensors, nvme_raw_device,
         iosurface_crossing, keychain_write, nvme_passthrough_linux}
        \cup {mach_timing, kqueue_events, nl_inference_timing}
        \cup {keychain_read, fsync_journal, gpu_divergence}
        \cup {usb_enumeration, page_fault_timing}
        \cup {commpage_clock_timing, has_ane_services, has_nvme_services,
              has_nvme_passthrough, can_open_raw_device, metal_available, iosurface_available}
  BY DEF KernelScripts
<1> QED
  BY <1>1, <1>2, <1>3, <1>4, <1>5, <1>6, <1>7

LEMMA ChipEnough ==
  ASSUME NEW s \in DOMAIN ChipScripts, s \notin Capped
  PROVE  ChipScripts[s].yield \in Lossy \/ Enough(ChipScripts[s])
<1>0. /\ 1 \in Nat \ {0} /\ 2 \in Nat \ {0} /\ 4 \in Nat \ {0} /\ 8 \in Nat \ {0}
      /\ 20 \in Nat \ {0}
      /\ 32 \in Nat /\ 64 \in Nat /\ 128 \in Nat /\ 32 >= 4 /\ 64 >= 4 /\ 128 >= 4
  OBVIOUS
<1>1. ASSUME NEW x \in {denormal_timing, tlb_shootdown, cas_contention}
      PROVE  Enough(x)
  <2>1. x.raw = Linear(4, 64) /\ x.per = 1 /\ x.yield \in {"timing", "guarded", "variance"}
    BY DEF denormal_timing, tlb_shootdown, cas_contention, Sampler, Source
  <2> QED
    BY <1>0, <2>1, LinearEnough
<1>2. ASSUME NEW x \in {amx_timing, speculative_execution}
      PROVE  Enough(x)
  <2>1. x.raw = Linear(1, 64) /\ x.per = 1 /\ x.yield = "timing"
    BY DEF amx_timing, speculative_execution, Sampler, Source
  <2> QED
    BY <1>0, <2>1, LinearEnough
<1>3. Enough(prefetcher_state) /\ Enough(memory_bus_crypto)
  <2>1. /\ prefetcher_state.raw = Linear(2, 32) /\ prefetcher_state.per = 1
        /\ prefetcher_state.yield = "timing"
    BY DEF prefetcher_state, Sampler, Source
  <2>2. /\ memory_bus_crypto.raw = Linear(20, 128) /\ memory_bus_crypto.per = 1
        /\ memory_bus_crypto.yield = "timing"
    BY DEF memory_bus_crypto, Source
  <2>3. Enough(prefetcher_state)
    BY <1>0, <2>1, LinearEnough
  <2>4. Enough(memory_bus_crypto)
    BY <1>0, <2>2, LinearEnough
  <2> QED
    BY <2>3, <2>4
<1>4. Enough(sev_event_timing) /\ Enough(icc_atomic_contention)
  <2>1. /\ sev_event_timing.raw = Linear(4, 32) /\ sev_event_timing.per = 2
        /\ sev_event_timing.yield = "timing"
    BY DEF sev_event_timing, Sampler, Source, Times
  <2>2. /\ icc_atomic_contention.raw = Linear(8, 64) /\ icc_atomic_contention.per = 2
        /\ icc_atomic_contention.yield = "timing"
    BY DEF icc_atomic_contention, Source, Times
  <2>3. Enough(sev_event_timing)
    BY <1>0, <2>1, LinearEnough
  <2>4. Enough(icc_atomic_contention)
    BY <1>0, <2>2, LinearEnough
  <2> QED
    BY <2>3, <2>4
<1>5. Enough(dual_clock_domain)
  <2>1. /\ dual_clock_domain.raw = Linear(1, 64) /\ dual_clock_domain.per = 1
        /\ dual_clock_domain.yield = "bytes"
    BY DEF dual_clock_domain, Source
  <2> QED
    BY <1>0, <2>1, LinearBytes
<1>6. ASSUME NEW x \in {commoncrypto_aes_timing, cccrypt_probe, probe_jit_instruction_safe,
                        aprr_jit_timing, aprr_available, cntfrq_available,
                        cntfrq_cache_timing, gxf_register_timing, sitva}
      PROVE  x.yield \in Lossy
  BY DEF Lossy, commoncrypto_aes_timing, cccrypt_probe, probe_jit_instruction_safe,
         aprr_jit_timing, aprr_available, cntfrq_available, cntfrq_cache_timing,
         gxf_register_timing, sitva, Probe, Sampler, Source
<1>7. ChipScripts[s] \in
        {denormal_timing, tlb_shootdown, cas_contention, amx_timing, speculative_execution}
        \cup {prefetcher_state, memory_bus_crypto, sev_event_timing, icc_atomic_contention,
              dual_clock_domain}
        \cup {commoncrypto_aes_timing, cccrypt_probe, probe_jit_instruction_safe,
              aprr_jit_timing, aprr_available, cntfrq_available, cntfrq_cache_timing,
              gxf_register_timing, sitva}
  BY DEF ChipScripts, Capped
<1> QED
  BY <1>1, <1>2, <1>3, <1>4, <1>5, <1>6, <1>7

LEMMA HostEnough ==
  ASSUME NEW s \in DOMAIN HostScripts, s \notin Capped
  PROVE  HostScripts[s].yield \in Lossy \/ Enough(HostScripts[s])
<1>0. /\ 1 \in Nat \ {0} /\ 2 \in Nat \ {0} /\ 3 \in Nat \ {0} /\ 4 \in Nat \ {0}
      /\ 8 \in Nat \ {0} /\ 12 \in Nat \ {0}
      /\ 32 \in Nat /\ 64 \in Nat /\ 32 >= 4 /\ 64 >= 4
  OBVIOUS
<1>1. ASSUME NEW x \in {pe_core_arithmetic, thread_lifecycle, compression_timing, hash_timing,
                        audio_pll_timing, display_pll, pcie_pll, counter_beat}
      PROVE  Enough(x)
  <2>1. x.raw = Linear(4, 64) /\ x.per = 1 /\ x.yield \in {"timing", "guarded"}
    BY DEF pe_core_arithmetic, thread_lifecycle, compression_timing, hash_timing,
           audio_pll_timing, display_pll, pcie_pll, counter_beat, Sampler, Source
  <2> QED
    BY <1>0, <2>1, LinearEnough
<1>2. ASSUME NEW x \in {dns_timing, tcp_connect_timing}
      PROVE  Enough(x)
  <2>1. x.raw = Linear(1, 64) /\ x.per = 1 /\ x.yield = "timing"
    BY DEF dns_timing, tcp_connect_timing, Sampler, Source
  <2> QED
    BY <1>0, <2>1, LinearEnough
<1>3. Enough(dispatch_queue_timing) /\ Enough(timer_coalescing) /\ Enough(sleep_jitter)
  <2>1. /\ dispatch_queue_timing.raw = Linear(8, 64) /\ dispatch_queue_timing.per = 1
        /\ dispatch_queue_timing.yield = "timing"
    BY DEF dispatch_queue_timing, Sampler, Source
  <2>2. /\ timer_coalescing.raw = Linear(12, 64) /\ timer_coalescing.per = 1
        /\ timer_coalescing.yield = "timing"
    BY DEF timer_coalescing, Sampler, Source
  <2>3. sleep_jitter.raw = Linear(2, 64) /\ sleep_jitter.per = 1 /\ sleep_jitter.yield = "timing"
    BY DEF sleep_jitter, Sampler, Source
  <2>4. Enough(dispatch_queue_timing)
    BY <1>0, <2>1, LinearEnough
  <2>5. Enough(timer_coalescing)
    BY <1>0, <2>2, LinearEnough
  <2>6. Enough(sleep_jitter)
    BY <1>0, <2>3, LinearEnough
  <2> QED
    BY <2>4, <2>5, <2>6
<1>4. Enough(smc_highvar_timing) /\ Enough(getentropy_timing) /\ Enough(proc_info_timing)
  <2>1. /\ smc_highvar_timing.raw = Linear(3, 32) /\ smc_highvar_timing.per = 2
        /\ smc_highvar_timing.yield = "timing"
    BY DEF smc_highvar_timing, Source, Times
  <2>2. /\ getentropy_timing.raw = Linear(2, 32) /\ getentropy_timing.per = 1
        /\ getentropy_timing.yield = "timing"
    BY DEF getentropy_timing, Sampler, Source
  <2>3. /\ proc_info_timing.raw = Linear(2, 32) /\ proc_info_timing.per = 2
        /\ proc_info_timing.yield = "timing"
    BY DEF proc_info_timing, Sampler, Source, Times
  <2>4. Enough(smc_highvar_timing)
    BY <1>0, <2>1, LinearEnough
  <2>5. Enough(getentropy_timing)
    BY <1>0, <2>2, LinearEnough
  <2>6. Enough(proc_info_timing)
    BY <1>0, <2>3, LinearEnough
  <2> QED
    BY <2>4, <2>5, <2>6
<1>5. Enough(preemption_boundary) /\ Enough(process_table)
  <2> SUFFICES ASSUME NEW m \in Sizes
               PROVE  /\ Yield(preemption_boundary.yield,
                               preemption_boundary.raw[m] * preemption_boundary.per, m) = {m}
                      /\ Yield(process_table.yield,
                               process_table.raw[m] * process_table.per, m) = {m}
    BY DEF Enough
  <2>1. PICK t \in Nat : t = (IF 8 * m < 16384 THEN 16384 ELSE 8 * m) /\ t >= m /\ t # 0
    BY SizesAssumption
  <2>2. PICK u \in Nat : u = (IF 2 * m < 256 THEN 256 ELSE 2 * m) /\ u >= m
    BY SizesAssumption
  <2>3. preemption_boundary.raw[m] * preemption_boundary.per = t
    BY <2>1 DEF preemption_boundary, Sampler, Source
  <2>4. process_table.raw[m] * process_table.per = u
    BY <2>2 DEF process_table, collect_getpid_jitter, Source
  <2>5. preemption_boundary.yield = "topped" /\ process_table.yield = "bytes"
    BY DEF preemption_boundary, process_table, Sampler, Source
  <2>6. m \in Nat
    BY SizesAssumption
  <2>7. Yield("topped", t, m) = {m}
    BY <2>1, <2>6 DEF Yield, Least
  <2>8. Yield("bytes", u, m) = {m}
    BY <2>2, <2>6 DEF Yield, Least
  <2> QED
    BY <2>3, <2>4, <2>5, <2>7, <2>8
<1>6. ASSUME NEW x \in {audio_noise, smc_available, ioregistry, sysctl_deltas, vmstat_deltas,
                        has_pcie_services}
      PROVE  x.yield \in Lossy
  BY DEF Lossy, audio_noise, smc_available, ioregistry, sysctl_deltas, vmstat_deltas,
         has_pcie_services, Snapshots, AnyService, Probe, Sampler, Source
<1>7. HostScripts[s] \in
        {pe_core_arithmetic, thread_lifecycle, compression_timing, hash_timing,
         audio_pll_timing, display_pll, pcie_pll, counter_beat}
        \cup {dns_timing, tcp_connect_timing, dispatch_queue_timing, timer_coalescing,
              sleep_jitter}
        \cup {smc_highvar_timing, getentropy_timing, proc_info_timing, preemption_boundary,
              process_table}
        \cup {audio_noise, smc_available, ioregistry, sysctl_deltas, vmstat_deltas,
              has_pcie_services}
  BY DEF HostScripts, Capped
<1> QED
  BY <1>1, <1>2, <1>3, <1>4, <1>5, <1>6, <1>7

LEMMA ScriptEnough ==
  ASSUME NEW s \in DOMAIN Scripts, s \notin Capped, Scripts[s].yield \notin Lossy
  PROVE  Enough(Scripts[s])
<1>1. \/ s \in DOMAIN KernelScripts /\ Scripts[s] = KernelScripts[s]
      \/ s \in DOMAIN ChipScripts /\ Scripts[s] = ChipScripts[s]
      \/ s \in DOMAIN HostScripts /\ Scripts[s] = HostScripts[s]
  BY DEF Scripts
<1> QED
  BY <1>1, KernelEnough, ChipEnough, HostEnough

------------------------- (* the invariant *) --------------------------------

\* A call has ended once it says how, and nothing changes its answer then.
EndInv ==
  /\ source \in DOMAIN Scripts /\ n \in Sizes
  /\ how # "" => part = "done"
  /\ OversamplingSuffices

LEMMA FallbackIsSource == \A s \in DOMAIN Fallback : Fallback[s] \in DOMAIN Scripts
BY DEF Fallback, Scripts, KernelScripts

\* Before a call ends it has not said how.
LEMMA GoingOn ==
  ASSUME EndInv, part # "done", source' \in DOMAIN Scripts, UNCHANGED n,
         how' # "" => part' = "done" /\ how' # "finish"
  PROVE  EndInv'
BY DEF EndInv, OversamplingSuffices

LEMMA EndStep == EndInv /\ [Next]_vars => EndInv'
<1> SUFFICES ASSUME EndInv, [Next]_vars PROVE EndInv'
  OBVIOUS
<1>1. CASE Skip \/ Acquire \/ Release \/ Pass \/ Hand \/ Rejoin
  <2>1. part # "done" /\ how = "" /\ UNCHANGED <<source, n, how>>
    BY <1>1 DEF EndInv, Skip, Acquire, Release, Pass, Hand, Rejoin, Here, Running, result
  <2> QED
    BY <2>1, GoingOn DEF EndInv
<1>2. CASE Refuse
  <2>1. part # "done" /\ how = "" /\ UNCHANGED n
    BY <1>2 DEF EndInv, Refuse, Here, Running
  <2>2. PICK go, H : Jump(go, H)
    BY <1>2 DEF Refuse
  <2>3. source' \in DOMAIN Scripts
    BY <2>2, FallbackIsSource DEF EndInv, Jump
  <2>4. how' # "" => part' = "done" /\ how' # "finish"
    BY <2>1, <2>2 DEF Jump, End, result
  <2> QED
    BY <2>1, <2>3, <2>4, GoingOn
<1>3. CASE SetUp \/ EndRound
  <2>1. part # "done" /\ how = "" /\ UNCHANGED <<source, n, how>>
    BY <1>3 DEF EndInv, SetUp, EndRound, result
  <2> QED
    BY <2>1, GoingOn DEF EndInv
<1>4. CASE BlockRuns
  <2>1. UNCHANGED <<source, n, part, gap, how, out>>
    BY <1>4 DEF BlockRuns, place, result
  <2> QED
    BY <2>1 DEF EndInv, OversamplingSuffices, Script
<1>5. CASE Finish
  <2>1. part' = "done" /\ UNCHANGED <<source, n, gap>>
    BY <1>5 DEF Finish, End
  <2>2. ASSUME ~gap, source \notin Capped, Script.yield \notin Lossy
        PROVE  out' = n
    <3>1. Enough(Script)
      BY <2>2, ScriptEnough DEF EndInv, Script
    <3>2. Yield(Script.yield, Full, n) = {n}
      BY <3>1 DEF Enough, EndInv, Full
    <3>3. out' \in Yield(Script.yield, Full, n)
      BY <1>5, <2>2 DEF Finish, Timings
    <3> QED
      BY <3>2, <3>3
  <2> QED
    BY <2>1, <2>2 DEF EndInv, OversamplingSuffices, Script
<1>6. CASE UNCHANGED vars
  BY <1>6 DEF EndInv, OversamplingSuffices, Script, vars
<1> QED
  BY <1>1, <1>2, <1>3, <1>4, <1>5, <1>6 DEF Next

\* A source that took all its timings gives all the bytes that were asked for,
\* for any number of them (OversamplingSuffices): no factor or constant of the
\* rounds that any collect() makes is one too small for what its extractor drops.
THEOREM EnoughForAnyRequest == Spec => []OversamplingSuffices
<1>1. Init => EndInv
  BY DEF Init, EndInv, OversamplingSuffices
<1>2. EndInv => OversamplingSuffices
  BY DEF EndInv
<1> QED
  BY <1>1, <1>2, EndStep, PTL DEF Spec

---------------------------- (* rules for steps *) ----------------------------

\* A step made by Step has the fields it is given and frees nothing.
LEMMA StepFields ==
  ASSUME NEW w, NEW r, NEW go
  PROVE  /\ Step(w, r, go).what = w /\ Step(w, r, go).on = r /\ Step(w, r, go).go = go
         /\ Step(w, r, go).need = {} /\ Step(w, r, go).free = {} /\ Step(w, r, go).uses = {}
BY DEF Step

\* Freeing nothing is allowed and changes nothing.
LEMMA NothingFreed == ASSUME NEW x, NEW H PROVE Free(x, {}, H) /\ H \ {} = H
BY DEF Free

\* A step that needs nothing to be held and frees nothing when it is refused.
LEMMA PlainKept ==
  ASSUME NEW x, NEW c, NEW e, NEW f, c.need = {}, c.free = {},
         c.what # "own" \/ c.on \in x.owns,
         \A H \in e : Done(x, c, H, f),
         \A H \in e : c.go # "never" /\ (c.what = "require" => c.on \notin H)
                        => Refused(x, c.go, H, f)
  PROVE  Kept(x, c, e, f)
<1>1. \A H : c.need \subseteq H /\ Free(x, c.free, H) /\ H \ c.free = H
  BY NothingFreed
<1> QED
  BY <1>1 DEF Kept

\* A timing is taken or discarded: what is held stays.
LEMMA StampKept ==
  ASSUME NEW x, NEW e, NEW f, e \subseteq f
  PROVE  Kept(x, Stamp, e, f) /\ Kept(x, Filter, e, f)
<1>1. ASSUME NEW go \in {"never", "on"} PROVE Kept(x, Step("stamp", "", go), e, f)
  <2> DEFINE c == Step("stamp", "", go)
  <2>1. c.what = "stamp" /\ c.go = go /\ c.need = {} /\ c.free = {}
    BY DEF Step
  <2> HIDE DEF c
  <2>2. \A H \in e : Done(x, c, H, f) /\ (c.go # "never" => Refused(x, c.go, H, f))
    BY <2>1 DEF Done, Refused
  <2> QED
    BY <2>1, <2>2, PlainKept DEF c
<1> QED
  BY <1>1 DEF Stamp, Filter

\* A call that may be refused, which takes nothing.
LEMMA TryKept ==
  ASSUME NEW x, NEW e, NEW f, NEW go, e \subseteq f, \A H \in e : Refused(x, go, H, f)
  PROVE  Kept(x, Try(go), e, f)
<1> DEFINE c == Try(go)
<1>1. c.what = "try" /\ c.go = go /\ c.need = {} /\ c.free = {}
  BY DEF Step, Try
<1> HIDE DEF c
<1>2. \A H \in e : Done(x, c, H, f)
  BY <1>1 DEF Done
<1> QED
  BY <1>1, <1>2, PlainKept DEF c

\* Taking r: it must not be held already, unless it is known to leak.
LEMMA GetKept ==
  ASSUME NEW x, NEW e, NEW f, NEW r, NEW go,
         \A H \in e : (r \in H => r \in x.leaks) /\ H \cup {r} \in f,
         go # "never" => \A H \in e : Refused(x, go, H, f)
  PROVE  Kept(x, Get(r, go), e, f) /\ (r \in x.owns => Kept(x, Own(r, go), e, f))
<1>1. ASSUME NEW w \in {"get", "own"}, w = "get" \/ r \in x.owns
      PROVE  Kept(x, Step(w, r, go), e, f)
  <2> DEFINE c == Step(w, r, go)
  <2>1. c.what = w /\ c.on = r /\ c.go = go /\ c.need = {} /\ c.free = {}
    BY StepFields
  <2> HIDE DEF c
  <2>2. \A H \in e : Done(x, c, H, f)
    BY <2>1 DEF Done
  <2> QED
    BY <1>1, <2>1, <2>2, PlainKept DEF c
<1> QED
  BY <1>1 DEF Get, Own

\* Giving r back: it must be held, and lent to nobody.
LEMMA PutKept ==
  ASSUME NEW x, NEW e, NEW f, NEW r,
         \A H \in e : r \in H \cup x.strays /\ Free(x, {r}, H) /\ H \ {r} \in f
  PROVE  /\ Kept(x, Put(r), e, f)
         /\ e \subseteq f => Kept(x, Reap(r), e, f)
<1>1. ASSUME NEW go \in {"never", "on"}, go = "on" => e \subseteq f
      PROVE  Kept(x, Step("put", r, go), e, f)
  <2> DEFINE c == Step("put", r, go)
  <2>1. c.what = "put" /\ c.on = r /\ c.go = go /\ c.need = {} /\ c.free = {}
    BY StepFields
  <2> HIDE DEF c
  <2>2. \A H \in e : Done(x, c, H, f)
    BY <2>1 DEF Done
  <2>3. \A H \in e : c.go # "never" => Refused(x, c.go, H, f)
    BY <1>1, <2>1 DEF Refused
  <2> QED
    BY <2>1, <2>2, <2>3, PlainKept DEF c
<1> QED
  BY <1>1 DEF Put, Reap

\* A test of what is held.
LEMMA RequireKept ==
  ASSUME NEW x, NEW e, NEW f, NEW r, NEW go,
         \A H \in e : r \in H => H \in f,
         \A H \in e : r \notin H => Refused(x, go, H, f)
  PROVE  Kept(x, Require(r, go), e, f)
<1> DEFINE c == Require(r, go)
<1>1. c.what = "require" /\ c.on = r /\ c.go = go /\ c.need = {} /\ c.free = {}
  BY StepFields DEF Require
<1> HIDE DEF c
<1>2. \A H \in e : Done(x, c, H, f)
  BY <1>1 DEF Done
<1> QED
  BY <1>1, <1>2, PlainKept DEF c

\* Joining a thread ends its loans.
LEMMA JoinKept ==
  ASSUME NEW x, NEW e, NEW f, NEW t, \A l \in x.lends : l.of # t, \A H \in e : H \ {t} \in f
  PROVE  /\ Kept(x, Join(t), e, f)
         /\ e \subseteq f => Kept(x, Await(t), e, f)
<1>1. ASSUME NEW go \in {"never", "on"}, go = "on" => e \subseteq f
      PROVE  Kept(x, Step("join", t, go), e, f)
  <2> DEFINE c == Step("join", t, go)
  <2>1. c.what = "join" /\ c.on = t /\ c.go = go /\ c.need = {} /\ c.free = {}
    BY StepFields
  <2> HIDE DEF c
  <2>2. \A H \in e : Done(x, c, H, f)
    BY <2>1 DEF Done
  <2>3. \A H \in e : c.go # "never" => Refused(x, c.go, H, f)
    BY <1>1, <2>1 DEF Refused
  <2> QED
    BY <2>1, <2>2, <2>3, PlainKept DEF c
<1> QED
  BY <1>1 DEF Join, Await

\* Starting a thread lends it what it uses.
LEMMA SpawnKept ==
  ASSUME NEW x, NEW e, NEW f, NEW t, NEW R,
         \A H \in e : Lent(t, R \cap H) \subseteq x.lends /\ H \cup {t} \in f,
         \A H \in e : Refused(x, "panic", H, f)
  PROVE  Kept(x, Spawn(t, R), e, f)
<1> DEFINE c == Spawn(t, R)
<1>1. /\ c.what = "spawn" /\ c.on = t /\ c.go = "panic" /\ c.need = {} /\ c.free = {}
      /\ c.uses = R
  BY DEF Spawn, Step
<1> HIDE DEF c
<1>2. \A H \in e : Done(x, c, H, f)
  BY <1>1 DEF Done
<1> QED
  BY <1>1, <1>2, PlainKept DEF c

\* A step that depends on r: where r is not held it is passed over.
LEMMA IfKept ==
  ASSUME NEW x, NEW e, NEW f, NEW w, NEW r, NEW on, NEW go,
         \A H \in e : r \notin H => H \in f,
         Kept(x, Step(w, on, go), {H \in e : r \in H}, f)
  PROVE  Kept(x, If({r}, Step(w, on, go)), e, f)
<1> DEFINE c == Step(w, on, go)
           d == If({r}, c)
<1>1. /\ c.need = {} /\ d.need = {r} /\ d.what = c.what /\ d.on = c.on /\ d.go = c.go
      /\ d.free = c.free /\ d.uses = c.uses
  BY DEF If, Step
<1> HIDE DEF c, d
<1>2. \A H : Done(x, c, H, f) => Done(x, d, H, f)
  BY <1>1 DEF Done
<1> QED
  BY <1>1, <1>2 DEF Kept, c, d

\* Taking on only when r is held.
LEMMA IfGetKept ==
  ASSUME NEW x, NEW e, NEW f, NEW r, NEW on, e \subseteq f,
         \A H \in e : r \in H => (on \in H => on \in x.leaks) /\ H \cup {on} \in f
  PROVE  Kept(x, If({r}, Get(on, "on")), e, f)
<1>1. Kept(x, Get(on, "on"), {H \in e : r \in H}, f)
  BY GetKept DEF Refused
<1> QED
  BY <1>1, IfKept DEF Get

\* Giving on back only when r is held.
LEMMA IfPutKept ==
  ASSUME NEW x, NEW e, NEW f, NEW r, NEW on,
         \A H \in e : r \notin H => H \in f,
         \A H \in e : r \in H => on \in H \cup x.strays /\ Free(x, {on}, H) /\ H \ {on} \in f
  PROVE  /\ Kept(x, If({r}, Put(on)), e, f)
         /\ e \subseteq f => Kept(x, If({r}, Reap(on)), e, f)
<1>1. /\ Kept(x, Put(on), {H \in e : r \in H}, f)
      /\ e \subseteq f => Kept(x, Reap(on), {H \in e : r \in H}, f)
  BY PutKept
<1> QED
  BY <1>1, IfKept DEF Put, Reap

\* Taking a resource, or giving up and freeing those in F.
LEMMA GetFreeingKept ==
  ASSUME NEW x, NEW e, NEW f, NEW r, NEW go, NEW F,
         \A H \in e : (r \in H => r \in x.leaks) /\ H \cup {r} \in f,
         \A H \in e : Free(x, F, H) /\ Refused(x, go, H \ F, f)
  PROVE  Kept(x, Freeing(F, Get(r, go)), e, f)
<1> DEFINE c == Freeing(F, Get(r, go))
<1>1. c.what = "get" /\ c.on = r /\ c.go = go /\ c.need = {} /\ c.free = F
  BY DEF Freeing, Get, Step
<1> HIDE DEF c
<1>2. \A H \in e : Done(x, c, H, f)
  BY <1>1 DEF Done
<1> QED
  BY <1>1, <1>2 DEF Kept, c

------------------------ (* ledgers of step sequences *) ----------------------

\* Steps lead from the first entry to the last when each leads to the next.
LEMMA Leads0 == ASSUME NEW x, NEW e PROVE Leads(x, << >>, e, e)
<1> DEFINE es == <<e>>
<1>1. << >> \in Seq({}) /\ Len(<< >>) = 0
  OBVIOUS
<1>2. es[1] = e /\ es[Len(<< >>) + 1] = e /\ Chain(x, << >>, es)
  BY <1>1 DEF Chain
<1> QED
  BY <1>1, <1>2 DEF Leads

LEMMA Leads1 ==
  ASSUME NEW x, NEW c1, NEW e0, NEW e1,
         Kept(x, c1, e0, e1)
  PROVE  Leads(x, <<c1>>, e0, e1)
<1> DEFINE steps == <<c1>>
           es == <<e0, e1>>
<1>1. steps \in Seq({c1}) /\ Len(steps) = 1 /\ es[1] = e0 /\ es[1 + 1] = e1
  OBVIOUS
<1>2. \A i \in 1 .. 1 : Kept(x, steps[i], es[i], es[i + 1])
  OBVIOUS
<1> QED
  BY <1>1, <1>2 DEF Leads, Chain

LEMMA Leads2 ==
  ASSUME NEW x, NEW c1, NEW c2, NEW e0, NEW e1, NEW e2,
         Kept(x, c1, e0, e1), Kept(x, c2, e1, e2)
  PROVE  Leads(x, <<c1, c2>>, e0, e2)
<1> DEFINE steps == <<c1, c2>>
           es == <<e0, e1, e2>>
<1>1. steps \in Seq({c1, c2}) /\ Len(steps) = 2 /\ es[1] = e0 /\ es[2 + 1] = e2
  OBVIOUS
<1>2. \A i \in 1 .. 2 : Kept(x, steps[i], es[i], es[i + 1])
  OBVIOUS
<1> QED
  BY <1>1, <1>2 DEF Leads, Chain

LEMMA Leads3 ==
  ASSUME NEW x, NEW c1, NEW c2, NEW c3, NEW e0, NEW e1, NEW e2, NEW e3,
         Kept(x, c1, e0, e1), Kept(x, c2, e1, e2), Kept(x, c3, e2, e3)
  PROVE  Leads(x, <<c1, c2, c3>>, e0, e3)
<1> DEFINE steps == <<c1, c2, c3>>
           es == <<e0, e1, e2, e3>>
<1>1. steps \in Seq({c1, c2, c3}) /\ Len(steps) = 3 /\ es[1] = e0 /\ es[3 + 1] = e3
  OBVIOUS
<1>2. \A i \in 1 .. 3 : Kept(x, steps[i], es[i], es[i + 1])
  OBVIOUS
<1> QED
  BY <1>1, <1>2 DEF Leads, Chain

LEMMA Leads4 ==
  ASSUME NEW x, NEW c1, NEW c2, NEW c3, NEW c4, NEW e0, NEW e1, NEW e2, NEW e3,
         NEW e4,
         Kept(x, c1, e0, e1), Kept(x, c2, e1, e2), Kept(x, c3, e2, e3),
         Kept(x, c4, e3, e4)
  PROVE  Leads(x, <<c1, c2, c3, c4>>, e0, e4)
<1> DEFINE steps == <<c1, c2, c3, c4>>
           es == <<e0, e1, e2, e3, e4>>
<1>1. steps \in Seq({c1, c2, c3, c4}) /\ Len(steps) = 4 /\ es[1] = e0 /\ es[4 + 1] = e4
  OBVIOUS
<1>2. \A i \in 1 .. 4 : Kept(x, steps[i], es[i], es[i + 1])
  OBVIOUS
<1> QED
  BY <1>1, <1>2 DEF Leads, Chain

LEMMA Leads5 ==
  ASSUME NEW x, NEW c1, NEW c2, NEW c3, NEW c4, NEW c5, NEW e0, NEW e1, NEW e2,
         NEW e3, NEW e4, NEW e5,
         Kept(x, c1, e0, e1), Kept(x, c2, e1, e2), Kept(x, c3, e2, e3),
         Kept(x, c4, e3, e4), Kept(x, c5, e4, e5)
  PROVE  Leads(x, <<c1, c2, c3, c4, c5>>, e0, e5)
<1> DEFINE steps == <<c1, c2, c3, c4, c5>>
           es == <<e0, e1, e2, e3, e4, e5>>
<1>1. steps \in Seq({c1, c2, c3, c4, c5}) /\ Len(steps) = 5 /\ es[1] = e0 /\ es[5 + 1] = e5
  OBVIOUS
<1>2. \A i \in 1 .. 5 : Kept(x, steps[i], es[i], es[i + 1])
  OBVIOUS
<1> QED
  BY <1>1, <1>2 DEF Leads, Chain

LEMMA Leads6 ==
  ASSUME NEW x, NEW c1, NEW c2, NEW c3, NEW c4, NEW c5, NEW c6, NEW e0, NEW e1,
         NEW e2, NEW e3, NEW e4, NEW e5, NEW e6,
         Kept(x, c1, e0, e1), Kept(x, c2, e1, e2), Kept(x, c3, e2, e3),
         Kept(x, c4, e3, e4), Kept(x, c5, e4, e5), Kept(x, c6, e5, e6)
  PROVE  Leads(x, <<c1, c2, c3, c4, c5, c6>>, e0, e6)
<1> DEFINE steps == <<c1, c2, c3, c4, c5, c6>>
           es == <<e0, e1, e2, e3, e4, e5, e6>>
<1>1. steps \in Seq({c1, c2, c3, c4, c5, c6}) /\ Len(steps) = 6 /\ es[1] = e0 /\ es[6 + 1] = e6
  OBVIOUS
<1>2. \A i \in 1 .. 6 : Kept(x, steps[i], es[i], es[i + 1])
  OBVIOUS
<1> QED
  BY <1>1, <1>2 DEF Leads, Chain

LEMMA Leads7 ==
  ASSUME NEW x, NEW c1, NEW c2, NEW c3, NEW c4, NEW c5, NEW c6, NEW c7, NEW e0,
         NEW e1, NEW e2, NEW e3, NEW e4, NEW e5, NEW e6, NEW e7,
         Kept(x, c1, e0, e1), Kept(x, c2, e1, e2), Kept(x, c3, e2, e3),
         Kept(x, c4, e3, e4), Kept(x, c5, e4, e5), Kept(x, c6, e5, e6),
         Kept(x, c7, e6, e7)
  PROVE  Leads(x, <<c1, c2, c3, c4, c5, c6, c7>>, e0, e7)
<1> DEFINE steps == <<c1, c2, c3, c4, c5, c6, c7>>
           es == <<e0, e1, e2, e3, e4, e5, e6, e7>>
<1>1. steps \in Seq({c1, c2, c3, c4, c5, c6, c7}) /\ Len(steps) = 7 /\ es[1] = e0
      /\ es[7 + 1] = e7
  OBVIOUS
<1>2. \A i \in 1 .. 7 : Kept(x, steps[i], es[i], es[i + 1])
  OBVIOUS
<1> QED
  BY <1>1, <1>2 DEF Leads, Chain

LEMMA Leads8 ==
  ASSUME NEW x, NEW c1, NEW c2, NEW c3, NEW c4, NEW c5, NEW c6, NEW c7, NEW c8,
         NEW e0, NEW e1, NEW e2, NEW e3, NEW e4, NEW e5, NEW e6, NEW e7, NEW e8,
         Kept(x, c1, e0, e1), Kept(x, c2, e1, e2), Kept(x, c3, e2, e3),
         Kept(x, c4, e3, e4), Kept(x, c5, e4, e5), Kept(x, c6, e5, e6),
         Kept(x, c7, e6, e7), Kept(x, c8, e7, e8)
  PROVE  Leads(x, <<c1, c2, c3, c4, c5, c6, c7, c8>>, e0, e8)
<1> DEFINE steps == <<c1, c2, c3, c4, c5, c6, c7, c8>>
           es == <<e0, e1, e2, e3, e4, e5, e6, e7, e8>>
<1>1. steps \in Seq({c1, c2, c3, c4, c5, c6, c7, c8}) /\ Len(steps) = 8 /\ es[1] = e0
      /\ es[8 + 1] = e8
  OBVIOUS
<1>2. \A i \in 1 .. 8 : Kept(x, steps[i], es[i], es[i + 1])
  OBVIOUS
<1> QED
  BY <1>1, <1>2 DEF Leads, Chain

LEMMA Leads10 ==
  ASSUME NEW x, NEW c1, NEW c2, NEW c3, NEW c4, NEW c5, NEW c6, NEW c7, NEW c8,
         NEW c9, NEW c10, NEW e0, NEW e1, NEW e2, NEW e3, NEW e4, NEW e5, NEW e6,
         NEW e7, NEW e8, NEW e9, NEW e10,
         Kept(x, c1, e0, e1), Kept(x, c2, e1, e2), Kept(x, c3, e2, e3),
         Kept(x, c4, e3, e4), Kept(x, c5, e4, e5), Kept(x, c6, e5, e6),
         Kept(x, c7, e6, e7), Kept(x, c8, e7, e8), Kept(x, c9, e8, e9),
         Kept(x, c10, e9, e10)
  PROVE  Leads(x, <<c1, c2, c3, c4, c5, c6, c7, c8, c9, c10>>, e0, e10)
<1> DEFINE steps == <<c1, c2, c3, c4, c5, c6, c7, c8, c9, c10>>
           es == <<e0, e1, e2, e3, e4, e5, e6, e7, e8, e9, e10>>
<1>1. steps \in Seq({c1, c2, c3, c4, c5, c6, c7, c8, c9, c10}) /\ Len(steps) = 10 /\ es[1] = e0
      /\ es[10 + 1] = e10
  OBVIOUS
<1>2. \A i \in 1 .. 10 : Kept(x, steps[i], es[i], es[i + 1])
  OBVIOUS
<1> QED
  BY <1>1, <1>2 DEF Leads, Chain

\* One sequence of steps after another.
LEMMA LeadsThen ==
  ASSUME NEW x, NEW s, NEW t, NEW d, NEW e, NEW f, Leads(x, s, d, e), Leads(x, t, e, f)
  PROVE  Leads(x, s \o t, d, f)
<1>1. PICK S, T : s \in Seq(S) /\ t \in Seq(T)
  BY DEF Leads
<1>2. s \in Seq(S \cup T) /\ t \in Seq(S \cup T)
  BY <1>1
<1>3. /\ s \o t \in Seq(S \cup T) /\ Len(s) \in Nat /\ Len(t) \in Nat
      /\ Len(s \o t) = Len(s) + Len(t)
      /\ \A i \in 1 .. Len(s) : (s \o t)[i] = s[i]
      /\ \A i \in Len(s) + 1 .. Len(s) + Len(t) : (s \o t)[i] = t[i - Len(s)]
  BY <1>2
<1>4. PICK ds : ds[1] = d /\ ds[Len(s) + 1] = e /\ Chain(x, s, ds)
  BY DEF Leads
<1>5. PICK es : es[1] = e /\ es[Len(t) + 1] = f /\ Chain(x, t, es)
  BY DEF Leads
<1> DEFINE fs == [i \in 1 .. Len(s) + Len(t) + 1 |->
                    IF i <= Len(s) THEN ds[i] ELSE es[i - Len(s)]]
<1>6. fs[1] = d /\ fs[Len(s \o t) + 1] = f
  BY <1>3, <1>4, <1>5
<1>7. ASSUME NEW i \in 1 .. Len(s) + Len(t)
      PROVE  Kept(x, (s \o t)[i], fs[i], fs[i + 1])
  <2>1. CASE i < Len(s)
    BY <1>3, <1>4, <2>1 DEF Chain
  <2>2. CASE i = Len(s)
    BY <1>3, <1>4, <1>5, <2>2 DEF Chain
  <2>3. CASE i > Len(s)
    <3>1. i - Len(s) \in 1 .. Len(t) /\ (i - Len(s)) + 1 = (i + 1) - Len(s)
      BY <1>3, <2>3
    <3>2. /\ (s \o t)[i] = t[i - Len(s)]
          /\ fs[i] = es[i - Len(s)] /\ fs[i + 1] = es[(i - Len(s)) + 1]
      BY <1>3, <2>3, <3>1
    <3> QED
      BY <1>5, <3>1, <3>2 DEF Chain
  <2> QED
    BY <1>3, <2>1, <2>2, <2>3
<1>8. Chain(x, s \o t, fs)
  BY <1>3, <1>7 DEF Chain
<1> QED
  BY <1>3, <1>6, <1>8 DEF Leads

\* A ledger made of what leads through the three parts.
LEMMA LedgerIs ==
  ASSUME NEW s, NEW again, NEW last, NEW e, NEW f, NEW g, NEW x,
         x = Context(s, OwnedBy(s, "body"), OwnedBy(s, "setup"), again, last),
         Leads(x, Scripts[s].setup, Nothing, e), Leads(x, Scripts[s].body, again, f),
         Leads(x, Scripts[s].teardown, last, g),
         SetUpOver(x, e), RoundsOver(x, f), AllOver(x, g)
  PROVE  \E L : Agrees(s, L)
<1>1. PICK es : es[1] = Nothing /\ es[Len(Scripts[s].setup) + 1] = e
                /\ Chain(x, Scripts[s].setup, es)
  BY DEF Leads
<1>2. PICK fs : fs[1] = again /\ fs[Len(Scripts[s].body) + 1] = f /\ Chain(x, Scripts[s].body, fs)
  BY DEF Leads
<1>3. PICK gs : gs[1] = last /\ gs[Len(Scripts[s].teardown) + 1] = g
                /\ Chain(x, Scripts[s].teardown, gs)
  BY DEF Leads
<1> DEFINE L == [setup |-> es, body |-> fs, teardown |-> gs]
<1>4. /\ L["setup"] = es /\ L["body"] = fs /\ L["teardown"] = gs
      /\ L.setup = es /\ L.body = fs /\ L.teardown = gs
  OBVIOUS
<1>5. x = ContextOf(s, L) /\ x.again = again /\ x.last = last
  BY <1>2, <1>3, <1>4 DEF ContextOf, Context
<1>6. \A p \in Parts : Len(Scripts[s][p]) \in Nat
  BY DEF Parts, Leads
<1>7. {} \in L.setup[1]
  BY <1>1, <1>4 DEF Nothing, Only, Between
<1>8. \A p \in Parts : Chain(x, Scripts[s][p], L[p])
  BY <1>1, <1>2, <1>3, <1>4 DEF Parts
<1> HIDE DEF L
<1> QED
  BY <1>1, <1>2, <1>3, <1>4, <1>5, <1>6, <1>7, <1>8 DEF Agrees

\* What the steps own, when they own all that they may.
LEMMA OwnsAll ==
  ASSUME NEW x, NEW steps, NEW e, NEW f, Leads(x, steps, e, f),
         \A r \in x.owns : \E i \in DOMAIN steps : steps[i].what = "own" /\ steps[i].on = r
  PROVE  OwnedOf(steps) = x.owns
<1>1. PICK S : steps \in Seq(S)
  BY DEF Leads
<1>2. ASSUME NEW i \in DOMAIN steps, steps[i].what = "own"
      PROVE  steps[i].on \in x.owns
  <2>1. i \in 1 .. Len(steps)
    BY <1>1
  <2>2. PICK d, g : Kept(x, steps[i], d, g)
    BY <2>1 DEF Leads, Chain
  <2> QED
    BY <1>2, <2>2 DEF Kept
<1> QED
  BY <1>2 DEF OwnedOf

\* A source whose steps own nothing has a ledger when its parts lead on.
LEMMA LedgerOfNothingOwned ==
  ASSUME NEW s, NEW again, NEW last, NEW e, NEW f, NEW g, NEW x,
         x = Context(s, {}, {}, again, last),
         Leads(x, Scripts[s].setup, Nothing, e), Leads(x, Scripts[s].body, again, f),
         Leads(x, Scripts[s].teardown, last, g),
         SetUpOver(x, e), RoundsOver(x, f), AllOver(x, g)
  PROVE  \E L : Agrees(s, L)
<1>1. x.owns = {}
  BY DEF Context
<1>2. OwnedBy(s, "body") = {} /\ OwnedBy(s, "setup") = {}
  BY <1>1, OwnsAll DEF OwnedBy
<1>3. x = Context(s, OwnedBy(s, "body"), OwnedBy(s, "setup"), again, last)
  BY <1>2
<1> QED
  BY <1>3, LedgerIs

-------------------- (* entries between two sets, no loans *) -----------------

\* What is between R and S is between R2 and S2.
Fits(R, S, R2, S2) == R2 \subseteq R /\ S \subseteq S2

\* What a refusal asks of those that hold at least R and at most S.
Bearable(x, go, R, S, R2, S2) ==
  /\ go = "on" => Fits(R, S, R2, S2)
  /\ go \in {"next", "break"} =>
       \E A, B : /\ x.again = Between(A, B) /\ x.last = Between(A, B)
                 /\ Fits(R \ x.local, S \ x.local, A, B)
  /\ go \in {"return", "found"} => (S \ x.local) \ x.whole \subseteq x.leaks
  /\ go = "panic" => (S \ x.local) \ x.whole \subseteq x.leaks \cup x.panics
  /\ go = "switch" => S = {} /\ x.leaks = {} /\ x.strays = {} /\ x.queues = FALSE

\* Entries that fit are subsets.
LEMMA Widened ==
  ASSUME NEW R, NEW S, NEW R2, NEW S2, Fits(R, S, R2, S2)
  PROVE  Between(R, S) \subseteq Between(R2, S2)
BY DEF Fits, Between

\* Freeing D moves both bounds.
LEMMA Without ==
  ASSUME NEW R, NEW S, NEW D, NEW H \in Between(R, S)
  PROVE  H \ D \in Between(R \ D, S \ D)
BY DEF Between

\* A refusal that is bearable for the bounds is so for all between them.
LEMMA BearableRefused ==
  ASSUME NEW x, x.lends = {}, NEW go, NEW R, NEW S, NEW R2, NEW S2,
         Bearable(x, go, R, S, R2, S2), NEW H \in Between(R, S)
  PROVE  Refused(x, go, H, Between(R2, S2))
<1>1. \A D : Free(x, D, H)
  BY DEF Free
<1>2. CASE go = "on"
  BY <1>2, Widened DEF Bearable, Refused
<1>3. CASE go \in {"next", "break"}
  <2>1. PICK A, B : /\ x.again = Between(A, B) /\ x.last = Between(A, B)
                    /\ Fits(R \ x.local, S \ x.local, A, B)
    BY <1>3 DEF Bearable
  <2>2. H \ x.local \in Between(A, B)
    <3>1. H \ x.local \in Between(R \ x.local, S \ x.local)
      BY Without
    <3>2. Between(R \ x.local, S \ x.local) \subseteq Between(A, B)
      BY <2>1, Widened
    <3> QED
      BY <3>1, <3>2
  <2>3. RoundOver(x, H) /\ H \ x.local \in x.last
    BY <1>1, <2>1, <2>2 DEF RoundOver
  <2> QED
    BY <1>1, <1>3, <2>3 DEF Refused
<1>4. CASE go \in {"return", "found", "panic", "switch"}
  <2>1. (H \ x.local) \ x.whole \subseteq (S \ x.local) \ x.whole
    BY DEF Between
  <2> QED
    BY <1>1, <1>4, <2>1 DEF Bearable, Refused, Left
<1>5. CASE go \notin {"on", "next", "break", "return", "found", "panic", "switch"}
  BY <1>5 DEF Refused
<1> QED
  BY <1>2, <1>3, <1>4, <1>5

\* The rules above for bounds instead of entries: taking,
LEMMA GetBetween ==
  ASSUME NEW x, x.lends = {}, NEW R, NEW S, NEW R2, NEW S2, NEW r, NEW go,
         r \in S => r \in x.leaks, Fits(R \cup {r}, S \cup {r}, R2, S2),
         Bearable(x, go, R, S, R2, S2)
  PROVE  /\ Kept(x, Get(r, go), Between(R, S), Between(R2, S2))
         /\ r \in x.owns => Kept(x, Own(r, go), Between(R, S), Between(R2, S2))
<1>1. ASSUME NEW H \in Between(R, S)
      PROVE  (r \in H => r \in x.leaks) /\ H \cup {r} \in Between(R2, S2)
  BY DEF Between, Fits
<1>2. \A H \in Between(R, S) : Refused(x, go, H, Between(R2, S2))
  BY BearableRefused
<1> QED
  BY <1>1, <1>2, GetKept

\* taking, which frees F when it is refused,
LEMMA GetFreeingBetween ==
  ASSUME NEW x, x.lends = {}, NEW R, NEW S, NEW R2, NEW S2, NEW r, NEW go, NEW F,
         r \in S => r \in x.leaks, Fits(R \cup {r}, S \cup {r}, R2, S2),
         Bearable(x, go, R \ F, S \ F, R2, S2)
  PROVE  Kept(x, Freeing(F, Get(r, go)), Between(R, S), Between(R2, S2))
<1>1. ASSUME NEW H \in Between(R, S)
      PROVE  (r \in H => r \in x.leaks) /\ H \cup {r} \in Between(R2, S2)
  BY DEF Between, Fits
<1>2. ASSUME NEW H \in Between(R, S)
      PROVE  Free(x, F, H) /\ Refused(x, go, H \ F, Between(R2, S2))
  <2>1. H \ F \in Between(R \ F, S \ F)
    BY Without
  <2> QED
    BY <2>1, BearableRefused DEF Free
<1> QED
  BY <1>1, <1>2, GetFreeingKept

\* taking, which is never refused,
LEMMA GetNeverBetween ==
  ASSUME NEW x, NEW R, NEW S, NEW R2, NEW S2, NEW r,
         r \in S => r \in x.leaks, Fits(R \cup {r}, S \cup {r}, R2, S2)
  PROVE  Kept(x, Get(r, "never"), Between(R, S), Between(R2, S2))
<1>1. ASSUME NEW H \in Between(R, S)
      PROVE  (r \in H => r \in x.leaks) /\ H \cup {r} \in Between(R2, S2)
  BY DEF Between, Fits
<1> QED
  BY <1>1, GetKept

\* giving back,
LEMMA PutBetween ==
  ASSUME NEW x, x.lends = {}, NEW R, NEW S, NEW R2, NEW S2, NEW r,
         r \in R \cup x.strays, Fits(R \ {r}, S \ {r}, R2, S2)
  PROVE  /\ Kept(x, Put(r), Between(R, S), Between(R2, S2))
         /\ Fits(R, S, R2, S2) => Kept(x, Reap(r), Between(R, S), Between(R2, S2))
<1>1. ASSUME NEW H \in Between(R, S)
      PROVE  r \in H \cup x.strays /\ Free(x, {r}, H) /\ H \ {r} \in Between(R2, S2)
  BY DEF Between, Fits, Free
<1> QED
  BY <1>1, PutKept, Widened

\* testing what is held,
LEMMA RequireBetween ==
  ASSUME NEW x, x.lends = {}, NEW R, NEW S, NEW R2, NEW S2, NEW r, NEW go,
         r \in S => Fits(R \cup {r}, S, R2, S2),
         r \notin R => Bearable(x, go, R, S \ {r}, R2, S2)
  PROVE  Kept(x, Require(r, go), Between(R, S), Between(R2, S2))
<1>1. ASSUME NEW H \in Between(R, S), r \in H
      PROVE  H \in Between(R2, S2)
  BY <1>1 DEF Between, Fits
<1>2. ASSUME NEW H \in Between(R, S), r \notin H
      PROVE  Refused(x, go, H, Between(R2, S2))
  <2>1. H \in Between(R, S \ {r}) /\ r \notin R
    BY <1>2 DEF Between
  <2> QED
    BY <2>1, BearableRefused
<1> QED
  BY <1>1, <1>2, RequireKept

\* trying,
LEMMA TryBetween ==
  ASSUME NEW x, x.lends = {}, NEW R, NEW S, NEW R2, NEW S2, NEW go,
         Fits(R, S, R2, S2), Bearable(x, go, R, S, R2, S2)
  PROVE  Kept(x, Try(go), Between(R, S), Between(R2, S2))
<1>1. \A H \in Between(R, S) : Refused(x, go, H, Between(R2, S2))
  BY BearableRefused
<1> QED
  BY <1>1, Widened, TryKept

\* timing,
LEMMA StampBetween ==
  ASSUME NEW x, NEW R, NEW S, NEW R2, NEW S2, Fits(R, S, R2, S2)
  PROVE  /\ Kept(x, Stamp, Between(R, S), Between(R2, S2))
         /\ Kept(x, Filter, Between(R, S), Between(R2, S2))
         /\ \A r : Kept(x, If({r}, Stamp), Between(R, S), Between(R2, S2))
<1>1. Between(R, S) \subseteq Between(R2, S2)
  BY Widened
<1>2. ASSUME NEW r PROVE Kept(x, If({r}, Stamp), Between(R, S), Between(R2, S2))
  <2>1. Kept(x, Stamp, {H \in Between(R, S) : r \in H}, Between(R2, S2))
    BY <1>1, StampKept
  <2> QED
    BY <1>1, <2>1, IfKept DEF Stamp
<1> QED
  BY <1>1, <1>2, StampKept

\* joining,
LEMMA JoinBetween ==
  ASSUME NEW x, x.lends = {}, NEW R, NEW S, NEW R2, NEW S2, NEW t,
         Fits(R \ {t}, S \ {t}, R2, S2)
  PROVE  /\ Kept(x, Join(t), Between(R, S), Between(R2, S2))
         /\ Fits(R, S, R2, S2) => Kept(x, Await(t), Between(R, S), Between(R2, S2))
<1>1. \A H \in Between(R, S) : H \ {t} \in Between(R2, S2)
  BY DEF Between, Fits
<1> QED
  BY <1>1, JoinKept, Widened

\* starting a thread,
LEMMA SpawnBetween ==
  ASSUME NEW x, x.lends = {}, NEW R, NEW S, NEW R2, NEW S2, NEW t,
         Fits(R \cup {t}, S \cup {t}, R2, S2), Bearable(x, "panic", R, S, R2, S2)
  PROVE  Kept(x, Spawn(t, {}), Between(R, S), Between(R2, S2))
<1>1. ASSUME NEW H \in Between(R, S)
      PROVE  Lent(t, {} \cap H) \subseteq x.lends /\ H \cup {t} \in Between(R2, S2)
  BY DEF Between, Fits, Lent
<1>2. \A H \in Between(R, S) : Refused(x, "panic", H, Between(R2, S2))
  BY BearableRefused
<1> QED
  BY <1>1, <1>2, SpawnKept

\* taking when r is held,
LEMMA IfGetBetween ==
  ASSUME NEW x, NEW R, NEW S, NEW R2, NEW S2, NEW r, NEW on,
         on \in S => on \in x.leaks, Fits(R, S \cup {on}, R2, S2)
  PROVE  Kept(x, If({r}, Get(on, "on")), Between(R, S), Between(R2, S2))
<1>1. \A H \in Between(R, S) :
        H \in Between(R2, S2) /\ (on \in H => on \in x.leaks) /\ H \cup {on} \in Between(R2, S2)
  BY DEF Between, Fits
<1> QED
  BY <1>1, IfGetKept

\* giving back when r is held.
LEMMA IfPutBetween ==
  ASSUME NEW x, x.lends = {}, NEW R, NEW S, NEW R2, NEW S2, NEW r,
         Fits(R \ {r}, S \ {r}, R2, S2)
  PROVE  /\ Kept(x, If({r}, Put(r)), Between(R, S), Between(R2, S2))
         /\ Fits(R, S, R2, S2) => Kept(x, If({r}, Reap(r)), Between(R, S), Between(R2, S2))
<1>1. \A H \in Between(R, S) : r \notin H => H \in Between(R2, S2)
  BY DEF Between, Fits
<1>2. \A H \in Between(R, S) : r \in H =>
        r \in H \cup x.strays /\ Free(x, {r}, H) /\ H \ {r} \in Between(R2, S2)
  BY DEF Between, Fits, Free
<1> QED
  BY <1>1, <1>2, IfPutKept, Widened

\* Handing a block to a queue, which only dispatch_queue_timing does.
LEMMA PostKept ==
  ASSUME NEW x, x.queues, NEW b, NEW U, NEW e, NEW f, e \subseteq f
  PROVE  Kept(x, Post(b, U), e, f)
<1> DEFINE c == Post(b, U)
<1>1. c.what = "post" /\ c.on = b /\ c.go = "never" /\ c.need = {} /\ c.free = {}
  BY DEF Post, Step
<1> HIDE DEF c
<1>2. \A H \in e : Done(x, c, H, f)
  BY <1>1 DEF Done
<1> QED
  BY <1>1, <1>2, PlainKept DEF c

\* Where the parts end, for bounds.
LEMMA EndsBetween ==
  ASSUME NEW x, x.lends = {}, NEW A, NEW B, x.again = Between(A, B), x.last = Between(A, B),
         NEW R, NEW S
  PROVE  /\ Fits(R, S, A, B) => SetUpOver(x, Between(R, S))
         /\ Fits(R \ x.local, S \ x.local, A, B) => RoundsOver(x, Between(R, S))
         /\ S \ x.whole \subseteq x.leaks => AllOver(x, Between(R, S))
<1>1. \A D, H : Free(x, D, H)
  BY DEF Free
<1>2. ASSUME Fits(R, S, A, B) PROVE SetUpOver(x, Between(R, S))
  BY <1>2, Widened DEF SetUpOver
<1>3. ASSUME Fits(R \ x.local, S \ x.local, A, B) PROVE RoundsOver(x, Between(R, S))
  <2>1. Between(R \ x.local, S \ x.local) \subseteq Between(A, B)
    BY <1>3, Widened
  <2>2. \A H \in Between(R, S) : H \ x.local \in Between(A, B)
    BY <2>1, Without
  <2> QED
    BY <1>1, <2>2 DEF RoundsOver, RoundOver
<1>4. ASSUME S \ x.whole \subseteq x.leaks PROVE AllOver(x, Between(R, S))
  BY <1>1, <1>4 DEF AllOver, Between
<1> QED
  BY <1>2, <1>3, <1>4

\* A script has the parts it is made of.
LEMMA ScriptParts ==
  ASSUME NEW raw, NEW a, NEW b, NEW c, NEW y, NEW k
  PROVE  /\ Source(raw, a, b, c, y).setup = a /\ Source(raw, a, b, c, y).body = b
         /\ Source(raw, a, b, c, y).teardown = c
         /\ Times(k, Source(raw, a, b, c, y)).setup = a
         /\ Times(k, Source(raw, a, b, c, y)).body = b
         /\ Times(k, Source(raw, a, b, c, y)).teardown = c
BY DEF Source, Times

\* A source that leaks nothing, lends nothing and queues nothing.
Plain(x, local, whole, A, B) ==
  /\ x.local = local /\ x.whole = whole /\ x.owns = local \cup whole
  /\ x.leaks = {} /\ x.panics = {} /\ x.strays = {} /\ x.lends = {} /\ x.queues = FALSE
  /\ x.again = Between(A, B) /\ x.last = Between(A, B)

\* The sources that are not plain.
Exceptions ==
  DOMAIN KnownLeaks \cup DOMAIN KnownLeaksOfPanic \cup DOMAIN LoansOf
  \cup {"dispatch_queue_timing", "iosurface_crossing", "iosurface_available"}

\* Every other source is plain.
LEMMA PlainContext ==
  ASSUME NEW s, s \notin Exceptions, NEW local, NEW whole, NEW A, NEW B
  PROVE  Plain(Context(s, local, whole, Between(A, B), Between(A, B)), local, whole, A, B)
<1>1. s \notin DOMAIN KnownLeaks /\ s \notin DOMAIN KnownLeaksOfPanic /\ s \notin DOMAIN LoansOf
  BY DEF Exceptions
<1>2. At(KnownLeaks, s) = {} /\ At(KnownLeaksOfPanic, s) = {} /\ At(LoansOf, s) = {}
  BY <1>1 DEF At
<1> QED
  BY <1>2 DEF Context, Exceptions, Plain

\* Leaving with at most S held.
LEMMA ExitBetween ==
  ASSUME NEW x, x.lends = {}, NEW R, NEW S, NEW f, NEW go, go \in {"return", "found"},
         "nothing" \notin S, (S \ x.local) \ x.whole \subseteq x.leaks
  PROVE  Kept(x, Exit(go), Between(R, S), f)
<1>1. \A H \in Between(R, S) : "nothing" \notin H
  BY DEF Between
<1>2. ASSUME NEW H \in Between(R, S) PROVE Refused(x, go, H, f)
  BY DEF Refused, Left, Free, Between
<1> QED
  BY <1>1, <1>2, RequireKept DEF Exit

\* A test that frees r when it is refused.
LEMMA IfTryFreeingKept ==
  ASSUME NEW x, NEW e, NEW f, NEW r, e \subseteq f,
         \A H \in e : Free(x, {r}, H) /\ H \ {r} \in f
  PROVE  Kept(x, If({r}, Freeing({r}, Try("on"))), e, f)
<1> DEFINE c == If({r}, Freeing({r}, Try("on")))
<1>1. c.what = "try" /\ c.go = "on" /\ c.need = {r} /\ c.free = {r}
  BY DEF If, Freeing, Try, Step
<1> HIDE DEF c
<1>2. \A H \in e : Done(x, c, H, f)
  BY <1>1 DEF Done
<1>3. \A H \in e : Free(x, c.free, H) /\ Refused(x, c.go, H \ c.free, f)
  BY <1>1 DEF Refused
<1> QED
  BY <1>1, <1>2, <1>3 DEF Kept, c

\* The same for bounds.
LEMMA IfTryFreeingBetween ==
  ASSUME NEW x, x.lends = {}, NEW R, NEW S, NEW R2, NEW S2, NEW r,
         Fits(R, S, R2, S2), Fits(R \ {r}, S \ {r}, R2, S2)
  PROVE  Kept(x, If({r}, Freeing({r}, Try("on"))), Between(R, S), Between(R2, S2))
<1>1. Between(R, S) \subseteq Between(R2, S2)
  BY Widened
<1>2. \A H \in Between(R, S) : Free(x, {r}, H) /\ H \ {r} \in Between(R2, S2)
  BY DEF Between, Fits, Free
<1> QED
  BY <1>1, <1>2, IfTryFreeingKept

\* What owns one resource, and has a step that takes it, owns just that.
LEMMA OwnsOne ==
  ASSUME NEW x, NEW steps, NEW e, NEW f, Leads(x, steps, e, f), NEW r, NEW go, x.owns = {r},
         NEW i \in DOMAIN steps, steps[i] = Own(r, go)
  PROVE  OwnedOf(steps) = {r}
<1>1. steps[i].what = "own" /\ steps[i].on = r
  BY StepFields DEF Own
<1> QED
  BY <1>1, OwnsAll

----------------- (* sources that hold nothing, or one thing *) ----------------

\* Steps that take and give back nothing.
Inert(G) == {Stamp, Filter} \cup {Try(go) : go \in G} \cup {Exit(go) : go \in G}

\* Inert steps own nothing.
LEMMA InertOwnsNothing ==
  ASSUME NEW G, NEW steps \in Seq(Inert(G))
  PROVE  OwnedOf(steps) = {}
<1>1. \A c \in Inert(G) : c.what # "own"
  <2> SUFFICES ASSUME NEW c \in Inert(G) PROVE c.what # "own"
    OBVIOUS
  <2>1. Stamp.what = "stamp" /\ Filter.what = "stamp"
    BY DEF Stamp, Filter, Step
  <2>2. \A go : Try(go).what = "try" /\ Exit(go).what = "require"
    BY DEF Try, Exit, Require, Step
  <2> QED
    BY <2>1, <2>2 DEF Inert
<1>2. \A i \in DOMAIN steps : steps[i] \in Inert(G)
  OBVIOUS
<1> QED
  BY <1>1, <1>2 DEF OwnedOf

\* Inert steps lead from an entry to itself.
LEMMA InertLeads ==
  ASSUME NEW x, x.lends = {}, NEW R, NEW S, "nothing" \notin S,
         NEW G, \A go \in G : Bearable(x, go, R, S, R, S), NEW steps \in Seq(Inert(G))
  PROVE  Leads(x, steps, Between(R, S), Between(R, S))
<1>1. ASSUME NEW c \in Inert(G) PROVE Kept(x, c, Between(R, S), Between(R, S))
  <2>1. CASE c \in {Stamp, Filter}
    BY <2>1, StampBetween DEF Fits
  <2>2. CASE c \in {Try(go) : go \in G}
    BY <2>2, TryBetween DEF Fits
  <2>3. CASE c \in {Exit(go) : go \in G}
    <3>1. PICK go \in G : c = Require("nothing", go)
      BY <2>3 DEF Exit
    <3>2. S \ {"nothing"} = S
      OBVIOUS
    <3> QED
      BY <3>1, <3>2, RequireBetween
  <2> QED
    BY <2>1, <2>2, <2>3 DEF Inert
<1> DEFINE es == [i \in 1 .. Len(steps) + 1 |-> Between(R, S)]
<1>2. Chain(x, steps, es)
  BY <1>1 DEF Chain
<1> QED
  BY <1>2 DEF Leads

\* Wherever the scripts of these sources stop, there is nothing to give back.
LEMMA InertLedger ==
  ASSUME NEW s, s \notin Exceptions,
         NEW G, G \subseteq {"on", "next", "break", "return", "found"},
         Scripts[s].setup \in Seq(Inert(G)), Scripts[s].body \in Seq(Inert(G)),
         Scripts[s].teardown \in Seq(Inert(G))
  PROVE  \E L : Agrees(s, L)
<1> DEFINE x == Context(s, {}, {}, Nothing, Nothing)
<1>1. Plain(x, {}, {}, {}, {})
  BY PlainContext DEF Only, Nothing
<1> HIDE DEF x
<1>2. \A go \in G : Bearable(x, go, {}, {}, {}, {})
  BY <1>1 DEF Plain, Bearable, Fits
<1>3. \A steps \in Seq(Inert(G)) : Leads(x, steps, Nothing, Nothing)
  BY <1>1, <1>2, InertLeads DEF Plain, Only, Nothing
<1>4. SetUpOver(x, Nothing) /\ RoundsOver(x, Nothing) /\ AllOver(x, Nothing)
  BY <1>1, EndsBetween DEF Plain, Fits, Only, Nothing
<1> QED
  BY <1>3, <1>4, LedgerOfNothingOwned DEF x

\* One resource, taken before the first round and given back after the last.
LEMMA ByHandLedger ==
  ASSUME NEW s, s \notin Exceptions, NEW r, r # "nothing",
         NEW G, G \subseteq {"on", "next", "break"},
         \/ Scripts[s].setup = <<Get(r, "return")>> /\ Scripts[s].teardown = <<Put(r)>>
         \/ Scripts[s].setup = <<Spawn(r, {})>> /\ Scripts[s].teardown = <<Join(r)>>,
         NEW b \in Seq(Inert(G)), Scripts[s].body = b
  PROVE  \E L : Agrees(s, L)
<1> DEFINE x == Context(s, {}, {}, Only({r}), Only({r}))
<1>1. Plain(x, {}, {}, {r}, {r})
  BY PlainContext DEF Only
<1> HIDE DEF x
<1>0. \A go \in G : Bearable(x, go, {r}, {r}, {r}, {r})
  BY <1>1 DEF Plain, Bearable, Fits
<1>2. Leads(x, Scripts[s].body, Only({r}), Only({r}))
  BY <1>0, <1>1, InertLeads DEF Plain, Only
<1> USE <1>1 DEF Plain, Fits, Bearable, Only, Nothing
<1>3. Leads(x, Scripts[s].setup, Nothing, Only({r}))
  <2>1. Kept(x, Get(r, "return"), Nothing, Only({r}))
    BY GetBetween
  <2>2. Kept(x, Spawn(r, {}), Nothing, Only({r}))
    BY SpawnBetween
  <2>3. Leads(x, <<Get(r, "return")>>, Nothing, Only({r}))
    BY <2>1, Leads1
  <2>4. Leads(x, <<Spawn(r, {})>>, Nothing, Only({r}))
    BY <2>2, Leads1
  <2> QED
    BY <2>3, <2>4
<1>4. Leads(x, Scripts[s].teardown, Only({r}), Nothing)
  <2>1. Kept(x, Put(r), Only({r}), Nothing)
    BY PutBetween
  <2>2. Kept(x, Join(r), Only({r}), Nothing)
    BY JoinBetween
  <2>3. Leads(x, <<Put(r)>>, Only({r}), Nothing)
    BY <2>1, Leads1
  <2>4. Leads(x, <<Join(r)>>, Only({r}), Nothing)
    BY <2>2, Leads1
  <2> QED
    BY <2>3, <2>4
<1>5. SetUpOver(x, Only({r})) /\ RoundsOver(x, Only({r})) /\ AllOver(x, Nothing)
  BY EndsBetween
<1> QED
  BY <1>2, <1>3, <1>4, <1>5, LedgerOfNothingOwned DEF x

\* One resource that its owner's Drop gives back.
LEMMA DroppedLedger ==
  ASSUME NEW s, s \notin Exceptions, NEW r, r # "nothing",
         NEW G, G \subseteq {"on", "next", "break", "return"},
         Scripts[s].setup = <<Own(r, "return")>>,
         NEW b \in Seq(Inert(G)), Scripts[s].body = b, Scripts[s].teardown = << >>
  PROVE  \E L : Agrees(s, L)
<1> DEFINE x == Context(s, {}, {r}, Only({r}), Only({r}))
<1>1. Plain(x, {}, {r}, {r}, {r})
  BY PlainContext DEF Only
<1> HIDE DEF x
<1>0. \A go \in G : Bearable(x, go, {r}, {r}, {r}, {r})
  BY <1>1 DEF Plain, Bearable, Fits
<1>2. Leads(x, Scripts[s].body, Only({r}), Only({r}))
  BY <1>0, <1>1, InertLeads DEF Plain, Only
<1> USE <1>1 DEF Plain, Fits, Bearable, Only, Nothing
<1>3. Leads(x, Scripts[s].setup, Nothing, Only({r}))
  <2>1. Kept(x, Own(r, "return"), Nothing, Only({r}))
    BY GetBetween
  <2> QED
    BY <2>1, Leads1
<1>4. Leads(x, Scripts[s].teardown, Only({r}), Only({r}))
  BY Leads0
<1>5. SetUpOver(x, Only({r})) /\ RoundsOver(x, Only({r})) /\ AllOver(x, Only({r}))
  BY EndsBetween
<1>6. OwnedBy(s, "body") = {} /\ OwnedBy(s, "setup") = {r}
  <2>1. Scripts[s].setup[1] = Own(r, "return") /\ 1 \in DOMAIN Scripts[s].setup
    OBVIOUS
  <2>2. OwnedOf(Scripts[s].setup) = {r}
    BY <1>3, <2>1, OwnsOne
  <2> QED
    BY <2>2, InertOwnsNothing DEF OwnedBy
<1> QED
  BY <1>2, <1>3, <1>4, <1>5, <1>6, LedgerIs DEF x

\* The ways out of an idle source's steps.
Ways == {"on", "next", "break", "return", "found"}
\* A script of inert steps only.
Idle(c) ==
  c.setup \in Seq(Inert(Ways)) /\ c.body \in Seq(Inert(Ways)) /\ c.teardown \in Seq(Inert(Ways))

\* Each of these steps is inert.
LEMMA InertSteps ==
  ASSUME NEW G
  PROVE  /\ Stamp \in Inert(G) /\ Filter \in Inert(G)
         /\ \A go \in G : Try(go) \in Inert(G) /\ Exit(go) \in Inert(G)
BY DEF Inert

\* The short sequences of inert steps that the sources are made of,
LEMMA InertSequences ==
  ASSUME NEW G
  PROVE  /\ << >> \in Seq(Inert(G)) /\ <<Stamp>> \in Seq(Inert(G))
         /\ <<Filter>> \in Seq(Inert(G)) /\ <<Filter, Filter>> \in Seq(Inert(G))
         /\ \A go \in G : <<Try(go)>> \in Seq(Inert(G)) /\ <<Try(go), Stamp>> \in Seq(Inert(G))
                           /\ <<Try(go), Filter>> \in Seq(Inert(G))
         /\ \A go, g2 \in G : <<Try(go), Exit(g2)>> \in Seq(Inert(G))
<1>1. Stamp \in Inert(G) /\ Filter \in Inert(G)
  BY InertSteps
<1>2. ASSUME NEW go \in G PROVE Try(go) \in Inert(G) /\ Exit(go) \in Inert(G)
  BY InertSteps
<1> QED
  BY <1>1, <1>2

\* A script of inert sequences is idle.
LEMMA IdleScript ==
  ASSUME NEW raw, NEW k, NEW y,
         NEW a \in Seq(Inert(Ways)), NEW b \in Seq(Inert(Ways)), NEW c \in Seq(Inert(Ways))
  PROVE  Idle(Source(raw, a, b, c, y)) /\ Idle(Times(k, Source(raw, a, b, c, y)))
BY ScriptParts DEF Idle

\* those of a round,
LEMMA RoundSequences ==
  LET W == Seq(Inert({"next"})) IN
  /\ << >> \in W /\ <<Stamp>> \in W /\ <<Filter>> \in W /\ <<Filter, Filter>> \in W
  /\ <<Try("next"), Stamp>> \in W
<1>1. "next" \in {"next"}
  OBVIOUS
<1> QED
  BY <1>1, InertSequences

\* and those of an idle source.
LEMMA IdleSequences ==
  LET W == Seq(Inert(Ways)) IN
  /\ << >> \in W /\ <<Stamp>> \in W /\ <<Filter>> \in W /\ <<Filter, Filter>> \in W
  /\ <<Try("return")>> \in W /\ <<Try("on")>> \in W
  /\ <<Try("next"), Filter>> \in W /\ <<Try("next"), Exit("found")>> \in W
<1>1. "on" \in Ways /\ "next" \in Ways /\ "return" \in Ways /\ "found" \in Ways
  BY DEF Ways
<1> QED
  BY <1>1, InertSequences

\* The sources that take nothing they must give back.
IdleSources ==
  {"clock_jitter", "mach_timing", "mach_continuous_timing", "commpage_clock_timing",
   "dram_row_buffer", "amx_timing", "denormal_timing", "speculative_execution",
   "prefetcher_state", "sev_event_timing", "commoncrypto_aes_timing", "cccrypt_probe",
   "pe_core_arithmetic", "sleep_jitter", "timer_coalescing", "preemption_boundary",
   "audio_noise", "compression_timing", "hash_timing", "getentropy_timing",
   "proc_info_timing", "ioregistry", "sysctl_deltas", "vmstat_deltas", "process_table",
   "audio_pll_timing", "counter_beat"}

\* The clocks, the CPU loops and the queries take nothing they must give back.
LEMMA IdleLedgers == \A s \in IdleSources : \E L : Agrees(s, L)
<1> USE IdleScript, IdleSequences
<1>1. Idle(clock_jitter)
  BY DEF clock_jitter, Sampler
<1>2. Idle(mach_timing)
  BY DEF mach_timing, Sampler
<1>3. Idle(mach_continuous_timing)
  BY DEF mach_continuous_timing, Sampler
<1>4. Idle(commpage_clock_timing)
  BY DEF commpage_clock_timing, Sampler
<1>5. Idle(dram_row_buffer)
  BY DEF dram_row_buffer, Sampler
<1>6. Idle(amx_timing)
  BY DEF amx_timing
<1>7. Idle(denormal_timing)
  BY DEF denormal_timing, Sampler
<1>8. Idle(speculative_execution)
  BY DEF speculative_execution, Sampler
<1>9. Idle(prefetcher_state)
  BY DEF prefetcher_state, Sampler
<1>10. Idle(sev_event_timing)
  BY DEF sev_event_timing, Sampler
<1>11. Idle(commoncrypto_aes_timing)
  BY DEF commoncrypto_aes_timing, Sampler
<1>12. Idle(cccrypt_probe)
  BY DEF cccrypt_probe, Probe, Sampler
<1>13. Idle(pe_core_arithmetic)
  BY DEF pe_core_arithmetic, Sampler
<1>14. Idle(sleep_jitter)
  BY DEF sleep_jitter, Sampler
<1>15. Idle(timer_coalescing)
  BY DEF timer_coalescing, Sampler
<1>16. Idle(preemption_boundary)
  <2>1. \A raw, y : Idle(Sampler(raw, <<Filter>>, y))
    BY DEF Sampler
  <2> QED
    BY <2>1 DEF preemption_boundary
<1>17. Idle(audio_noise)
  BY DEF audio_noise
<1>18. Idle(compression_timing)
  BY DEF compression_timing, Sampler
<1>19. Idle(hash_timing)
  BY DEF hash_timing, Sampler
<1>20. Idle(getentropy_timing)
  BY DEF getentropy_timing, Sampler
<1>21. Idle(proc_info_timing)
  BY DEF proc_info_timing, Sampler
<1>22. Idle(ioregistry)
  BY DEF ioregistry, Snapshots
<1>23. Idle(sysctl_deltas)
  BY DEF sysctl_deltas, Snapshots
<1>24. Idle(vmstat_deltas)
  BY DEF vmstat_deltas, Snapshots, vm_stat_path
<1>25. Idle(process_table)
  BY DEF process_table
<1>26. Idle(audio_pll_timing)
  BY DEF audio_pll_timing, get_default_output_device
<1>27. Idle(counter_beat)
  BY DEF counter_beat, get_default_output_device
<1>28. /\ Scripts["clock_jitter"] = clock_jitter /\ Scripts["mach_timing"] = mach_timing
      /\ Scripts["mach_continuous_timing"] = mach_continuous_timing
      /\ Scripts["commpage_clock_timing"] = commpage_clock_timing
      /\ Scripts["dram_row_buffer"] = dram_row_buffer
  BY DEF Scripts, KernelScripts
<1>29. /\ Scripts["amx_timing"] = amx_timing /\ Scripts["denormal_timing"] = denormal_timing
      /\ Scripts["speculative_execution"] = speculative_execution
      /\ Scripts["prefetcher_state"] = prefetcher_state
      /\ Scripts["sev_event_timing"] = sev_event_timing
      /\ Scripts["commoncrypto_aes_timing"] = commoncrypto_aes_timing
      /\ Scripts["cccrypt_probe"] = cccrypt_probe
  BY DEF Scripts, KernelScripts, ChipScripts
<1>30. /\ Scripts["pe_core_arithmetic"] = pe_core_arithmetic
       /\ Scripts["sleep_jitter"] = sleep_jitter
       /\ Scripts["timer_coalescing"] = timer_coalescing
       /\ Scripts["preemption_boundary"] = preemption_boundary
       /\ Scripts["audio_noise"] = audio_noise
       /\ Scripts["compression_timing"] = compression_timing
       /\ Scripts["hash_timing"] = hash_timing /\ Scripts["getentropy_timing"] = getentropy_timing
       /\ Scripts["proc_info_timing"] = proc_info_timing /\ Scripts["ioregistry"] = ioregistry
       /\ Scripts["sysctl_deltas"] = sysctl_deltas /\ Scripts["vmstat_deltas"] = vmstat_deltas
       /\ Scripts["process_table"] = process_table
       /\ Scripts["audio_pll_timing"] = audio_pll_timing
       /\ Scripts["counter_beat"] = counter_beat
  BY DEF Scripts, KernelScripts, ChipScripts, HostScripts
<1>31. \A s \in IdleSources : Idle(Scripts[s])
  BY <1>1, <1>2, <1>3, <1>4, <1>5, <1>6, <1>7, <1>8, <1>9, <1>10, <1>11, <1>12, <1>13, <1>14,
     <1>15, <1>16, <1>17, <1>18, <1>19, <1>20, <1>21, <1>22, <1>23, <1>24, <1>25, <1>26, <1>27,
     <1>28, <1>29, <1>30 DEF IdleSources
<1>32. \A s \in IdleSources : s \notin Exceptions
  BY DEF IdleSources, Exceptions, KnownLeaks, KnownLeaksOfPanic, LoansOf
<1> QED
  BY <1>31, <1>32, InertLedger DEF Idle, Ways

\* The sources that take one thing and give it back themselves, or nothing.
LEMMA ByHandLedgers ==
  \A s \in {"nvme_passthrough_linux", "has_nvme_passthrough", "can_open_raw_device",
           "aprr_available", "tlb_shootdown", "smc_available",
           "icc_atomic_contention", "sitva"} : \E L : Agrees(s, L)
<1>1. \E L : Agrees("nvme_passthrough_linux", L)
  <2>1. Scripts["nvme_passthrough_linux"] = nvme_passthrough_linux
    BY DEF Scripts, KernelScripts
  <2>2. /\ nvme_passthrough_linux.setup = <<Get("fd", "return")>>
        /\ nvme_passthrough_linux.teardown = <<Put("fd")>>
        /\ nvme_passthrough_linux.body = <<Try("next"), Stamp>>
    BY ScriptParts DEF nvme_passthrough_linux, try_open_nvme
  <2>3. "nvme_passthrough_linux" \notin Exceptions
    BY DEF Exceptions, KnownLeaks, KnownLeaksOfPanic, LoansOf
  <2> QED
    BY <2>1, <2>2, <2>3, RoundSequences, ByHandLedger
<1>2. \E L : Agrees("has_nvme_passthrough", L)
  <2>1. Scripts["has_nvme_passthrough"] = has_nvme_passthrough
    BY DEF Scripts, KernelScripts
  <2>2. /\ has_nvme_passthrough.setup = <<Get("fd", "return")>>
        /\ has_nvme_passthrough.teardown = <<Put("fd")>>
        /\ has_nvme_passthrough.body = << >>
    BY ScriptParts DEF has_nvme_passthrough, try_open_nvme
  <2>3. "has_nvme_passthrough" \notin Exceptions
    BY DEF Exceptions, KnownLeaks, KnownLeaksOfPanic, LoansOf
  <2> QED
    BY <2>1, <2>2, <2>3, RoundSequences, ByHandLedger
<1>3. \E L : Agrees("can_open_raw_device", L)
  <2>1. Scripts["can_open_raw_device"] = can_open_raw_device
    BY DEF Scripts, KernelScripts
  <2>2. /\ can_open_raw_device.setup = <<Get("fd", "return")>>
        /\ can_open_raw_device.teardown = <<Put("fd")>>
        /\ can_open_raw_device.body = << >>
    BY ScriptParts DEF can_open_raw_device, try_open_raw_device
  <2>3. "can_open_raw_device" \notin Exceptions
    BY DEF Exceptions, KnownLeaks, KnownLeaksOfPanic, LoansOf
  <2> QED
    BY <2>1, <2>2, <2>3, RoundSequences, ByHandLedger
<1>4. \E L : Agrees("aprr_available", L)
  <2>1. Scripts["aprr_available"] = aprr_available
    BY DEF Scripts, KernelScripts, ChipScripts
  <2>2. /\ aprr_available.setup = <<Get("page", "return")>>
        /\ aprr_available.teardown = <<Put("page")>>
        /\ aprr_available.body = << >>
    BY ScriptParts DEF aprr_available
  <2>3. "aprr_available" \notin Exceptions
    BY DEF Exceptions, KnownLeaks, KnownLeaksOfPanic, LoansOf
  <2> QED
    BY <2>1, <2>2, <2>3, RoundSequences, ByHandLedger
<1>5. \E L : Agrees("tlb_shootdown", L)
  <2>1. Scripts["tlb_shootdown"] = tlb_shootdown
    BY DEF Scripts, KernelScripts, ChipScripts
  <2>2. /\ tlb_shootdown.setup = <<Get("region", "return")>>
        /\ tlb_shootdown.teardown = <<Put("region")>>
        /\ tlb_shootdown.body = <<Stamp>>
    BY ScriptParts DEF tlb_shootdown
  <2>3. "tlb_shootdown" \notin Exceptions
    BY DEF Exceptions, KnownLeaks, KnownLeaksOfPanic, LoansOf
  <2> QED
    BY <2>1, <2>2, <2>3, RoundSequences, ByHandLedger
<1>6. \E L : Agrees("smc_available", L)
  <2>1. Scripts["smc_available"] = smc_available
    BY DEF Scripts, KernelScripts, ChipScripts, HostScripts
  <2>2. /\ smc_available.setup = <<Get("service", "return")>>
        /\ smc_available.teardown = <<Put("service")>>
        /\ smc_available.body = << >>
    BY ScriptParts DEF smc_available
  <2>3. "smc_available" \notin Exceptions
    BY DEF Exceptions, KnownLeaks, KnownLeaksOfPanic, LoansOf
  <2> QED
    BY <2>1, <2>2, <2>3, RoundSequences, ByHandLedger
<1>7. \E L : Agrees("icc_atomic_contention", L)
  <2>1. Scripts["icc_atomic_contention"] = icc_atomic_contention
    BY DEF Scripts, KernelScripts, ChipScripts
  <2>2. /\ icc_atomic_contention.setup = <<Spawn("contender", {})>>
        /\ icc_atomic_contention.teardown = <<Join("contender")>>
        /\ icc_atomic_contention.body = <<Filter>>
    BY ScriptParts DEF icc_atomic_contention
  <2>3. "icc_atomic_contention" \notin Exceptions
    BY DEF Exceptions, KnownLeaks, KnownLeaksOfPanic, LoansOf
  <2> QED
    BY <2>1, <2>2, <2>3, RoundSequences, ByHandLedger
<1>8. \E L : Agrees("sitva", L)
  <2>1. Scripts["sitva"] = sitva
    BY DEF Scripts, KernelScripts, ChipScripts
  <2>2. /\ sitva.setup = <<Spawn("companion", {})>> /\ sitva.teardown = <<Join("companion")>>
        /\ sitva.body = <<Stamp>>
    BY ScriptParts DEF sitva
  <2>3. "sitva" \notin Exceptions
    BY DEF Exceptions, KnownLeaks, KnownLeaksOfPanic, LoansOf
  <2> QED
    BY <2>1, <2>2, <2>3, RoundSequences, ByHandLedger
<1> QED
  BY <1>1, <1>2, <1>3, <1>4, <1>5, <1>6, <1>7, <1>8

\* The page an instruction is run from is unmapped when its guard is dropped.
LEMMA JitPageLedgers ==
  \A s \in {"aprr_jit_timing", "cntfrq_cache_timing", "cntfrq_available",
           "gxf_register_timing"} : \E L : Agrees(s, L)
<1>1. /\ aprr_jit_timing.setup = <<Own("page", "return")>> /\ aprr_jit_timing.teardown = << >>
      /\ aprr_jit_timing.body = <<Filter, Filter>>
  BY ScriptParts DEF aprr_jit_timing, JitPage
<1>2. /\ cntfrq_cache_timing.setup = <<Own("page", "return")>>
      /\ cntfrq_cache_timing.teardown = << >>
      /\ cntfrq_cache_timing.body = <<Filter>>
  BY ScriptParts DEF cntfrq_cache_timing, JitPage
<1>3. /\ cntfrq_available.setup = <<Own("page", "return")>> /\ cntfrq_available.teardown = << >>
      /\ cntfrq_available.body = << >>
  BY ScriptParts DEF cntfrq_available, JitPage
<1>4. /\ gxf_register_timing.setup = <<Own("page", "return")>>
      /\ gxf_register_timing.teardown = << >>
      /\ gxf_register_timing.body = <<Filter>>
  BY ScriptParts DEF gxf_register_timing, JitPage
<1>5. /\ Scripts["aprr_jit_timing"] = aprr_jit_timing
      /\ Scripts["cntfrq_cache_timing"] = cntfrq_cache_timing
      /\ Scripts["cntfrq_available"] = cntfrq_available
      /\ Scripts["gxf_register_timing"] = gxf_register_timing
  BY DEF Scripts, KernelScripts, ChipScripts
<1> SUFFICES ASSUME NEW s \in {"aprr_jit_timing", "cntfrq_cache_timing", "cntfrq_available",
                            "gxf_register_timing"}
             PROVE  \E L : Agrees(s, L)
  OBVIOUS
<1>6. /\ Scripts[s].setup = <<Own("page", "return")>> /\ Scripts[s].teardown = << >>
      /\ \E b \in Seq(Inert({"next"})) : Scripts[s].body = b
  BY <1>1, <1>2, <1>3, <1>4, <1>5, RoundSequences
<1>7. s \notin Exceptions
  BY DEF Exceptions, KnownLeaks, KnownLeaksOfPanic, LoansOf
<1> QED
  BY <1>6, <1>7, DroppedLedger

-------------------------- (* the ledger of each source *) --------------------

\* A round maps pages and unmaps them.
LEMMA PageFaultTimingLedger == \E L : Agrees("page_fault_timing", L)
<1> DEFINE x == Context("page_fault_timing", {}, {}, Nothing, Nothing)
<1>1. Plain(x, {}, {}, {}, {})
  BY PlainContext DEF Exceptions, KnownLeaks, KnownLeaksOfPanic, LoansOf, Only, Nothing
<1> HIDE DEF x
<1> USE <1>1 DEF Plain, Fits, Bearable, Only, Nothing
<1>2. Leads(x, page_fault_timing.setup, Nothing, Nothing)
  BY Leads0, ScriptParts DEF page_fault_timing, Sampler
<1>3. Leads(x, page_fault_timing.body, Nothing, Nothing)
  <2>1. Kept(x, Get("mapping", "next"), Nothing, Only({"mapping"}))
    BY GetBetween
  <2>2. Kept(x, Stamp, Only({"mapping"}), Only({"mapping"}))
    BY StampBetween
  <2>3. Kept(x, Put("mapping"), Only({"mapping"}), Nothing)
    BY PutBetween
  <2> QED
    BY <2>1, <2>2, <2>3, Leads3, ScriptParts DEF page_fault_timing, Sampler
<1>4. Leads(x, page_fault_timing.teardown, Nothing, Nothing)
  BY Leads0, ScriptParts DEF page_fault_timing, Sampler
<1>5. SetUpOver(x, Nothing) /\ RoundsOver(x, Nothing) /\ AllOver(x, Nothing)
  BY EndsBetween
<1>6. Scripts["page_fault_timing"] = page_fault_timing
  BY DEF Scripts, KernelScripts
<1> QED
  BY <1>2, <1>3, <1>4, <1>5, <1>6, LedgerOfNothingOwned DEF x

\* The pool of ports is held throughout; a round may make a port and destroys it.
LEMMA MachIpcPlainLedger == \E L : Agrees("mach_ipc_plain", L)
<1> DEFINE x == Context("mach_ipc_plain", {}, {}, Only({"ports"}), Only({"ports"}))
<1>1. Plain(x, {}, {}, {"ports"}, {"ports"})
  BY PlainContext DEF Exceptions, KnownLeaks, KnownLeaksOfPanic, LoansOf, Only, Nothing
<1> HIDE DEF x
<1> USE <1>1 DEF Plain, Fits, Bearable, Only, Nothing
<1>2. Leads(x, mach_ipc_plain.setup, Nothing, Only({"ports"}))
  <2>1. Kept(x, Get("ports", "on"), Nothing, Between({}, {"ports"}))
    BY GetBetween
  <2>2. Kept(x, If({"ports"}, Freeing({"ports"}, Try("on"))), Between({}, {"ports"}),
            Between({}, {"ports"}))
    BY IfTryFreeingBetween
  <2>3. Kept(x, Require("ports", "switch"), Between({}, {"ports"}), Only({"ports"}))
    BY RequireBetween
  <2> QED
    BY <2>1, <2>2, <2>3, Leads3, ScriptParts DEF mach_ipc_plain, Ports
<1>3. Leads(x, mach_ipc_plain.body, Only({"ports"}), Only({"ports"}))
  <2>1. Kept(x, Get("port", "on"), Only({"ports"}), Between({"ports"}, {"ports", "port"}))
    BY GetBetween
  <2>2. Kept(x, If({"port"}, Put("port")), Between({"ports"}, {"ports", "port"}),
            Only({"ports"}))
    BY IfPutBetween
  <2>3. Kept(x, Stamp, Only({"ports"}), Only({"ports"}))
    BY StampBetween
  <2> QED
    BY <2>1, <2>2, <2>3, Leads3, ScriptParts DEF mach_ipc_plain, Ports
<1>4. Leads(x, mach_ipc_plain.teardown, Only({"ports"}), Nothing)
  <2>1. Kept(x, Put("ports"), Only({"ports"}), Nothing)
    BY PutBetween
  <2> QED
    BY <2>1, Leads1, ScriptParts DEF mach_ipc_plain, Ports
<1>5. SetUpOver(x, Only({"ports"})) /\ RoundsOver(x, Only({"ports"})) /\ AllOver(x, Nothing)
  BY EndsBetween
<1>6. Scripts["mach_ipc_plain"] = mach_ipc_plain
  BY DEF Scripts, KernelScripts
<1> QED
  BY <1>2, <1>3, <1>4, <1>5, <1>6, LedgerOfNothingOwned DEF x

\* A round makes a port and destroys it.
LEMMA MachIpcSimpleLedger == \E L : Agrees("mach_ipc_simple", L)
<1> DEFINE x == Context("mach_ipc_simple", {}, {}, Nothing, Nothing)
<1>1. Plain(x, {}, {}, {}, {})
  BY PlainContext DEF Exceptions, KnownLeaks, KnownLeaksOfPanic, LoansOf, Only, Nothing
<1> HIDE DEF x
<1> USE <1>1 DEF Plain, Fits, Bearable, Only, Nothing
<1>2. Leads(x, mach_ipc_simple.setup, Nothing, Nothing)
  BY Leads0, ScriptParts DEF mach_ipc_simple, Sampler
<1>3. Leads(x, mach_ipc_simple.body, Nothing, Nothing)
  <2>1. Kept(x, Get("port", "on"), Nothing, Between({}, {"port"}))
    BY GetBetween
  <2>2. Kept(x, If({"port"}, Put("port")), Between({}, {"port"}), Nothing)
    BY IfPutBetween
  <2>3. Kept(x, Stamp, Nothing, Nothing)
    BY StampBetween
  <2> QED
    BY <2>1, <2>2, <2>3, Leads3, ScriptParts DEF mach_ipc_simple, Sampler
<1>4. Leads(x, mach_ipc_simple.teardown, Nothing, Nothing)
  BY Leads0, ScriptParts DEF mach_ipc_simple, Sampler
<1>5. SetUpOver(x, Nothing) /\ RoundsOver(x, Nothing) /\ AllOver(x, Nothing)
  BY EndsBetween
<1>6. Scripts["mach_ipc_simple"] = mach_ipc_simple
  BY DEF Scripts, KernelScripts
<1> QED
  BY <1>2, <1>3, <1>4, <1>5, <1>6, LedgerOfNothingOwned DEF x

\* The pool of pipes is held throughout; a round may open one more and closes it.
LEMMA PipeBufferLedger == \E L : Agrees("pipe_buffer", L)
<1> DEFINE x == Context("pipe_buffer", {}, {}, Only({"pipes"}), Only({"pipes"}))
<1>1. Plain(x, {}, {}, {"pipes"}, {"pipes"})
  BY PlainContext DEF Exceptions, KnownLeaks, KnownLeaksOfPanic, LoansOf, Only, Nothing
<1> HIDE DEF x
<1> USE <1>1 DEF Plain, Fits, Bearable, Only, Nothing
<1>2. Leads(x, pipe_buffer.setup, Nothing, Only({"pipes"}))
  <2>1. Kept(x, Get("pipes", "on"), Nothing, Between({}, {"pipes"}))
    BY GetBetween
  <2>2. Kept(x, Require("pipes", "switch"), Between({}, {"pipes"}), Only({"pipes"}))
    BY RequireBetween
  <2> QED
    BY <2>1, <2>2, Leads2, ScriptParts DEF pipe_buffer
<1>3. Leads(x, pipe_buffer.body, Only({"pipes"}), Only({"pipes"}))
  <2>1. Kept(x, Stamp, Only({"pipes"}), Only({"pipes"}))
    BY StampBetween
  <2>2. Kept(x, Get("extra", "on"), Only({"pipes"}), Between({"pipes"}, {"pipes", "extra"}))
    BY GetBetween
  <2>3. Kept(x, If({"extra"}, Put("extra")), Between({"pipes"}, {"pipes", "extra"}),
            Only({"pipes"}))
    BY IfPutBetween
  <2> QED
    BY <2>1, <2>2, <2>3, Leads3, ScriptParts DEF pipe_buffer
<1>4. Leads(x, pipe_buffer.teardown, Only({"pipes"}), Nothing)
  <2>1. Kept(x, Put("pipes"), Only({"pipes"}), Nothing)
    BY PutBetween
  <2> QED
    BY <2>1, Leads1, ScriptParts DEF pipe_buffer
<1>5. SetUpOver(x, Only({"pipes"})) /\ RoundsOver(x, Only({"pipes"})) /\ AllOver(x, Nothing)
  BY EndsBetween
<1>6. Scripts["pipe_buffer"] = pipe_buffer
  BY DEF Scripts, KernelScripts
<1> QED
  BY <1>2, <1>3, <1>4, <1>5, <1>6, LedgerOfNothingOwned DEF x

\* A round opens a pipe and closes it.
LEMMA CollectSinglePipeLedger == \E L : Agrees("collect_single_pipe", L)
<1> DEFINE x == Context("collect_single_pipe", {}, {}, Nothing, Nothing)
<1>1. Plain(x, {}, {}, {}, {})
  BY PlainContext DEF Exceptions, KnownLeaks, KnownLeaksOfPanic, LoansOf, Only, Nothing
<1> HIDE DEF x
<1> USE <1>1 DEF Plain, Fits, Bearable, Only, Nothing
<1>2. Leads(x, collect_single_pipe.setup, Nothing, Nothing)
  BY Leads0, ScriptParts DEF collect_single_pipe, Sampler
<1>3. Leads(x, collect_single_pipe.body, Nothing, Nothing)
  <2>1. Kept(x, Get("pipe", "next"), Nothing, Only({"pipe"}))
    BY GetBetween
  <2>2. Kept(x, Put("pipe"), Only({"pipe"}), Nothing)
    BY PutBetween
  <2>3. Kept(x, Stamp, Nothing, Nothing)
    BY StampBetween
  <2> QED
    BY <2>1, <2>2, <2>3, Leads3, ScriptParts DEF collect_single_pipe, Sampler
<1>4. Leads(x, collect_single_pipe.teardown, Nothing, Nothing)
  BY Leads0, ScriptParts DEF collect_single_pipe, Sampler
<1>5. SetUpOver(x, Nothing) /\ RoundsOver(x, Nothing) /\ AllOver(x, Nothing)
  BY EndsBetween
<1>6. Scripts["collect_single_pipe"] = collect_single_pipe
  BY DEF Scripts, KernelScripts
<1> QED
  BY <1>2, <1>3, <1>4, <1>5, <1>6, LedgerOfNothingOwned DEF x

\* The query's objects are held throughout; the item may not have been added.
LEMMA KeychainReadLedger == \E L : Agrees("keychain_read", L)
<1> DEFINE x == Context("keychain_read", {}, {},
                       Between({"label", "secret", "attributes", "del", "query"},
                               {"label", "secret", "attributes", "del", "item", "query"}),
                       Between({"label", "secret", "attributes", "del", "query"},
                               {"label", "secret", "attributes", "del", "item", "query"}))
<1>1. Plain(x, {}, {}, {"label", "secret", "attributes", "del", "query"},
            {"label", "secret", "attributes", "del", "item", "query"})
  BY PlainContext DEF Exceptions, KnownLeaks, KnownLeaksOfPanic, LoansOf, Only, Nothing
<1> HIDE DEF x
<1> USE <1>1 DEF Plain, Fits, Bearable, Only, Nothing
<1>2. Leads(x, keychain_read.setup, Nothing,
             Between({"label", "secret", "attributes", "del", "query"},
                     {"label", "secret", "attributes", "del", "item", "query"}))
  <2>1. Leads(x, CFObjects, Nothing, Only({"label", "secret", "attributes"}))
    <3>1. Kept(x, Get("label", "never"), Nothing, Only({"label"}))
      BY GetNeverBetween
    <3>2. Kept(x, Get("secret", "never"), Only({"label"}), Only({"label", "secret"}))
      BY GetNeverBetween
    <3>3. Kept(x, Get("attributes", "never"), Only({"label", "secret"}),
              Only({"label", "secret", "attributes"}))
      BY GetNeverBetween
    <3> QED
      BY <3>1, <3>2, <3>3, Leads3, ScriptParts DEF CFObjects
  <2>2. Leads(x, <<Get("del", "never"), Get("item", "on"), Get("query", "never")>>,
               Only({"label", "secret", "attributes"}),
               Between({"label", "secret", "attributes", "del", "query"},
                       {"label", "secret", "attributes", "del", "item", "query"}))
    <3> DEFINE e1 == Only({"label", "secret", "attributes", "del"})
               e2 == Between({"label", "secret", "attributes", "del"},
                             {"label", "secret", "attributes", "del", "item"})
    <3>1. Kept(x, Get("del", "never"), Only({"label", "secret", "attributes"}), e1)
      BY GetNeverBetween
    <3>2. Kept(x, Get("item", "on"), e1, e2)
      BY GetBetween
    <3>3. Kept(x, Get("query", "never"), e2,
              Between({"label", "secret", "attributes", "del", "query"},
                      {"label", "secret", "attributes", "del", "item", "query"}))
      BY GetNeverBetween
    <3> QED
      BY <3>1, <3>2, <3>3, Leads3
  <2> QED
    BY <2>1, <2>2, LeadsThen, ScriptParts DEF keychain_read
<1>3. Leads(x, keychain_read.body,
             Between({"label", "secret", "attributes", "del", "query"},
                     {"label", "secret", "attributes", "del", "item", "query"}),
             Between({"label", "secret", "attributes", "del", "query"},
                     {"label", "secret", "attributes", "del", "item", "query"}))
  <2> DEFINE e1 == Between({"label", "secret", "attributes", "del", "query"},
                           {"label", "secret", "attributes", "del", "item", "query", "result"})
  <2>1. Kept(x, Get("result", "on"),
            Between({"label", "secret", "attributes", "del", "query"},
                    {"label", "secret", "attributes", "del", "item", "query"}),
            e1)
    BY GetBetween
  <2>2. Kept(x, Stamp, e1, e1)
    BY StampBetween
  <2>3. Kept(x, If({"result"}, Put("result")), e1,
            Between({"label", "secret", "attributes", "del", "query"},
                    {"label", "secret", "attributes", "del", "item", "query"}))
    BY IfPutBetween
  <2> QED
    BY <2>1, <2>2, <2>3, Leads3, ScriptParts DEF keychain_read
<1>4. Leads(x, keychain_read.teardown,
             Between({"label", "secret", "attributes", "del", "query"},
                     {"label", "secret", "attributes", "del", "item", "query"}),
             Nothing)
  <2> DEFINE e1 == Only({"label", "secret", "attributes", "del", "query"})
             e2 == Only({"label", "secret", "attributes", "query"})
  <2>1. Kept(x, If({"item"}, Put("item")),
            Between({"label", "secret", "attributes", "del", "query"},
                    {"label", "secret", "attributes", "del", "item", "query"}),
            e1)
    BY IfPutBetween
  <2>2. Kept(x, Put("del"), e1, e2)
    BY PutBetween
  <2>3. Kept(x, Put("attributes"), e2, Only({"label", "secret", "query"}))
    BY PutBetween
  <2>4. Kept(x, Put("query"), Only({"label", "secret", "query"}), Only({"label", "secret"}))
    BY PutBetween
  <2>5. Kept(x, Put("secret"), Only({"label", "secret"}), Only({"label"}))
    BY PutBetween
  <2>6. Kept(x, Put("label"), Only({"label"}), Nothing)
    BY PutBetween
  <2> QED
    BY <2>1, <2>2, <2>3, <2>4, <2>5, <2>6, Leads6, ScriptParts DEF keychain_read
<1>5.
      SetUpOver(x, Between({"label", "secret", "attributes", "del", "query"},
                           {"label", "secret", "attributes", "del", "item", "query"}))
      /\ RoundsOver(x, Between({"label", "secret", "attributes", "del", "query"},
                               {"label", "secret", "attributes", "del", "item", "query"}))
      /\ AllOver(x, Nothing)
  BY EndsBetween
<1>6. Scripts["keychain_read"] = keychain_read
  BY DEF Scripts, KernelScripts
<1> QED
  BY <1>2, <1>3, <1>4, <1>5, <1>6, LedgerOfNothingOwned DEF x

\* A round makes an item's objects, adds and deletes it, and releases them all.
LEMMA KeychainWriteLedger == \E L : Agrees("keychain_write", L)
<1> DEFINE x == Context("keychain_write", {}, {}, Nothing, Nothing)
<1>1. Plain(x, {}, {}, {}, {})
  BY PlainContext DEF Exceptions, KnownLeaks, KnownLeaksOfPanic, LoansOf, Only, Nothing
<1> HIDE DEF x
<1> USE <1>1 DEF Plain, Fits, Bearable, Only, Nothing
<1>2. Leads(x, keychain_write.setup, Nothing, Nothing)
  BY Leads0, ScriptParts DEF keychain_write, Sampler
<1>3. Leads(x, keychain_write.body, Nothing, Nothing)
  <2>1. Leads(x, CFObjects, Nothing, Only({"label", "secret", "attributes"}))
    <3>1. Kept(x, Get("label", "never"), Nothing, Only({"label"}))
      BY GetNeverBetween
    <3>2. Kept(x, Get("secret", "never"), Only({"label"}), Only({"label", "secret"}))
      BY GetNeverBetween
    <3>3. Kept(x, Get("attributes", "never"), Only({"label", "secret"}),
              Only({"label", "secret", "attributes"}))
      BY GetNeverBetween
    <3> QED
      BY <3>1, <3>2, <3>3, Leads3, ScriptParts DEF CFObjects
  <2>2. Leads(x,
               <<Get("item", "on"), If({"item"}, Stamp), Get("del", "never"),
                 If({"item"}, Put("item")), Put("del"), Put("attributes"), Put("secret"),
                 Put("label")>>,
               Only({"label", "secret", "attributes"}), Nothing)
    <3> DEFINE e1 == Between({"label", "secret", "attributes"},
                             {"label", "secret", "attributes", "item"})
               e2 == Between({"label", "secret", "attributes", "del"},
                             {"label", "secret", "attributes", "item", "del"})
               e3 == Only({"label", "secret", "attributes", "del"})
    <3>1. Kept(x, Get("item", "on"), Only({"label", "secret", "attributes"}), e1)
      BY GetBetween
    <3>2. Kept(x, If({"item"}, Stamp), e1, e1)
      BY StampBetween
    <3>3. Kept(x, Get("del", "never"), e1, e2)
      BY GetNeverBetween
    <3>4. Kept(x, If({"item"}, Put("item")), e2, e3)
      BY IfPutBetween
    <3>5. Kept(x, Put("del"), e3, Only({"label", "secret", "attributes"}))
      BY PutBetween
    <3>6. Kept(x, Put("attributes"), Only({"label", "secret", "attributes"}),
              Only({"label", "secret"}))
      BY PutBetween
    <3>7. Kept(x, Put("secret"), Only({"label", "secret"}), Only({"label"}))
      BY PutBetween
    <3>8. Kept(x, Put("label"), Only({"label"}), Nothing)
      BY PutBetween
    <3> QED
      BY <3>1, <3>2, <3>3, <3>4, <3>5, <3>6, <3>7, <3>8, Leads8
  <2> QED
    BY <2>1, <2>2, LeadsThen, ScriptParts DEF keychain_write, Sampler
<1>4. Leads(x, keychain_write.teardown, Nothing, Nothing)
  BY Leads0, ScriptParts DEF keychain_write, Sampler
<1>5. SetUpOver(x, Nothing) /\ RoundsOver(x, Nothing) /\ AllOver(x, Nothing)
  BY EndsBetween
<1>6. Scripts["keychain_write"] = keychain_write
  BY DEF Scripts, KernelScripts
<1> QED
  BY <1>2, <1>3, <1>4, <1>5, <1>6, LedgerOfNothingOwned DEF x

\* The call owns its temporary file.
LEMMA DiskIoLedger == \E L : Agrees("disk_io", L)
<1> DEFINE x == Context("disk_io", {}, {"tempfile"}, Only({"tempfile"}), Only({"tempfile"}))
<1>1. Plain(x, {}, {"tempfile"}, {"tempfile"}, {"tempfile"})
  BY PlainContext DEF Exceptions, KnownLeaks, KnownLeaksOfPanic, LoansOf, Only, Nothing
<1> HIDE DEF x
<1> USE <1>1 DEF Plain, Fits, Bearable, Only, Nothing
<1>2. Leads(x, disk_io.setup, Nothing, Only({"tempfile"}))
  <2>1. Kept(x, Own("tempfile", "return"), Nothing, Only({"tempfile"}))
    BY GetBetween
  <2>2. Kept(x, Try("return"), Only({"tempfile"}), Only({"tempfile"}))
    BY TryBetween
  <2> QED
    BY <2>1, <2>2, Leads3, ScriptParts DEF disk_io
<1>3. Leads(x, disk_io.body, Only({"tempfile"}), Only({"tempfile"}))
  <2>1. Kept(x, Stamp, Only({"tempfile"}), Only({"tempfile"}))
    BY StampBetween
  <2> QED
    BY <2>1, Leads1, ScriptParts DEF disk_io
<1>4. Leads(x, disk_io.teardown, Only({"tempfile"}), Only({"tempfile"}))
  BY Leads0, ScriptParts DEF disk_io
<1>5. SetUpOver(x, Only({"tempfile"})) /\ RoundsOver(x, Only({"tempfile"}))
      /\ AllOver(x, Only({"tempfile"}))
  BY EndsBetween
<1>6. Scripts["disk_io"] = disk_io
  BY DEF Scripts, KernelScripts
<1>7. OwnedOf(disk_io.setup) = {"tempfile"}
  <2>1. 1 \in DOMAIN disk_io.setup /\ disk_io.setup[1] = Own("tempfile", "return")
    BY ScriptParts DEF disk_io
  <2> QED
    BY <1>2, <2>1, OwnsOne
<1>8. OwnedOf(disk_io.body) = {}
  <2>1. disk_io.body = <<Stamp>>
    BY ScriptParts DEF disk_io
  <2> QED
    BY <2>1, RoundSequences, InertOwnsNothing
<1> QED
  BY <1>2, <1>3, <1>4, <1>5, <1>6, <1>7, <1>8, LedgerIs DEF x, OwnedBy

\* A round owns its temporary file.
LEMMA FsyncJournalLedger == \E L : Agrees("fsync_journal", L)
<1> DEFINE x == Context("fsync_journal", {"tempfile"}, {}, Nothing, Nothing)
<1>1. Plain(x, {"tempfile"}, {}, {}, {})
  BY PlainContext DEF Exceptions, KnownLeaks, KnownLeaksOfPanic, LoansOf, Only, Nothing
<1> HIDE DEF x
<1> USE <1>1 DEF Plain, Fits, Bearable, Only, Nothing
<1>2. Leads(x, fsync_journal.setup, Nothing, Nothing)
  BY Leads0, ScriptParts DEF fsync_journal, Sampler
<1>3. Leads(x, fsync_journal.body, Nothing, Only({"tempfile"}))
  <2>1. Kept(x, Try("break"), Nothing, Nothing)
    BY TryBetween
  <2>2. Kept(x, Own("tempfile", "next"), Nothing, Only({"tempfile"}))
    BY GetBetween
  <2>3. Kept(x, Try("next"), Only({"tempfile"}), Only({"tempfile"}))
    BY TryBetween
  <2>4. Kept(x, Stamp, Only({"tempfile"}), Only({"tempfile"}))
    BY StampBetween
  <2> QED
    BY <2>1, <2>2, <2>3, <2>4, Leads6, ScriptParts DEF fsync_journal, Sampler
<1>4. Leads(x, fsync_journal.teardown, Nothing, Nothing)
  BY Leads0, ScriptParts DEF fsync_journal, Sampler
<1>5. SetUpOver(x, Nothing) /\ RoundsOver(x, Only({"tempfile"})) /\ AllOver(x, Nothing)
  BY EndsBetween
<1>6. Scripts["fsync_journal"] = fsync_journal
  BY DEF Scripts, KernelScripts
<1>7. OwnedOf(fsync_journal.body) = {"tempfile"}
  <2>1. 2 \in DOMAIN fsync_journal.body /\ fsync_journal.body[2] = Own("tempfile", "next")
    BY ScriptParts DEF fsync_journal, Sampler
  <2> QED
    BY <1>3, <2>1, OwnsOne
<1>8. OwnedOf(fsync_journal.setup) = {}
  <2>1. fsync_journal.setup = <<>>
    BY ScriptParts DEF fsync_journal, Sampler
  <2> QED
    BY <2>1, RoundSequences, InertOwnsNothing
<1> QED
  BY <1>2, <1>3, <1>4, <1>5, <1>6, <1>7, <1>8, LedgerIs DEF x, OwnedBy

\* The device and the buffer are held throughout.
LEMMA NvmeRawDeviceLedger == \E L : Agrees("nvme_raw_device", L)
<1> DEFINE x == Context("nvme_raw_device", {}, {}, Only({"fd", "buffer"}),
                       Only({"fd", "buffer"}))
<1>1. Plain(x, {}, {}, {"fd", "buffer"}, {"fd", "buffer"})
  BY PlainContext DEF Exceptions, KnownLeaks, KnownLeaksOfPanic, LoansOf, Only, Nothing
<1> HIDE DEF x
<1> USE <1>1 DEF Plain, Fits, Bearable, Only, Nothing
<1>2. Leads(x, nvme_raw_device.setup, Nothing, Only({"fd", "buffer"}))
  <2>1. Leads(x, try_open_raw_device, Nothing, Only({"fd"}))
    <3>1. Kept(x, Get("fd", "return"), Nothing, Only({"fd"}))
      BY GetBetween
    <3> QED
      BY <3>1, Leads1, ScriptParts DEF try_open_raw_device
  <2>2. Leads(x, <<Freeing({"fd"}, Get("buffer", "return"))>>, Only({"fd"}),
               Only({"fd", "buffer"}))
    <3>1. Kept(x, Freeing({"fd"}, Get("buffer", "return")), Only({"fd"}),
              Only({"fd", "buffer"}))
      BY GetFreeingBetween
    <3> QED
      BY <3>1, Leads1
  <2> QED
    BY <2>1, <2>2, LeadsThen, ScriptParts DEF nvme_raw_device
<1>3. Leads(x, nvme_raw_device.body, Only({"fd", "buffer"}), Only({"fd", "buffer"}))
  <2>1. Kept(x, Stamp, Only({"fd", "buffer"}), Only({"fd", "buffer"}))
    BY StampBetween
  <2> QED
    BY <2>1, Leads1, ScriptParts DEF nvme_raw_device
<1>4. Leads(x, nvme_raw_device.teardown, Only({"fd", "buffer"}), Nothing)
  <2>1. Kept(x, Put("buffer"), Only({"fd", "buffer"}), Only({"fd"}))
    BY PutBetween
  <2>2. Kept(x, Put("fd"), Only({"fd"}), Nothing)
    BY PutBetween
  <2> QED
    BY <2>1, <2>2, Leads2, ScriptParts DEF nvme_raw_device
<1>5. SetUpOver(x, Only({"fd", "buffer"})) /\ RoundsOver(x, Only({"fd", "buffer"}))
      /\ AllOver(x, Nothing)
  BY EndsBetween
<1>6. Scripts["nvme_raw_device"] = nvme_raw_device
  BY DEF Scripts, KernelScripts
<1> QED
  BY <1>2, <1>3, <1>4, <1>5, <1>6, LedgerOfNothingOwned DEF x

\* The Metal objects are made one by one, and released on each way out.
LEMMA GpuDivergenceLedger == \E L : Agrees("gpu_divergence", L)
<1> DEFINE x == Context("gpu_divergence", {}, {},
                       Only({"device", "queue", "pipeline", "buffers"}),
                       Only({"device", "queue", "pipeline", "buffers"}))
<1>1. Plain(x, {}, {}, {"device", "queue", "pipeline", "buffers"},
            {"device", "queue", "pipeline", "buffers"})
  BY PlainContext DEF Exceptions, KnownLeaks, KnownLeaksOfPanic, LoansOf, Only, Nothing
<1> HIDE DEF x
<1> USE <1>1 DEF Plain, Fits, Bearable, Only, Nothing
<1>2. Leads(x, gpu_divergence.setup, Nothing,
             Only({"device", "queue", "pipeline", "buffers"}))
  <2> DEFINE e1 == Only({"device", "queue", "source", "library"})
             e2 == Only({"device", "queue", "library", "function"})
             e3 == Only({"device", "queue", "library", "function", "pipeline"})
             e4 == Only({"device", "queue", "library", "pipeline"})
  <2>1. Kept(x, Freeing({}, Get("device", "return")), Nothing, Only({"device"}))
    BY GetFreeingBetween
  <2>2. Kept(x, Freeing({"device"}, Get("queue", "return")), Only({"device"}),
            Only({"device", "queue"}))
    BY GetFreeingBetween
  <2>3. Kept(x, Freeing({"device", "queue"}, Get("source", "return")),
            Only({"device", "queue"}), Only({"device", "queue", "source"}))
    BY GetFreeingBetween
  <2>4. Kept(x, Freeing({"device", "queue", "source"}, Get("library", "return")),
            Only({"device", "queue", "source"}), e1)
    BY GetFreeingBetween
  <2>5. Kept(x, Put("source"), e1, Only({"device", "queue", "library"}))
    BY PutBetween
  <2>6. Kept(x, Freeing({"device", "queue", "library"}, Get("function", "return")),
            Only({"device", "queue", "library"}), e2)
    BY GetFreeingBetween
  <2>7. Kept(x,
            Freeing({"device", "queue", "library", "function"}, Get("pipeline", "return")),
            e2, e3)
    BY GetFreeingBetween
  <2>8. Kept(x, Put("function"), e3, e4)
    BY PutBetween
  <2>9. Kept(x, Put("library"), e4, Only({"device", "queue", "pipeline"}))
    BY PutBetween
  <2>10. Kept(x, Freeing({"device", "queue", "pipeline"}, Get("buffers", "return")),
            Only({"device", "queue", "pipeline"}),
            Only({"device", "queue", "pipeline", "buffers"}))
    BY GetFreeingBetween
  <2> QED
    BY <2>1, <2>2, <2>3, <2>4, <2>5, <2>6, <2>7, <2>8, <2>9, <2>10, Leads10, ScriptParts
       DEF gpu_divergence, MetalState, DropMetalState
<1>3. Leads(x, gpu_divergence.body, Only({"device", "queue", "pipeline", "buffers"}),
             Only({"device", "queue", "pipeline", "buffers"}))
  <2> DEFINE e1 == Only({"device", "queue", "pipeline", "buffers"})
  <2>1. Kept(x, Try("next"), e1, e1)
    BY TryBetween
  <2>2. Kept(x, Stamp, e1, e1)
    BY StampBetween
  <2> QED
    BY <2>1, <2>2, Leads2, ScriptParts DEF gpu_divergence, MetalState, DropMetalState
<1>4. Leads(x, gpu_divergence.teardown, Only({"device", "queue", "pipeline", "buffers"}),
             Nothing)
  <2>1. Kept(x, Put("buffers"), Only({"device", "queue", "pipeline", "buffers"}),
            Only({"device", "queue", "pipeline"}))
    BY PutBetween
  <2>2. Kept(x, Put("pipeline"), Only({"device", "queue", "pipeline"}),
            Only({"device", "queue"}))
    BY PutBetween
  <2>3. Kept(x, Put("queue"), Only({"device", "queue"}), Only({"device"}))
    BY PutBetween
  <2>4. Kept(x, Put("device"), Only({"device"}), Nothing)
    BY PutBetween
  <2> QED
    BY <2>1, <2>2, <2>3, <2>4, Leads4, ScriptParts
       DEF gpu_divergence, MetalState, DropMetalState
<1>5. SetUpOver(x, Only({"device", "queue", "pipeline", "buffers"}))
      /\ RoundsOver(x, Only({"device", "queue", "pipeline", "buffers"}))
      /\ AllOver(x, Nothing)
  BY EndsBetween
<1>6. Scripts["gpu_divergence"] = gpu_divergence
  BY DEF Scripts, KernelScripts
<1> QED
  BY <1>2, <1>3, <1>4, <1>5, <1>6, LedgerOfNothingOwned DEF x

\* The probe makes and releases the same objects.
LEMMA MetalAvailableLedger == \E L : Agrees("metal_available", L)
<1> DEFINE x == Context("metal_available", {}, {},
                       Only({"device", "queue", "pipeline", "buffers"}),
                       Only({"device", "queue", "pipeline", "buffers"}))
<1>1. Plain(x, {}, {}, {"device", "queue", "pipeline", "buffers"},
            {"device", "queue", "pipeline", "buffers"})
  BY PlainContext DEF Exceptions, KnownLeaks, KnownLeaksOfPanic, LoansOf, Only, Nothing
<1> HIDE DEF x
<1> USE <1>1 DEF Plain, Fits, Bearable, Only, Nothing
<1>2. Leads(x, metal_available.setup, Nothing,
             Only({"device", "queue", "pipeline", "buffers"}))
  <2> DEFINE e1 == Only({"device", "queue", "source", "library"})
             e2 == Only({"device", "queue", "library", "function"})
             e3 == Only({"device", "queue", "library", "function", "pipeline"})
             e4 == Only({"device", "queue", "library", "pipeline"})
  <2>1. Kept(x, Freeing({}, Get("device", "return")), Nothing, Only({"device"}))
    BY GetFreeingBetween
  <2>2. Kept(x, Freeing({"device"}, Get("queue", "return")), Only({"device"}),
            Only({"device", "queue"}))
    BY GetFreeingBetween
  <2>3. Kept(x, Freeing({"device", "queue"}, Get("source", "return")),
            Only({"device", "queue"}), Only({"device", "queue", "source"}))
    BY GetFreeingBetween
  <2>4. Kept(x, Freeing({"device", "queue", "source"}, Get("library", "return")),
            Only({"device", "queue", "source"}), e1)
    BY GetFreeingBetween
  <2>5. Kept(x, Put("source"), e1, Only({"device", "queue", "library"}))
    BY PutBetween
  <2>6. Kept(x, Freeing({"device", "queue", "library"}, Get("function", "return")),
            Only({"device", "queue", "library"}), e2)
    BY GetFreeingBetween
  <2>7. Kept(x,
            Freeing({"device", "queue", "library", "function"}, Get("pipeline", "return")),
            e2, e3)
    BY GetFreeingBetween
  <2>8. Kept(x, Put("function"), e3, e4)
    BY PutBetween
  <2>9. Kept(x, Put("library"), e4, Only({"device", "queue", "pipeline"}))
    BY PutBetween
  <2>10. Kept(x, Freeing({"device", "queue", "pipeline"}, Get("buffers", "return")),
            Only({"device", "queue", "pipeline"}),
            Only({"device", "queue", "pipeline", "buffers"}))
    BY GetFreeingBetween
  <2> QED
    BY <2>1, <2>2, <2>3, <2>4, <2>5, <2>6, <2>7, <2>8, <2>9, <2>10, Leads10, ScriptParts
       DEF metal_available, MetalState, DropMetalState
<1>3. Leads(x, metal_available.body, Only({"device", "queue", "pipeline", "buffers"}),
             Only({"device", "queue", "pipeline", "buffers"}))
  BY Leads0, ScriptParts DEF metal_available, MetalState, DropMetalState
<1>4. Leads(x, metal_available.teardown, Only({"device", "queue", "pipeline", "buffers"}),
             Nothing)
  <2>1. Kept(x, Put("buffers"), Only({"device", "queue", "pipeline", "buffers"}),
            Only({"device", "queue", "pipeline"}))
    BY PutBetween
  <2>2. Kept(x, Put("pipeline"), Only({"device", "queue", "pipeline"}),
            Only({"device", "queue"}))
    BY PutBetween
  <2>3. Kept(x, Put("queue"), Only({"device", "queue"}), Only({"device"}))
    BY PutBetween
  <2>4. Kept(x, Put("device"), Only({"device"}), Nothing)
    BY PutBetween
  <2> QED
    BY <2>1, <2>2, <2>3, <2>4, Leads4, ScriptParts
       DEF metal_available, MetalState, DropMetalState
<1>5. SetUpOver(x, Only({"device", "queue", "pipeline", "buffers"}))
      /\ RoundsOver(x, Only({"device", "queue", "pipeline", "buffers"}))
      /\ AllOver(x, Nothing)
  BY EndsBetween
<1>6. Scripts["metal_available"] = metal_available
  BY DEF Scripts, KernelScripts
<1> QED
  BY <1>2, <1>3, <1>4, <1>5, <1>6, LedgerOfNothingOwned DEF x

\* The device after the fiftieth is dropped: known to leak.
LEMMA UsbEnumerationLedger == \E L : Agrees("usb_enumeration", L)
<1> DEFINE x == Context("usb_enumeration", {}, {}, Between({}, {"device51"}),
                       Between({}, {"device51"}))
<1>1. /\ x.local = {} /\ x.whole = {} /\ x.leaks = {"device51"} /\ x.panics = {}
      /\ x.strays = {} /\ x.lends = {} /\ x.queues = FALSE
      /\ x.again = Between({}, {"device51"}) /\ x.last = Between({}, {"device51"})
  BY DEF Context, At, KnownLeaks, KnownLeaksOfPanic, LoansOf, Only, Nothing
<1> HIDE DEF x
<1> USE <1>1 DEF Plain, Fits, Bearable, Only, Nothing
<1>2. Leads(x, usb_enumeration.setup, Nothing, Nothing)
  BY Leads0, ScriptParts DEF usb_enumeration, Sampler
<1>3. Leads(x, usb_enumeration.body, Between({}, {"device51"}), Between({}, {"device51"}))
  <2> DEFINE e1 == Between({}, {"iterator", "devices", "device51"})
  <2>1. Kept(x, Try("next"), Between({}, {"device51"}), Between({}, {"device51"}))
    BY TryBetween
  <2>2. Kept(x, Get("iterator", "on"), Between({}, {"device51"}),
            Between({}, {"iterator", "device51"}))
    BY GetBetween
  <2>3. Kept(x, If({"iterator"}, Get("devices", "on")),
            Between({}, {"iterator", "device51"}), e1)
    BY IfGetBetween
  <2>4. Kept(x, If({"devices"}, Put("devices")), e1, Between({}, {"iterator", "device51"}))
    BY IfPutBetween
  <2>5. Kept(x, If({"iterator"}, Get("device51", "on")),
            Between({}, {"iterator", "device51"}), Between({}, {"iterator", "device51"}))
    BY IfGetBetween
  <2>6. Kept(x, If({"iterator"}, Put("iterator")), Between({}, {"iterator", "device51"}),
            Between({}, {"device51"}))
    BY IfPutBetween
  <2>7. Kept(x, Filter, Between({}, {"device51"}), Between({}, {"device51"}))
    BY StampBetween
  <2> QED
    BY <2>1, <2>2, <2>3, <2>4, <2>5, <2>6, <2>7, Leads7, ScriptParts
       DEF usb_enumeration, Sampler
<1>4. Leads(x, usb_enumeration.teardown, Between({}, {"device51"}),
             Between({}, {"device51"}))
  BY Leads0, ScriptParts DEF usb_enumeration, Sampler
<1>5. SetUpOver(x, Nothing) /\ RoundsOver(x, Between({}, {"device51"}))
      /\ AllOver(x, Between({}, {"device51"}))
  BY EndsBetween
<1>6. Scripts["usb_enumeration"] = usb_enumeration
  BY DEF Scripts, KernelScripts
<1> QED
  BY <1>2, <1>3, <1>4, <1>5, <1>6, LedgerOfNothingOwned DEF x

\* The recognizer is held throughout.
LEMMA NlInferenceTimingLedger == \E L : Agrees("nl_inference_timing", L)
<1> DEFINE x == Context("nl_inference_timing", {}, {}, Only({"recognizer"}),
                       Only({"recognizer"}))
<1>1. Plain(x, {}, {}, {"recognizer"}, {"recognizer"})
  BY PlainContext DEF Exceptions, KnownLeaks, KnownLeaksOfPanic, LoansOf, Only, Nothing
<1> HIDE DEF x
<1> USE <1>1 DEF Plain, Fits, Bearable, Only, Nothing
<1>2. Leads(x, nl_inference_timing.setup, Nothing, Only({"recognizer"}))
  <2>1. Kept(x, Try("return"), Nothing, Nothing)
    BY TryBetween
  <2>2. Kept(x, Get("recognizer", "return"), Nothing, Only({"recognizer"}))
    BY GetBetween
  <2> QED
    BY <2>1, <2>2, Leads3, ScriptParts DEF nl_inference_timing
<1>3. Leads(x, nl_inference_timing.body, Only({"recognizer"}), Only({"recognizer"}))
  <2>1. Kept(x, Try("break"), Only({"recognizer"}), Only({"recognizer"}))
    BY TryBetween
  <2>2. Kept(x, Try("next"), Only({"recognizer"}), Only({"recognizer"}))
    BY TryBetween
  <2>3. Kept(x, Filter, Only({"recognizer"}), Only({"recognizer"}))
    BY StampBetween
  <2> QED
    BY <2>1, <2>2, <2>3, Leads3, ScriptParts DEF nl_inference_timing
<1>4. Leads(x, nl_inference_timing.teardown, Only({"recognizer"}), Nothing)
  <2>1. Kept(x, Put("recognizer"), Only({"recognizer"}), Nothing)
    BY PutBetween
  <2> QED
    BY <2>1, Leads1, ScriptParts DEF nl_inference_timing
<1>5. SetUpOver(x, Only({"recognizer"})) /\ RoundsOver(x, Only({"recognizer"}))
      /\ AllOver(x, Nothing)
  BY EndsBetween
<1>6. Scripts["nl_inference_timing"] = nl_inference_timing
  BY DEF Scripts, KernelScripts
<1> QED
  BY <1>2, <1>3, <1>4, <1>5, <1>6, LedgerOfNothingOwned DEF x

\* The call owns its two pages.
LEMMA DualClockDomainLedger == \E L : Agrees("dual_clock_domain", L)
<1> DEFINE x == Context("dual_clock_domain", {}, {"page_a", "page_b"},
                       Only({"page_a", "page_b"}), Only({"page_a", "page_b"}))
<1>1. Plain(x, {}, {"page_a", "page_b"}, {"page_a", "page_b"}, {"page_a", "page_b"})
  BY PlainContext DEF Exceptions, KnownLeaks, KnownLeaksOfPanic, LoansOf, Only, Nothing
<1> HIDE DEF x
<1> USE <1>1 DEF Plain, Fits, Bearable, Only, Nothing
<1>2. Leads(x, dual_clock_domain.setup, Nothing, Only({"page_a", "page_b"}))
  <2>1. Kept(x, Own("page_a", "return"), Nothing, Only({"page_a"}))
    BY GetBetween
  <2>2. Kept(x, Own("page_b", "return"), Only({"page_a"}), Only({"page_a", "page_b"}))
    BY GetBetween
  <2> QED
    BY <2>1, <2>2, Leads2, ScriptParts DEF dual_clock_domain
<1>3. Leads(x, dual_clock_domain.body, Only({"page_a", "page_b"}),
             Only({"page_a", "page_b"}))
  <2>1. Kept(x, Stamp, Only({"page_a", "page_b"}), Only({"page_a", "page_b"}))
    BY StampBetween
  <2> QED
    BY <2>1, Leads1, ScriptParts DEF dual_clock_domain
<1>4. Leads(x, dual_clock_domain.teardown, Only({"page_a", "page_b"}),
             Only({"page_a", "page_b"}))
  BY Leads0, ScriptParts DEF dual_clock_domain
<1>5. SetUpOver(x, Only({"page_a", "page_b"})) /\ RoundsOver(x, Only({"page_a", "page_b"}))
      /\ AllOver(x, Only({"page_a", "page_b"}))
  BY EndsBetween
<1>6. Scripts["dual_clock_domain"] = dual_clock_domain
  BY DEF Scripts, KernelScripts, ChipScripts
<1>7. OwnedOf(dual_clock_domain.setup) = {"page_a", "page_b"}
  <2>1. /\ 1 \in DOMAIN dual_clock_domain.setup
        /\ dual_clock_domain.setup[1] = Own("page_a", "return")
        /\ 2 \in DOMAIN dual_clock_domain.setup
        /\ dual_clock_domain.setup[2] = Own("page_b", "return")
    BY ScriptParts DEF dual_clock_domain
  <2>2. /\ dual_clock_domain.setup[1].what = "own" /\ dual_clock_domain.setup[1].on = "page_a"
        /\ dual_clock_domain.setup[2].what = "own" /\ dual_clock_domain.setup[2].on = "page_b"
    BY <2>1, StepFields DEF Own
  <2> QED
    BY <1>2, <2>1, <2>2, OwnsAll
<1>8. OwnedOf(dual_clock_domain.body) = {}
  <2>1. dual_clock_domain.body = <<Stamp>>
    BY ScriptParts DEF dual_clock_domain
  <2> QED
    BY <2>1, RoundSequences, InertOwnsNothing
<1> QED
  BY <1>2, <1>3, <1>4, <1>5, <1>6, <1>7, <1>8, LedgerIs DEF x, OwnedBy

\* The call owns its regions.
LEMMA MemoryBusCryptoLedger == \E L : Agrees("memory_bus_crypto", L)
<1> DEFINE x == Context("memory_bus_crypto", {}, {"regions"}, Only({"regions"}),
                       Only({"regions"}))
<1>1. Plain(x, {}, {"regions"}, {"regions"}, {"regions"})
  BY PlainContext DEF Exceptions, KnownLeaks, KnownLeaksOfPanic, LoansOf, Only, Nothing
<1> HIDE DEF x
<1> USE <1>1 DEF Plain, Fits, Bearable, Only, Nothing
<1>2. Leads(x, memory_bus_crypto.setup, Nothing, Only({"regions"}))
  <2>1. Kept(x, Own("regions", "return"), Nothing, Only({"regions"}))
    BY GetBetween
  <2>2. Kept(x, Try("return"), Only({"regions"}), Only({"regions"}))
    BY TryBetween
  <2> QED
    BY <2>1, <2>2, Leads2, ScriptParts DEF memory_bus_crypto
<1>3. Leads(x, memory_bus_crypto.body, Only({"regions"}), Only({"regions"}))
  <2>1. Kept(x, Stamp, Only({"regions"}), Only({"regions"}))
    BY StampBetween
  <2> QED
    BY <2>1, Leads1, ScriptParts DEF memory_bus_crypto
<1>4. Leads(x, memory_bus_crypto.teardown, Only({"regions"}), Only({"regions"}))
  BY Leads0, ScriptParts DEF memory_bus_crypto
<1>5. SetUpOver(x, Only({"regions"})) /\ RoundsOver(x, Only({"regions"}))
      /\ AllOver(x, Only({"regions"}))
  BY EndsBetween
<1>6. Scripts["memory_bus_crypto"] = memory_bus_crypto
  BY DEF Scripts, KernelScripts, ChipScripts
<1>7. OwnedOf(memory_bus_crypto.setup) = {"regions"}
  <2>1. 1 \in DOMAIN memory_bus_crypto.setup
        /\ memory_bus_crypto.setup[1] = Own("regions", "return")
    BY ScriptParts DEF memory_bus_crypto
  <2> QED
    BY <1>2, <2>1, OwnsOne
<1>8. OwnedOf(memory_bus_crypto.body) = {}
  <2>1. memory_bus_crypto.body = <<Stamp>>
    BY ScriptParts DEF memory_bus_crypto
  <2> QED
    BY <2>1, RoundSequences, InertOwnsNothing
<1> QED
  BY <1>2, <1>3, <1>4, <1>5, <1>6, <1>7, <1>8, LedgerIs DEF x, OwnedBy

\* The probe's child is known to be left behind.
LEMMA ProbeJitInstructionSafeLedger == \E L : Agrees("probe_jit_instruction_safe", L)
<1> DEFINE x == Context("probe_jit_instruction_safe", {}, {}, Between({}, {"child"}),
                       Between({}, {"child"}))
<1>1. /\ x.local = {} /\ x.whole = {} /\ x.leaks = {"child"} /\ x.panics = {}
      /\ x.strays = {} /\ x.lends = {} /\ x.queues = FALSE
      /\ x.again = Between({}, {"child"}) /\ x.last = Between({}, {"child"})
  BY DEF Context, At, KnownLeaks, KnownLeaksOfPanic, LoansOf, Only, Nothing
<1> HIDE DEF x
<1> USE <1>1 DEF Plain, Fits, Bearable, Only, Nothing
<1>2. Leads(x, probe_jit_instruction_safe.setup, Nothing, Nothing)
  BY Leads0, ScriptParts DEF probe_jit_instruction_safe, Probe, Sampler
<1>3. Leads(x, probe_jit_instruction_safe.body, Between({}, {"child"}),
             Between({}, {"child"}))
  <2>1. Kept(x, Get("child", "next"), Between({}, {"child"}), Only({"child"}))
    BY GetBetween
  <2>2. Kept(x, Try("next"), Only({"child"}), Only({"child"}))
    BY TryBetween
  <2>3. Kept(x, Put("child"), Only({"child"}), Nothing)
    BY PutBetween
  <2>4. Kept(x, Try("next"), Nothing, Nothing)
    BY TryBetween
  <2>5. Kept(x, Exit("found"), Nothing, Between({}, {"child"}))
    BY ExitBetween
  <2> QED
    BY <2>1, <2>2, <2>3, <2>4, <2>5, Leads5, ScriptParts
       DEF probe_jit_instruction_safe, Probe, Sampler
<1>4. Leads(x, probe_jit_instruction_safe.teardown, Between({}, {"child"}),
             Between({}, {"child"}))
  BY Leads0, ScriptParts DEF probe_jit_instruction_safe, Probe, Sampler
<1>5. SetUpOver(x, Nothing) /\ RoundsOver(x, Between({}, {"child"}))
      /\ AllOver(x, Between({}, {"child"}))
  BY EndsBetween
<1>6. Scripts["probe_jit_instruction_safe"] = probe_jit_instruction_safe
  BY DEF Scripts, KernelScripts, ChipScripts
<1> QED
  BY <1>2, <1>3, <1>4, <1>5, <1>6, LedgerOfNothingOwned DEF x

\* The workers run until they are joined; a panic leaves the first behind.
LEMMA CasContentionLedger == \E L : Agrees("cas_contention", L)
<1> DEFINE x == Context("cas_contention", {}, {}, Only({"worker1", "worker2"}),
                       Only({"worker1", "worker2"}))
<1>1. /\ x.local = {} /\ x.whole = {} /\ x.leaks = {} /\ x.panics = {"worker1"}
      /\ x.strays = {} /\ x.lends = {} /\ x.queues = FALSE
      /\ x.again = Between({"worker1", "worker2"}, {"worker1", "worker2"})
      /\ x.last = Between({"worker1", "worker2"}, {"worker1", "worker2"})
  BY DEF Context, At, KnownLeaks, KnownLeaksOfPanic, LoansOf, Only, Nothing
<1> HIDE DEF x
<1> USE <1>1 DEF Plain, Fits, Bearable, Only, Nothing
<1>2. Leads(x, cas_contention.setup, Nothing, Only({"worker1", "worker2"}))
  <2>1. Kept(x, Spawn("worker1", {}), Nothing, Only({"worker1"}))
    BY SpawnBetween
  <2>2. Kept(x, Spawn("worker2", {}), Only({"worker1"}), Only({"worker1", "worker2"}))
    BY SpawnBetween
  <2> QED
    BY <2>1, <2>2, Leads2, ScriptParts DEF cas_contention
<1>3. Leads(x, cas_contention.body, Only({"worker1", "worker2"}),
             Only({"worker1", "worker2"}))
  <2>1. Kept(x, Stamp, Only({"worker1", "worker2"}), Only({"worker1", "worker2"}))
    BY StampBetween
  <2> QED
    BY <2>1, Leads1, ScriptParts DEF cas_contention
<1>4. Leads(x, cas_contention.teardown, Only({"worker1", "worker2"}), Nothing)
  <2>1. Kept(x, Join("worker1"), Only({"worker1", "worker2"}), Only({"worker2"}))
    BY JoinBetween
  <2>2. Kept(x, Join("worker2"), Only({"worker2"}), Nothing)
    BY JoinBetween
  <2> QED
    BY <2>1, <2>2, Leads2, ScriptParts DEF cas_contention
<1>5. SetUpOver(x, Only({"worker1", "worker2"}))
      /\ RoundsOver(x, Only({"worker1", "worker2"})) /\ AllOver(x, Nothing)
  BY EndsBetween
<1>6. Scripts["cas_contention"] = cas_contention
  BY DEF Scripts, KernelScripts, ChipScripts
<1> QED
  BY <1>2, <1>3, <1>4, <1>5, <1>6, LedgerOfNothingOwned DEF x

\* A round starts and joins two counters; a panic leaves the first behind.
LEMMA DvfsRaceLedger == \E L : Agrees("dvfs_race", L)
<1> DEFINE x == Context("dvfs_race", {}, {}, Nothing, Nothing)
<1>1. /\ x.local = {} /\ x.whole = {} /\ x.leaks = {} /\ x.panics = {"counter1"}
      /\ x.strays = {} /\ x.lends = {} /\ x.queues = FALSE
      /\ x.again = Between({}, {}) /\ x.last = Between({}, {})
  BY DEF Context, At, KnownLeaks, KnownLeaksOfPanic, LoansOf, Only, Nothing
<1> HIDE DEF x
<1> USE <1>1 DEF Plain, Fits, Bearable, Only, Nothing
<1>2. Leads(x, dvfs_race.setup, Nothing, Nothing)
  BY Leads0, ScriptParts DEF dvfs_race, Sampler
<1>3. Leads(x, dvfs_race.body, Nothing, Nothing)
  <2>1. Kept(x, Spawn("counter1", {}), Nothing, Only({"counter1"}))
    BY SpawnBetween
  <2>2. Kept(x, Spawn("counter2", {}), Only({"counter1"}), Only({"counter1", "counter2"}))
    BY SpawnBetween
  <2>3. Kept(x, Join("counter1"), Only({"counter1", "counter2"}), Only({"counter2"}))
    BY JoinBetween
  <2>4. Kept(x, Join("counter2"), Only({"counter2"}), Nothing)
    BY JoinBetween
  <2>5. Kept(x, Stamp, Nothing, Nothing)
    BY StampBetween
  <2> QED
    BY <2>1, <2>2, <2>3, <2>4, <2>5, Leads5, ScriptParts DEF dvfs_race, Sampler
<1>4. Leads(x, dvfs_race.teardown, Nothing, Nothing)
  BY Leads0, ScriptParts DEF dvfs_race, Sampler
<1>5. SetUpOver(x, Nothing) /\ RoundsOver(x, Nothing) /\ AllOver(x, Nothing)
  BY EndsBetween
<1>6. Scripts["dvfs_race"] = dvfs_race
  BY DEF Scripts, KernelScripts, ChipScripts
<1> QED
  BY <1>2, <1>3, <1>4, <1>5, <1>6, LedgerOfNothingOwned DEF x

\* A round owns its socket.
LEMMA DnsTimingLedger == \E L : Agrees("dns_timing", L)
<1> DEFINE x == Context("dns_timing", {"socket"}, {}, Nothing, Nothing)
<1>1. Plain(x, {"socket"}, {}, {}, {})
  BY PlainContext DEF Exceptions, KnownLeaks, KnownLeaksOfPanic, LoansOf, Only, Nothing
<1> HIDE DEF x
<1> USE <1>1 DEF Plain, Fits, Bearable, Only, Nothing
<1>2. Leads(x, dns_timing.setup, Nothing, Nothing)
  BY Leads0, ScriptParts DEF dns_timing, Sampler
<1>3. Leads(x, dns_timing.body, Nothing, Only({"socket"}))
  <2>1. Kept(x, Try("break"), Nothing, Nothing)
    BY TryBetween
  <2>2. Kept(x, Own("socket", "next"), Nothing, Only({"socket"}))
    BY GetBetween
  <2>3. Kept(x, Try("next"), Only({"socket"}), Only({"socket"}))
    BY TryBetween
  <2>4. Kept(x, Stamp, Only({"socket"}), Only({"socket"}))
    BY StampBetween
  <2> QED
    BY <2>1, <2>2, <2>3, <2>4, Leads5, ScriptParts DEF dns_timing, Sampler
<1>4. Leads(x, dns_timing.teardown, Nothing, Nothing)
  BY Leads0, ScriptParts DEF dns_timing, Sampler
<1>5. SetUpOver(x, Nothing) /\ RoundsOver(x, Only({"socket"})) /\ AllOver(x, Nothing)
  BY EndsBetween
<1>6. Scripts["dns_timing"] = dns_timing
  BY DEF Scripts, KernelScripts, ChipScripts, HostScripts
<1>7. OwnedOf(dns_timing.body) = {"socket"}
  <2>1. 2 \in DOMAIN dns_timing.body /\ dns_timing.body[2] = Own("socket", "next")
    BY ScriptParts DEF dns_timing, Sampler
  <2> QED
    BY <1>3, <2>1, OwnsOne
<1>8. OwnedOf(dns_timing.setup) = {}
  <2>1. dns_timing.setup = <<>>
    BY ScriptParts DEF dns_timing, Sampler
  <2> QED
    BY <2>1, RoundSequences, InertOwnsNothing
<1> QED
  BY <1>2, <1>3, <1>4, <1>5, <1>6, <1>7, <1>8, LedgerIs DEF x, OwnedBy

\* A round owns its stream.
LEMMA TcpConnectTimingLedger == \E L : Agrees("tcp_connect_timing", L)
<1> DEFINE x == Context("tcp_connect_timing", {"stream"}, {}, Nothing, Nothing)
<1>1. Plain(x, {"stream"}, {}, {}, {})
  BY PlainContext DEF Exceptions, KnownLeaks, KnownLeaksOfPanic, LoansOf, Only, Nothing
<1> HIDE DEF x
<1> USE <1>1 DEF Plain, Fits, Bearable, Only, Nothing
<1>2. Leads(x, tcp_connect_timing.setup, Nothing, Nothing)
  BY Leads0, ScriptParts DEF tcp_connect_timing, Sampler
<1>3. Leads(x, tcp_connect_timing.body, Nothing, Only({"stream"}))
  <2>1. Kept(x, Try("break"), Nothing, Nothing)
    BY TryBetween
  <2>2. Kept(x, Own("stream", "next"), Nothing, Only({"stream"}))
    BY GetBetween
  <2>3. Kept(x, Stamp, Only({"stream"}), Only({"stream"}))
    BY StampBetween
  <2> QED
    BY <2>1, <2>2, <2>3, Leads3, ScriptParts DEF tcp_connect_timing, Sampler
<1>4. Leads(x, tcp_connect_timing.teardown, Nothing, Nothing)
  BY Leads0, ScriptParts DEF tcp_connect_timing, Sampler
<1>5. SetUpOver(x, Nothing) /\ RoundsOver(x, Only({"stream"})) /\ AllOver(x, Nothing)
  BY EndsBetween
<1>6. Scripts["tcp_connect_timing"] = tcp_connect_timing
  BY DEF Scripts, KernelScripts, ChipScripts, HostScripts
<1>7. OwnedOf(tcp_connect_timing.body) = {"stream"}
  <2>1. 2 \in DOMAIN tcp_connect_timing.body /\ tcp_connect_timing.body[2] = Own("stream", "next")
    BY ScriptParts DEF tcp_connect_timing, Sampler
  <2> QED
    BY <1>3, <2>1, OwnsOne
<1>8. OwnedOf(tcp_connect_timing.setup) = {}
  <2>1. tcp_connect_timing.setup = <<>>
    BY ScriptParts DEF tcp_connect_timing, Sampler
  <2> QED
    BY <2>1, RoundSequences, InertOwnsNothing
<1> QED
  BY <1>2, <1>3, <1>4, <1>5, <1>6, <1>7, <1>8, LedgerIs DEF x, OwnedBy

\* A round makes a semaphore that a queued block uses, and releases it.
LEMMA DispatchQueueTimingLedger == \E L : Agrees("dispatch_queue_timing", L)
<1> DEFINE x == Context("dispatch_queue_timing", {}, {}, Nothing, Nothing)
<1>1. /\ x.local = {} /\ x.whole = {} /\ x.leaks = {} /\ x.panics = {}
      /\ x.strays = {} /\ x.lends = {} /\ x.queues = TRUE
      /\ x.again = Between({}, {}) /\ x.last = Between({}, {})
  BY DEF Context, At, KnownLeaks, KnownLeaksOfPanic, LoansOf, Only, Nothing
<1> HIDE DEF x
<1> USE <1>1 DEF Plain, Fits, Bearable, Only, Nothing
<1>2. Leads(x, dispatch_queue_timing.setup, Nothing, Nothing)
  BY Leads0, ScriptParts DEF dispatch_queue_timing, Sampler
<1>3. Leads(x, dispatch_queue_timing.body, Nothing, Nothing)
  <2>1. Kept(x, Get("semaphore", "next"), Nothing, Only({"semaphore"}))
    BY GetBetween
  <2>2. Kept(x, Post("block", {"semaphore"}), Only({"semaphore"}), Only({"semaphore"}))
    BY PostKept
  <2>3. Kept(x, Await("block"), Only({"semaphore"}), Only({"semaphore"}))
    BY JoinBetween
  <2>4. Kept(x, Put("semaphore"), Only({"semaphore"}), Nothing)
    BY PutBetween
  <2>5. Kept(x, Filter, Nothing, Nothing)
    BY StampBetween
  <2> QED
    BY <2>1, <2>2, <2>3, <2>4, <2>5, Leads5, ScriptParts DEF dispatch_queue_timing, Sampler
<1>4. Leads(x, dispatch_queue_timing.teardown, Nothing, Nothing)
  BY Leads0, ScriptParts DEF dispatch_queue_timing, Sampler
<1>5. SetUpOver(x, Nothing) /\ RoundsOver(x, Nothing) /\ AllOver(x, Nothing)
  BY EndsBetween
<1>6. Scripts["dispatch_queue_timing"] = dispatch_queue_timing
  BY DEF Scripts, KernelScripts, ChipScripts, HostScripts
<1> QED
  BY <1>2, <1>3, <1>4, <1>5, <1>6, LedgerOfNothingOwned DEF x

\* A round starts a thread and joins it.
LEMMA ThreadLifecycleLedger == \E L : Agrees("thread_lifecycle", L)
<1> DEFINE x == Context("thread_lifecycle", {}, {}, Nothing, Nothing)
<1>1. Plain(x, {}, {}, {}, {})
  BY PlainContext DEF Exceptions, KnownLeaks, KnownLeaksOfPanic, LoansOf, Only, Nothing
<1> HIDE DEF x
<1> USE <1>1 DEF Plain, Fits, Bearable, Only, Nothing
<1>2. Leads(x, thread_lifecycle.setup, Nothing, Nothing)
  BY Leads0, ScriptParts DEF thread_lifecycle, Sampler
<1>3. Leads(x, thread_lifecycle.body, Nothing, Nothing)
  <2>1. Kept(x, Spawn("worker", {}), Nothing, Only({"worker"}))
    BY SpawnBetween
  <2>2. Kept(x, Join("worker"), Only({"worker"}), Nothing)
    BY JoinBetween
  <2>3. Kept(x, Stamp, Nothing, Nothing)
    BY StampBetween
  <2> QED
    BY <2>1, <2>2, <2>3, Leads3, ScriptParts DEF thread_lifecycle, Sampler
<1>4. Leads(x, thread_lifecycle.teardown, Nothing, Nothing)
  BY Leads0, ScriptParts DEF thread_lifecycle, Sampler
<1>5. SetUpOver(x, Nothing) /\ RoundsOver(x, Nothing) /\ AllOver(x, Nothing)
  BY EndsBetween
<1>6. Scripts["thread_lifecycle"] = thread_lifecycle
  BY DEF Scripts, KernelScripts, ChipScripts, HostScripts
<1> QED
  BY <1>2, <1>3, <1>4, <1>5, <1>6, LedgerOfNothingOwned DEF x

\* The connection is held throughout.
LEMMA SmcHighvarTimingLedger == \E L : Agrees("smc_highvar_timing", L)
<1> DEFINE x == Context("smc_highvar_timing", {}, {}, Only({"connection"}),
                       Only({"connection"}))
<1>1. Plain(x, {}, {}, {"connection"}, {"connection"})
  BY PlainContext DEF Exceptions, KnownLeaks, KnownLeaksOfPanic, LoansOf, Only, Nothing
<1> HIDE DEF x
<1> USE <1>1 DEF Plain, Fits, Bearable, Only, Nothing
<1>2. Leads(x, smc_highvar_timing.setup, Nothing, Only({"connection"}))
  <2>1. Kept(x, Get("service", "return"), Nothing, Only({"service"}))
    BY GetBetween
  <2>2. Kept(x, Freeing({"service"}, Get("connection", "return")), Only({"service"}),
            Only({"service", "connection"}))
    BY GetFreeingBetween
  <2>3. Kept(x, Put("service"), Only({"service", "connection"}), Only({"connection"}))
    BY PutBetween
  <2> QED
    BY <2>1, <2>2, <2>3, Leads3, ScriptParts DEF smc_highvar_timing
<1>3. Leads(x, smc_highvar_timing.body, Only({"connection"}), Only({"connection"}))
  <2>1. Kept(x, Filter, Only({"connection"}), Only({"connection"}))
    BY StampBetween
  <2> QED
    BY <2>1, Leads2, ScriptParts DEF smc_highvar_timing
<1>4. Leads(x, smc_highvar_timing.teardown, Only({"connection"}), Nothing)
  <2>1. Kept(x, Put("connection"), Only({"connection"}), Nothing)
    BY PutBetween
  <2> QED
    BY <2>1, Leads1, ScriptParts DEF smc_highvar_timing
<1>5. SetUpOver(x, Only({"connection"})) /\ RoundsOver(x, Only({"connection"}))
      /\ AllOver(x, Nothing)
  BY EndsBetween
<1>6. Scripts["smc_highvar_timing"] = smc_highvar_timing
  BY DEF Scripts, KernelScripts, ChipScripts, HostScripts
<1> QED
  BY <1>2, <1>3, <1>4, <1>5, <1>6, LedgerOfNothingOwned DEF x

\* A child whose wait fails is known to be left behind.
LEMMA SpotlightTimingLedger == \E L : Agrees("spotlight_timing", L)
<1> DEFINE x == Context("spotlight_timing", {}, {}, Between({}, {"child"}),
                       Between({}, {"child"}))
<1>1. /\ x.local = {} /\ x.whole = {} /\ x.leaks = {"child"} /\ x.panics = {}
      /\ x.strays = {} /\ x.lends = {} /\ x.queues = FALSE
      /\ x.again = Between({}, {"child"}) /\ x.last = Between({}, {"child"})
  BY DEF Context, At, KnownLeaks, KnownLeaksOfPanic, LoansOf, Only, Nothing
<1> HIDE DEF x
<1> USE <1>1 DEF Plain, Fits, Bearable, Only, Nothing
<1>2. Leads(x, spotlight_timing.setup, Nothing, Nothing)
  BY Leads0, ScriptParts DEF spotlight_timing, Sampler
<1>3. Leads(x, spotlight_timing.body, Between({}, {"child"}), Between({}, {"child"}))
  <2>1. Kept(x, Try("break"), Between({}, {"child"}), Between({}, {"child"}))
    BY TryBetween
  <2>2. Kept(x, Get("child", "on"), Between({}, {"child"}), Between({}, {"child"}))
    BY GetBetween
  <2>3. Kept(x, If({"child"}, Reap("child")), Between({}, {"child"}),
            Between({}, {"child"}))
    BY IfPutBetween
  <2>4. Kept(x, Stamp, Between({}, {"child"}), Between({}, {"child"}))
    BY StampBetween
  <2> QED
    BY <2>1, <2>2, <2>3, <2>4, Leads4, ScriptParts DEF spotlight_timing, Sampler
<1>4. Leads(x, spotlight_timing.teardown, Between({}, {"child"}), Between({}, {"child"}))
  BY Leads0, ScriptParts DEF spotlight_timing, Sampler
<1>5. SetUpOver(x, Nothing) /\ RoundsOver(x, Between({}, {"child"}))
      /\ AllOver(x, Between({}, {"child"}))
  BY EndsBetween
<1>6. Scripts["spotlight_timing"] = spotlight_timing
  BY DEF Scripts, KernelScripts, ChipScripts, HostScripts
<1> QED
  BY <1>2, <1>3, <1>4, <1>5, <1>6, LedgerOfNothingOwned DEF x

\* The probes give the iterator and the service back on every way out.
LEMMA AnyServiceLedgers ==
  \A s \in {"has_ane_services", "has_nvme_services", "has_pcie_services"} : \E L : Agrees(s, L)
<1> SUFFICES ASSUME NEW s \in {"has_ane_services", "has_nvme_services", "has_pcie_services"}
             PROVE  \E L : Agrees(s, L)
  OBVIOUS
<1> DEFINE x == Context(s, {}, {}, Nothing, Nothing)
<1>0. Plain(x, {}, {}, {}, {})
  BY PlainContext DEF Exceptions, KnownLeaks, KnownLeaksOfPanic, LoansOf, Only, Nothing
<1> HIDE DEF x
<1> USE <1>0 DEF Plain, Fits, Bearable, Only, Nothing
<1>k. PICK k : Scripts[s] = AnyService(k)
  <2>1. /\ Scripts["has_ane_services"] = has_ane_services
        /\ Scripts["has_nvme_services"] = has_nvme_services
        /\ Scripts["has_pcie_services"] = has_pcie_services
    BY DEF Scripts, KernelScripts, ChipScripts, HostScripts
  <2> QED
    BY <2>1 DEF has_ane_services, has_nvme_services, has_pcie_services
<1>1. Leads(x, AnyService(k).body, Nothing, Nothing)
  <2> DEFINE e1 == Between({"iterator"}, {"iterator", "service"})
  <2>1. Kept(x, Get("iterator", "next"), Nothing, Only({"iterator"}))
    BY GetBetween
  <2>2. Kept(x, Get("service", "on"), Only({"iterator"}), e1)
    BY GetBetween
  <2>3. Kept(x, Put("iterator"), e1, Between({}, {"service"}))
    BY PutBetween
  <2>4. Kept(x, Require("service", "next"), Between({}, {"service"}), Only({"service"}))
    BY RequireBetween
  <2>5. Kept(x, Put("service"), Only({"service"}), Nothing)
    BY PutBetween
  <2>6. Kept(x, Exit("found"), Nothing, Nothing)
    BY ExitBetween
  <2> QED
    BY <2>1, <2>2, <2>3, <2>4, <2>5, <2>6, Leads6, ScriptParts
       DEF AnyService, Probe, Sampler
<1>2. AnyService(k).setup = << >> /\ AnyService(k).teardown = << >>
  BY ScriptParts DEF AnyService, Probe, Sampler
<1>3. Leads(x, << >>, Nothing, Nothing)
  BY Leads0
<1>4. SetUpOver(x, Nothing) /\ RoundsOver(x, Nothing) /\ AllOver(x, Nothing)
  BY EndsBetween
<1> QED
  BY <1>k, <1>1, <1>2, <1>3, <1>4, LedgerOfNothingOwned DEF x

\* A lookup gives back the iterator and the service, whatever was done with them.
LEMMA LookUpLeads ==
  ASSUME NEW x, x.lends = {}, NEW props,
         Leads(x, props, Between({}, {"iterator", "service"}),
               Between({}, {"iterator", "service"}))
  PROVE  Leads(x, LookUp(props), Nothing, Nothing)
<1> USE DEF Fits, Bearable, Only, Nothing
<1>1. Leads(x, <<Get("iterator", "on"), If({"iterator"}, Get("service", "on"))>>, Nothing,
             Between({}, {"iterator", "service"}))
  <2>1. Kept(x, Get("iterator", "on"), Nothing, Between({}, {"iterator"}))
    BY GetBetween
  <2>2. Kept(x, If({"iterator"}, Get("service", "on")), Between({}, {"iterator"}),
            Between({}, {"iterator", "service"}))
    BY IfGetBetween
  <2> QED
    BY <2>1, <2>2, Leads2
<1>2. Leads(x,
             <<If({"service"}, Put("service")), If({"iterator"}, Put("iterator")), Stamp>>,
             Between({}, {"iterator", "service"}), Nothing)
  <2>1. Kept(x, If({"service"}, Put("service")), Between({}, {"iterator", "service"}),
            Between({}, {"iterator"}))
    BY IfPutBetween
  <2>2. Kept(x, If({"iterator"}, Put("iterator")), Between({}, {"iterator"}), Nothing)
    BY IfPutBetween
  <2>3. Kept(x, Stamp, Nothing, Nothing)
    BY StampBetween
  <2> QED
    BY <2>1, <2>2, <2>3, Leads3
<1> QED
  BY <1>1, <1>2, LeadsThen DEF LookUp

\* A service's properties are released before the next service is looked at.
LEMMA PropertiesLeads ==
  ASSUME NEW x, x.lends = {}, NEW inner,
         Leads(x, inner, Between({}, {"iterator", "service", "props"}),
               Between({}, {"iterator", "service", "props"}))
  PROVE  Leads(x, Properties(inner), Between({}, {"iterator", "service"}),
               Between({}, {"iterator", "service"}))
<1> USE DEF Fits, Bearable
<1>1. Leads(x, <<If({"service"}, Get("props", "on"))>>,
             Between({}, {"iterator", "service"}),
             Between({}, {"iterator", "service", "props"}))
  <2>1. Kept(x, If({"service"}, Get("props", "on")), Between({}, {"iterator", "service"}),
            Between({}, {"iterator", "service", "props"}))
    BY IfGetBetween
  <2> QED
    BY <2>1, Leads1
<1>2. Leads(x, <<If({"props"}, Put("props"))>>,
             Between({}, {"iterator", "service", "props"}),
             Between({}, {"iterator", "service"}))
  <2>1. Kept(x, If({"props"}, Put("props")), Between({}, {"iterator", "service", "props"}),
            Between({}, {"iterator", "service"}))
    BY IfPutBetween
  <2> QED
    BY <2>1, Leads1
<1> QED
  BY <1>1, <1>2, LeadsThen DEF Properties

\* The sources that walk the services of the IORegistry.
LEMMA LookUpLedgers ==
  \A s \in {"ane_timing", "nvme_iokit_sensors", "pcie_pll"} : \E L : Agrees(s, L)
<1> SUFFICES ASSUME NEW s \in {"ane_timing", "nvme_iokit_sensors", "pcie_pll"}
             PROVE  \E L : Agrees(s, L)
  OBVIOUS
<1> DEFINE x == Context(s, {}, {}, Nothing, Nothing)
<1>1. Plain(x, {}, {}, {}, {})
  BY PlainContext DEF Exceptions, KnownLeaks, KnownLeaksOfPanic, LoansOf, Only, Nothing
<1> HIDE DEF x
<1> USE <1>1 DEF Plain, Fits, Bearable
<1>2. Leads(x, probe_ane_service, Nothing, Nothing)
  BY Leads0, PropertiesLeads, LookUpLeads DEF probe_ane_service
<1>3. Leads(x, probe_nvme_service, Nothing, Nothing)
  <2>1. Leads(x,
               <<If({"service"}, Get("key", "on")), If({"key"}, Get("value", "on")),
                 If({"value"}, Put("value")), If({"key"}, Put("key"))>>,
               Between({}, {"iterator", "service"}), Between({}, {"iterator", "service"}))
    <3> DEFINE e1 == Between({}, {"iterator", "service", "key", "value"})
    <3>1. Kept(x, If({"service"}, Get("key", "on")), Between({}, {"iterator", "service"}),
              Between({}, {"iterator", "service", "key"}))
      BY IfGetBetween
    <3>2. Kept(x, If({"key"}, Get("value", "on")),
              Between({}, {"iterator", "service", "key"}), e1)
      BY IfGetBetween
    <3>3. Kept(x, If({"value"}, Put("value")), e1,
              Between({}, {"iterator", "service", "key"}))
      BY IfPutBetween
    <3>4. Kept(x, If({"key"}, Put("key")), Between({}, {"iterator", "service", "key"}),
              Between({}, {"iterator", "service"}))
      BY IfPutBetween
    <3> QED
      BY <3>1, <3>2, <3>3, <3>4, Leads4
  <2>2. Leads(x, Properties(<< >>), Between({}, {"iterator", "service"}),
              Between({}, {"iterator", "service"}))
    BY Leads0, PropertiesLeads
  <2> QED
    BY <2>1, <2>2, LeadsThen, LookUpLeads DEF probe_nvme_service
<1>4. Leads(x, probe_pcie_service, Nothing, Nothing)
  <2>1. Leads(x, <<If({"props"}, Get("key", "on")), If({"key"}, Put("key"))>>,
               Between({}, {"iterator", "service", "props"}),
               Between({}, {"iterator", "service", "props"}))
    <3> DEFINE e1 == Between({}, {"iterator", "service", "props", "key"})
    <3>1. Kept(x, If({"props"}, Get("key", "on")),
              Between({}, {"iterator", "service", "props"}), e1)
      BY IfGetBetween
    <3>2. Kept(x, If({"key"}, Put("key")), e1,
              Between({}, {"iterator", "service", "props"}))
      BY IfPutBetween
    <3> QED
      BY <3>1, <3>2, Leads2
  <2> QED
    BY <2>1, PropertiesLeads, LookUpLeads DEF probe_pcie_service
<1>5. /\ Scripts[s].setup = << >> /\ Scripts[s].teardown = << >>
      /\ Scripts[s].body \in {probe_ane_service, probe_nvme_service, probe_pcie_service}
  <2>1. /\ Scripts["ane_timing"] = ane_timing /\ Scripts["pcie_pll"] = pcie_pll
        /\ Scripts["nvme_iokit_sensors"] = nvme_iokit_sensors
    BY DEF Scripts, KernelScripts, ChipScripts, HostScripts
  <2>2. /\ ane_timing.setup = << >> /\ ane_timing.teardown = << >>
        /\ ane_timing.body = probe_ane_service
    BY ScriptParts DEF ane_timing, Sampler
  <2>3. /\ nvme_iokit_sensors.setup = << >> /\ nvme_iokit_sensors.teardown = << >>
        /\ nvme_iokit_sensors.body = probe_nvme_service
    BY ScriptParts DEF nvme_iokit_sensors, Sampler
  <2>4. /\ pcie_pll.setup = << >> /\ pcie_pll.teardown = << >>
        /\ pcie_pll.body = probe_pcie_service
    BY ScriptParts DEF pcie_pll, Sampler
  <2> QED
    BY <2>1, <2>2, <2>3, <2>4
<1>6. Leads(x, << >>, Nothing, Nothing)
  BY Leads0
<1>7. SetUpOver(x, Nothing) /\ RoundsOver(x, Nothing) /\ AllOver(x, Nothing)
  BY EndsBetween DEF Only, Nothing
<1> QED
  BY <1>2, <1>3, <1>4, <1>5, <1>6, <1>7, LedgerOfNothingOwned DEF x

\* The second unlock may find nothing locked: it is the only one that may.
LEMMA CrossingLedgers ==
  \A s \in {"iosurface_crossing", "iosurface_available"} : \E L : Agrees(s, L)
<1> SUFFICES ASSUME NEW s \in {"iosurface_crossing", "iosurface_available"}
             PROVE  \E L : Agrees(s, L)
  OBVIOUS
<1> DEFINE x == Context(s, {}, {}, Nothing, Nothing)
<1>1. /\ x.local = {} /\ x.whole = {} /\ x.leaks = {} /\ x.panics = {}
      /\ x.strays = {"lock"} /\ x.lends = {} /\ x.queues = FALSE
      /\ x.again = Between({}, {}) /\ x.last = Between({}, {})
  BY DEF Context, At, KnownLeaks, KnownLeaksOfPanic, LoansOf, Only, Nothing
<1>2. /\ Scripts[s].setup = << >> /\ Scripts[s].teardown = << >>
      /\ Scripts[s].body \in {crossing_cycle, crossing_cycle \o <<Stamp>>}
  <2>1. /\ Scripts["iosurface_crossing"] = iosurface_crossing
        /\ Scripts["iosurface_available"] = iosurface_available
    BY DEF Scripts, KernelScripts
  <2>2. /\ iosurface_crossing.setup = << >> /\ iosurface_crossing.teardown = << >>
        /\ iosurface_crossing.body = crossing_cycle \o <<Stamp>>
    <3>1. \A raw, b, y : /\ Sampler(raw, b, y).setup = << >>
                          /\ Sampler(raw, b, y).teardown = << >>
                          /\ Sampler(raw, b, y).body = b
      BY ScriptParts DEF Sampler
    <3> QED
      BY <3>1 DEF iosurface_crossing
  <2>3. /\ iosurface_available.setup = << >> /\ iosurface_available.teardown = << >>
        /\ iosurface_available.body = crossing_cycle
    BY ScriptParts DEF iosurface_available, Probe, Sampler
  <2> QED
    BY <2>1, <2>2, <2>3
<1> HIDE DEF x
<1> USE <1>1 DEF Fits, Bearable, Only, Nothing
<1>3. Leads(x, crossing_cycle, Nothing, Nothing)
  <2>1. Kept(x, Get("dict", "next"), Nothing, Only({"dict"}))
    BY GetBetween
  <2>2. Kept(x, Get("number", "on"), Only({"dict"}), Between({"dict"}, {"dict", "number"}))
    BY GetBetween
  <2>3. Kept(x, If({"number"}, Put("number")), Between({"dict"}, {"dict", "number"}),
            Only({"dict"}))
    BY IfPutBetween
  <2>4. Kept(x, Freeing({"dict"}, Get("surface", "next")), Only({"dict"}),
            Only({"dict", "surface"}))
    BY GetFreeingBetween
  <2>5. Kept(x, Put("dict"), Only({"dict", "surface"}), Only({"surface"}))
    BY PutBetween
  <2>6. Kept(x, Freeing({"surface"}, Get("lock", "next")), Only({"surface"}),
            Only({"surface", "lock"}))
    BY GetFreeingBetween
  <2>7. Kept(x, Put("lock"), Only({"surface", "lock"}), Only({"surface"}))
    BY PutBetween
  <2>8. Kept(x, Get("lock", "on"), Only({"surface"}),
            Between({"surface"}, {"surface", "lock"}))
    BY GetBetween
  <2>9. Kept(x, Put("lock"), Between({"surface"}, {"surface", "lock"}), Only({"surface"}))
    BY PutBetween
  <2>10. Kept(x, Put("surface"), Only({"surface"}), Nothing)
    BY PutBetween
  <2> QED
    BY <2>1, <2>2, <2>3, <2>4, <2>5, <2>6, <2>7, <2>8, <2>9, <2>10, Leads10, ScriptParts
       DEF crossing_cycle
<1>4. Leads(x, crossing_cycle \o <<Stamp>>, Nothing, Nothing)
  <2>1. Kept(x, Stamp, Nothing, Nothing)
    BY StampBetween
  <2>2. Leads(x, <<Stamp>>, Nothing, Nothing)
    BY <2>1, Leads1
  <2> QED
    BY <1>3, <2>2, LeadsThen
<1>5. Leads(x, << >>, Nothing, Nothing)
  BY Leads0
<1>6. Leads(x, Scripts[s].body, Nothing, Nothing)
  BY <1>2, <1>3, <1>4
<1>7. SetUpOver(x, Nothing) /\ RoundsOver(x, Nothing) /\ AllOver(x, Nothing)
  BY EndsBetween
<1> QED
  BY <1>2, <1>5, <1>6, <1>7, LedgerOfNothingOwned DEF x

\* The one child that a round may have left behind may still be there.
LEMMA RunCommandLeads ==
  ASSUME NEW x, x.lends = {}, x.leaks = {"child"}, NEW S, S \subseteq {"child"}
  PROVE  Leads(x, run_command_timed, Between({}, S), Between({}, {"child"}))
<1> USE DEF Fits, Bearable
<1>1. Kept(x, Get("child", "on"), Between({}, S), Between({}, {"child"}))
  BY GetBetween
<1>2. Kept(x, If({"child"}, Reap("child")), Between({}, {"child"}), Between({}, {"child"}))
  BY IfPutBetween
<1> QED
  BY <1>1, <1>2, Leads2 DEF run_command_timed

\* The sources that run a command: its child is known to be left behind.
LEMMA CommandLedgers == \A s \in {"wifi_rssi", "bluetooth_noise"} : \E L : Agrees(s, L)
<1> SUFFICES ASSUME NEW s \in {"wifi_rssi", "bluetooth_noise"}
             PROVE  \E L : Agrees(s, L)
  OBVIOUS
<1> DEFINE one == Between({}, {"child"})
           x == Context(s, {}, {}, one, one)
<1>1. /\ x.local = {} /\ x.whole = {} /\ x.leaks = {"child"} /\ x.lends = {}
      /\ x.again = one /\ x.last = one
  BY DEF Context, At, KnownLeaks, LoansOf
<1> HIDE DEF x
<1> USE DEF Fits, Bearable
<1>2. Leads(x, run_command_timed, Nothing, one) /\ Leads(x, run_command_timed, one, one)
  BY <1>1, RunCommandLeads DEF Only, Nothing
<1>3. Leads(x, <<Try("break")>>, one, one) /\ Leads(x, <<Stamp>>, one, one)
      /\ Leads(x, <<Stamp, Try("break")>>, one, one)
  <2>1. Kept(x, Stamp, one, one)
    BY StampBetween
  <2>2. Kept(x, Try("break"), one, one)
    BY <1>1, TryBetween
  <2> QED
    BY <2>1, <2>2, Leads1, Leads2
<1>4. Leads(x, wifi_rssi.body, one, one)
  <2>1. Leads(x, measure_once, one, one)
    BY <1>2, LeadsThen DEF measure_once
  <2> QED
    BY <1>3, <2>1, LeadsThen, ScriptParts DEF wifi_rssi
<1>5. Leads(x, bluetooth_noise.body, one, one)
  <2>1. Leads(x, <<Try("break")>> \o get_bluetooth_info_timed, one, one)
    BY <1>2, <1>3, LeadsThen DEF get_bluetooth_info_timed
  <2> QED
    BY <1>3, <2>1, LeadsThen, ScriptParts DEF bluetooth_noise, Sampler
<1>6. /\ wifi_rssi.setup = run_command_timed /\ wifi_rssi.teardown = << >>
      /\ bluetooth_noise.setup = << >> /\ bluetooth_noise.teardown = << >>
  BY ScriptParts DEF wifi_rssi, bluetooth_noise, Sampler, discover_wifi_device
<1>7. Scripts["wifi_rssi"] = wifi_rssi /\ Scripts["bluetooth_noise"] = bluetooth_noise
  BY DEF Scripts, KernelScripts, ChipScripts, HostScripts
<1>8. Leads(x, << >>, Nothing, Nothing) /\ Leads(x, << >>, one, one)
  BY Leads0
<1>9. /\ SetUpOver(x, one) /\ SetUpOver(x, Nothing) /\ RoundsOver(x, one) /\ AllOver(x, one)
  BY <1>1, EndsBetween DEF Only, Nothing
<1>10. CASE s = "wifi_rssi"
  BY <1>2, <1>4, <1>6, <1>7, <1>8, <1>9, <1>10, LedgerOfNothingOwned DEF x
<1>11. CASE s = "bluetooth_noise"
  BY <1>5, <1>6, <1>7, <1>8, <1>9, <1>11, LedgerOfNothingOwned DEF x
<1> QED
  BY <1>10, <1>11

\* A round takes the display's mode and releases it.
LEMMA DisplayPllLedger == \E L : Agrees("display_pll", L)
<1> DEFINE x == Context("display_pll", {}, {}, Nothing, Nothing)
<1>1. Plain(x, {}, {}, {}, {})
  BY PlainContext DEF Exceptions, KnownLeaks, KnownLeaksOfPanic, LoansOf, Only, Nothing
<1> HIDE DEF x
<1> USE <1>1 DEF Plain, Fits, Bearable, Only, Nothing
<1>2. Leads(x, display_pll.setup, Nothing, Nothing)
  BY Leads0, ScriptParts DEF display_pll, Sampler
<1>3. Leads(x, display_pll.body, Nothing, Nothing)
  <2>1. Leads(x, query_display_property, Nothing, Nothing)
    <3>1. Kept(x, Get("mode", "on"), Nothing, Between({}, {"mode"}))
      BY GetBetween
    <3>2. Kept(x, If({"mode"}, Put("mode")), Between({}, {"mode"}), Nothing)
      BY IfPutBetween
    <3> QED
      BY <3>1, <3>2, Leads2, ScriptParts DEF query_display_property
  <2>2. Leads(x, <<Stamp>>, Nothing, Nothing)
    <3>1. Kept(x, Stamp, Nothing, Nothing)
      BY StampBetween
    <3> QED
      BY <3>1, Leads1
  <2> QED
    BY <2>1, <2>2, LeadsThen, ScriptParts DEF display_pll, Sampler
<1>4. Leads(x, display_pll.teardown, Nothing, Nothing)
  BY Leads0, ScriptParts DEF display_pll, Sampler
<1>5. SetUpOver(x, Nothing) /\ RoundsOver(x, Nothing) /\ AllOver(x, Nothing)
  BY EndsBetween
<1>6. Scripts["display_pll"] = display_pll
  BY DEF Scripts, KernelScripts, ChipScripts, HostScripts
<1> QED
  BY <1>2, <1>3, <1>4, <1>5, <1>6, LedgerOfNothingOwned DEF x

\* The receiver has the ports until it is joined; they are destroyed after that.
LEMMA MachIpcLedger == \E L : Agrees("mach_ipc", L)
<1> DEFINE both == Only({"ports", "receiver"})
           x == Context("mach_ipc", {}, {}, both, both)
<1>1. /\ x.local = {} /\ x.whole = {} /\ x.leaks = {} /\ x.panics = {"ports"} /\ x.strays = {}
      /\ x.lends = {[by |-> "receiver", of |-> "ports"]} /\ x.queues = FALSE
      /\ x.again = both /\ x.last = both
  BY DEF Context, At, KnownLeaks, KnownLeaksOfPanic, LoansOf, Lent
<1> HIDE DEF x
<1>2. Leads(x, Ports, Nothing, Only({"ports"}))
  <2> DEFINE maybe == Between({}, {"ports"})
  <2>0. maybe = {{}, {"ports"}} /\ Only({"ports"}) = {{"ports"}} /\ Nothing = {{}}
    BY DEF Between, Only, Nothing
  <2> HIDE DEF maybe
  <2>1. Kept(x, Get("ports", "on"), Nothing, maybe)
    BY <2>0, GetKept DEF Refused
  <2>2. Kept(x, If({"ports"}, Freeing({"ports"}, Try("on"))), maybe, maybe)
    <3>1. \A H \in maybe : Free(x, {"ports"}, H) /\ H \ {"ports"} \in maybe
      BY <1>1, <2>0 DEF Free
    <3> QED
      BY <3>1, IfTryFreeingKept
  <2>3. Kept(x, Require("ports", "switch"), maybe, Only({"ports"}))
    BY <1>1, <2>0, RequireKept DEF Refused, Left, Free
  <2> QED
    BY <2>1, <2>2, <2>3, Leads3 DEF Ports
<1>3. Leads(x, <<Spawn("receiver", {"ports"})>>, Only({"ports"}), both)
  <2>1. Only({"ports"}) = {{"ports"}} /\ both = {{"ports", "receiver"}}
    BY DEF Between, Only
  <2>2. Kept(x, Spawn("receiver", {"ports"}), Only({"ports"}), both)
    BY <1>1, <2>1, SpawnKept DEF Refused, Left, Free, Lent
  <2> QED
    BY <2>2, Leads1
<1>4. Leads(x, mach_ipc.setup, Nothing, both)
  BY <1>2, <1>3, LeadsThen, ScriptParts DEF mach_ipc
<1>5. Leads(x, mach_ipc.body, both, both)
  <2>1. Kept(x, Stamp, both, both)
    BY StampKept
  <2> QED
    BY <2>1, Leads1, ScriptParts DEF mach_ipc
<1>6. Leads(x, mach_ipc.teardown, both, Nothing)
  <2>1. Only({"ports"}) = {{"ports"}} /\ both = {{"ports", "receiver"}} /\ Nothing = {{}}
    BY DEF Between, Only, Nothing
  <2>2. Kept(x, Join("receiver"), both, Only({"ports"}))
    BY <1>1, <2>1, JoinKept
  <2>3. Kept(x, Put("ports"), Only({"ports"}), Nothing)
    BY <1>1, <2>1, PutKept DEF Free
  <2> QED
    BY <2>2, <2>3, Leads2, ScriptParts DEF mach_ipc
<1>7. SetUpOver(x, both) /\ RoundsOver(x, both) /\ AllOver(x, Nothing)
  BY <1>1 DEF SetUpOver, RoundsOver, RoundOver, AllOver, Free, Between, Only, Nothing
<1>8. Scripts["mach_ipc"] = mach_ipc
  BY DEF Scripts, KernelScripts
<1> QED
  BY <1>4, <1>5, <1>6, <1>7, <1>8, LedgerOfNothingOwned DEF x

\* The files are watched only if they could be opened; the poker has them and
\* the sockets until it is joined.  Those not watched are left behind.
LEMMA KqueueEventsLedger == \E L : Agrees("kqueue_events", L)
<1> DEFINE files == {"kqueue", "sockets", "tempfile"}
           all == {"kqueue", "sockets", "tempfile", "watch"}
           watched == {H \in Between({"kqueue"}, all) : "watch" \in H => "tempfile" \in H}
           poked == {H \cup {"poker"} : H \in watched}
           x == Context("kqueue_events", {}, {}, poked, poked)
<1>1. /\ x.local = {} /\ x.whole = {} /\ x.leaks = {"tempfile"} /\ x.strays = {}
      /\ x.panics = {"kqueue", "sockets", "watch", "tempfile"} /\ x.queues = FALSE
      /\ x.lends = {[by |-> "poker", of |-> "sockets"], [by |-> "poker", of |-> "tempfile"]}
      /\ x.again = poked /\ x.last = poked
  BY DEF Context, At, KnownLeaks, KnownLeaksOfPanic, LoansOf, Lent
<1> HIDE DEF x
<1>2. ASSUME NEW H, "poker" \notin H, NEW R
      PROVE  R \subseteq all => Free(x, R, H)
  BY <1>1, <1>2 DEF Free
<1>3. \A H \in Between({"kqueue"}, all) : "poker" \notin H
  BY DEF Between
<1>4. Leads(x, kqueue_events.setup, Nothing, poked)
  <2>1. Kept(x, Get("kqueue", "return"), Nothing, Only({"kqueue"}))
    BY <1>1, <1>2, GetKept DEF Refused, Left, Between, Only, Nothing
  <2>2. Kept(x, Get("sockets", "on"), Only({"kqueue"}),
             Between({"kqueue"}, {"kqueue", "sockets"}))
    BY GetKept DEF Refused, Between, Only
  <2>3. Kept(x, Get("tempfile", "on"), Between({"kqueue"}, {"kqueue", "sockets"}),
             Between({"kqueue"}, files))
    BY GetKept DEF Refused, Between
  <2>4. Kept(x, If({"tempfile"}, Get("watch", "on")), Between({"kqueue"}, files), watched)
    BY IfGetKept DEF Between
  <2>5. Kept(x, Spawn("poker", {"sockets", "tempfile"}), watched, poked)
    <3>1. \A H : Lent("poker", {"sockets", "tempfile"} \cap H) \subseteq x.lends
      BY <1>1 DEF Lent
    <3>2. \A H \in watched : Refused(x, "panic", H, poked)
      <4> SUFFICES ASSUME NEW H \in watched
                   PROVE  Free(x, {}, H) /\ H \subseteq x.leaks \cup x.panics
        BY <1>1 DEF Refused, Left
      <4>1. H \subseteq all
        BY DEF Between
      <4> QED
        BY <1>1, <4>1, NothingFreed
    <3>3. \A H \in watched : H \cup {"poker"} \in poked
      OBVIOUS
    <3> QED
      BY <3>1, <3>2, <3>3, SpawnKept
  <2> HIDE DEF watched, poked
  <2> QED
    BY <2>1, <2>2, <2>3, <2>4, <2>5, Leads5, ScriptParts DEF kqueue_events
<1>5. Leads(x, kqueue_events.body, poked, poked)
  <2>1. Kept(x, Stamp, poked, poked)
    BY StampKept
  <2>2. \A H \in poked : Refused(x, "break", H, poked)
    BY <1>1 DEF Refused, Free
  <2>3. Kept(x, Try("break"), poked, poked)
    BY <2>2, TryKept
  <2> HIDE DEF watched, poked
  <2> QED
    BY <2>1, <2>3, Leads2, ScriptParts DEF kqueue_events
<1>6. Leads(x, kqueue_events.teardown, poked, Between({}, {"tempfile"}))
  <2>1. Kept(x, Join("poker"), poked, watched)
    <3>1. ASSUME NEW H \in poked PROVE H \ {"poker"} \in watched
      <4>1. PICK I \in watched : H = I \cup {"poker"}
        OBVIOUS
      <4>2. (I \cup {"poker"}) \ {"poker"} = I
        BY <1>3
      <4> QED
        BY <4>1, <4>2
    <3>2. \A l \in x.lends : l.of # "poker"
      BY <1>1
    <3> HIDE DEF watched, poked
    <3> QED
      BY <3>1, <3>2, JoinKept
  <2>2. Kept(x, If({"watch"}, Put("tempfile")), watched, Between({"kqueue"}, all))
    <3>1. \A H \in watched : H \in Between({"kqueue"}, all) /\ Free(x, {"tempfile"}, H)
      BY <1>2, <1>3
    <3>2. \A H \in watched : "watch" \in H => "tempfile" \in H \cup x.strays
      OBVIOUS
    <3>3. \A H \in watched : H \ {"tempfile"} \in Between({"kqueue"}, all)
      BY DEF Between
    <3> QED
      BY <3>1, <3>2, <3>3, IfPutKept
  <2>3. Kept(x, If({"watch"}, Put("watch")), Between({"kqueue"}, all), Between({"kqueue"}, files))
    BY <1>2, <1>3, IfPutKept DEF Between
  <2>4. Kept(x, If({"sockets"}, Put("sockets")), Between({"kqueue"}, files),
             Between({"kqueue"}, {"kqueue", "tempfile"}))
    BY <1>2, IfPutKept DEF Between
  <2>5. Kept(x, Put("kqueue"), Between({"kqueue"}, {"kqueue", "tempfile"}),
             Between({}, {"tempfile"}))
    BY <1>2, PutKept DEF Between
  <2> HIDE DEF watched, poked
  <2> QED
    BY <2>1, <2>2, <2>3, <2>4, <2>5, Leads5, ScriptParts DEF kqueue_events
<1>7. SetUpOver(x, poked) /\ RoundsOver(x, poked) /\ AllOver(x, Between({}, {"tempfile"}))
  BY <1>1 DEF SetUpOver, RoundsOver, RoundOver, AllOver, Free, Between
<1>8. Scripts["kqueue_events"] = kqueue_events
  BY DEF Scripts, KernelScripts
<1> QED
  BY <1>4, <1>5, <1>6, <1>7, <1>8, LedgerOfNothingOwned DEF x

\* Every source has a ledger.
LEMMA EveryAgrees == \A s \in DOMAIN Scripts : \E L : Agrees(s, L)
<1> DEFINE HasLedger(s) == \E L : Agrees(s, L)
<1>1. \A s \in DOMAIN KernelScripts : HasLedger(s)
  <2>1. DOMAIN KernelScripts = {"clock_jitter", "mach_timing", "mach_continuous_timing",
                                "commpage_clock_timing", "dram_row_buffer",
                                "page_fault_timing", "ane_timing", "has_ane_services",
                                "keychain_read", "keychain_write", "kqueue_events",
                                "mach_ipc", "mach_ipc_plain", "mach_ipc_simple",
                                "pipe_buffer", "collect_single_pipe", "disk_io",
                                "fsync_journal", "nvme_iokit_sensors",
                                "has_nvme_services", "nvme_passthrough_linux",
                                "has_nvme_passthrough", "nvme_raw_device",
                                "can_open_raw_device", "usb_enumeration",
                                "gpu_divergence", "metal_available", "iosurface_crossing",
                                "iosurface_available", "nl_inference_timing"}
    BY DEF KernelScripts
  <2>2. \A s \in {"clock_jitter", "mach_timing", "mach_continuous_timing",
                  "commpage_clock_timing", "dram_row_buffer"} : HasLedger(s)
    BY IdleLedgers DEF IdleSources
  <2>3. \A s \in {"page_fault_timing", "ane_timing", "has_ane_services", "keychain_read",
                  "keychain_write", "kqueue_events"} : HasLedger(s)
    BY PageFaultTimingLedger, LookUpLedgers, AnyServiceLedgers, KeychainReadLedger,
       KeychainWriteLedger, KqueueEventsLedger
  <2>4. \A s \in {"mach_ipc", "mach_ipc_plain", "mach_ipc_simple", "pipe_buffer",
                  "collect_single_pipe", "disk_io"} : HasLedger(s)
    BY MachIpcLedger, MachIpcPlainLedger, MachIpcSimpleLedger, PipeBufferLedger,
       CollectSinglePipeLedger, DiskIoLedger
  <2>5. \A s \in {"fsync_journal", "nvme_iokit_sensors", "has_nvme_services",
                  "nvme_passthrough_linux", "has_nvme_passthrough",
                  "nvme_raw_device"} : HasLedger(s)
    BY FsyncJournalLedger, LookUpLedgers, AnyServiceLedgers, ByHandLedgers,
       NvmeRawDeviceLedger
  <2>6. \A s \in {"can_open_raw_device", "usb_enumeration", "gpu_divergence",
                  "metal_available", "iosurface_crossing",
                  "iosurface_available"} : HasLedger(s)
    BY ByHandLedgers, UsbEnumerationLedger, GpuDivergenceLedger, MetalAvailableLedger,
       CrossingLedgers
  <2>7. \A s \in {"nl_inference_timing"} : HasLedger(s)
    BY NlInferenceTimingLedger
  <2> HIDE DEF HasLedger
  <2> QED
    BY <2>1, <2>2, <2>3, <2>4, <2>5, <2>6, <2>7
<1>2. \A s \in DOMAIN ChipScripts : HasLedger(s)
  <2>1. DOMAIN ChipScripts = {"amx_timing", "denormal_timing", "speculative_execution",
                              "prefetcher_state", "sev_event_timing",
                              "commoncrypto_aes_timing", "cccrypt_probe",
                              "aprr_jit_timing", "aprr_available", "cntfrq_cache_timing",
                              "cntfrq_available", "gxf_register_timing",
                              "dual_clock_domain", "probe_jit_instruction_safe",
                              "memory_bus_crypto", "tlb_shootdown", "cas_contention",
                              "dvfs_race", "icc_atomic_contention", "sitva"}
    BY DEF ChipScripts
  <2>2. \A s \in {"amx_timing", "denormal_timing", "speculative_execution",
                  "prefetcher_state", "sev_event_timing", "commoncrypto_aes_timing",
                  "cccrypt_probe"} : HasLedger(s)
    BY IdleLedgers DEF IdleSources
  <2>3. \A s \in {"aprr_jit_timing", "aprr_available", "cntfrq_cache_timing",
                  "cntfrq_available", "gxf_register_timing",
                  "dual_clock_domain"} : HasLedger(s)
    BY JitPageLedgers, ByHandLedgers, DualClockDomainLedger
  <2>4. \A s \in {"probe_jit_instruction_safe", "memory_bus_crypto", "tlb_shootdown",
                  "cas_contention", "dvfs_race", "icc_atomic_contention"} : HasLedger(s)
    BY ProbeJitInstructionSafeLedger, MemoryBusCryptoLedger, ByHandLedgers,
       CasContentionLedger, DvfsRaceLedger
  <2>5. \A s \in {"sitva"} : HasLedger(s)
    BY ByHandLedgers
  <2> HIDE DEF HasLedger
  <2> QED
    BY <2>1, <2>2, <2>3, <2>4, <2>5
<1>3. \A s \in DOMAIN HostScripts : HasLedger(s)
  <2>1. DOMAIN HostScripts = {"dns_timing", "tcp_connect_timing", "wifi_rssi",
                              "dispatch_queue_timing", "pe_core_arithmetic",
                              "sleep_jitter", "timer_coalescing", "thread_lifecycle",
                              "preemption_boundary", "audio_noise", "bluetooth_noise",
                              "smc_highvar_timing", "smc_available", "compression_timing",
                              "hash_timing", "spotlight_timing", "getentropy_timing",
                              "proc_info_timing", "ioregistry", "sysctl_deltas",
                              "vmstat_deltas", "process_table", "audio_pll_timing",
                              "counter_beat", "display_pll", "pcie_pll",
                              "has_pcie_services"}
    BY DEF HostScripts
  <2>2. \A s \in {"pe_core_arithmetic", "sleep_jitter", "timer_coalescing",
                  "preemption_boundary", "audio_noise", "compression_timing",
                  "hash_timing", "getentropy_timing", "proc_info_timing", "ioregistry",
                  "sysctl_deltas", "vmstat_deltas", "process_table", "audio_pll_timing",
                  "counter_beat"} : HasLedger(s)
    BY IdleLedgers DEF IdleSources
  <2>3. \A s \in {"dns_timing", "tcp_connect_timing", "wifi_rssi",
                  "dispatch_queue_timing", "thread_lifecycle",
                  "bluetooth_noise"} : HasLedger(s)
    BY DnsTimingLedger, TcpConnectTimingLedger, CommandLedgers, DispatchQueueTimingLedger,
       ThreadLifecycleLedger
  <2>4. \A s \in {"smc_highvar_timing", "smc_available", "spotlight_timing",
                  "display_pll", "pcie_pll", "has_pcie_services"} : HasLedger(s)
    BY SmcHighvarTimingLedger, ByHandLedgers, SpotlightTimingLedger, DisplayPllLedger,
       LookUpLedgers, AnyServiceLedgers
  <2> HIDE DEF HasLedger
  <2> QED
    BY <2>1, <2>2, <2>3, <2>4
<1> QED
  BY <1>1, <1>2, <1>3 DEF Scripts

------------------------ (* no call leads out of its ledger *) ----------------

\* The ledger chosen for a source is one.
LEMMA LedgerAgrees == ASSUME NEW s \in DOMAIN Scripts PROVE Agrees(s, Ledger(s))
BY EveryAgrees DEF Ledger

\* The parts of a script, and done is none of them.
LEMMA PartsOf == "done" \notin Parts /\ {"setup", "body", "teardown"} = Parts
BY DEF Parts

\* The step a call is at agrees with the entries before and after it.
LEMMA StepKept ==
  ASSUME LedgerInv, Running
  PROVE  /\ Kept(Around, Current, Ledger(source)[part][at], Ledger(source)[part][at + 1])
         /\ part \in Parts /\ held \in Ledger(source)[part][at]
         /\ at + 1 \in 1 .. Len(Steps) + 1
<1>1. part \in Parts /\ at \in 1 .. Len(Steps) + 1 /\ held \in Ledger(source)[part][at]
  BY DEF LedgerInv, Running
<1>2. Agrees(source, Ledger(source))
  BY LedgerAgrees DEF LedgerInv
<1>3. Len(Steps) \in Nat /\ Chain(Around, Steps, Ledger(source)[part])
  BY <1>1, <1>2 DEF Agrees, Around, Steps, Script
<1>4. at \in 1 .. Len(Steps) /\ at + 1 \in 1 .. Len(Steps) + 1
  BY <1>1, <1>3 DEF Running
<1> QED
  BY <1>1, <1>3, <1>4 DEF Chain, Current

\* Going on to the next step.
LEMMA MoveOn ==
  ASSUME LedgerInv, Running, Advance, UNCHANGED <<source, n, how>>,
         held' \in Ledger(source)[part][at + 1],
         lost' \subseteq Around.leaks, stray' \subseteq Around.strays,
         LoansHeld(Around, held)'
  PROVE  LedgerInv'
<1>1. part' = part /\ at' = at + 1 /\ Steps' = Steps /\ Around' = Around
  BY DEF Advance, Steps, Script, Around
<1>2. part \in Parts /\ at + 1 \in 1 .. Len(Steps) + 1
  BY StepKept
<1> QED
  BY <1>1, <1>2 DEF LedgerInv

\* Going to the start of another part.
LEMMA MoveTo ==
  ASSUME LedgerInv, part \in Parts, part' \in {"body", "teardown"}, at' = 1,
         UNCHANGED <<source, n, how, lost, stray>>,
         held' \in Around.again \cap Around.last \/ (part' = "teardown" /\ held' \in Around.last),
         LoansHeld(Around, held)'
  PROVE  LedgerInv'
<1>1. Script' = Script /\ Around' = Around
  BY DEF Script, Around
<1>2. held' \in Ledger(source)[part'][1]
  BY DEF Around, ContextOf, Context
<1>3. Len(Script[part']) \in Nat
  BY LedgerAgrees DEF Agrees, Script, LedgerInv, Parts
<1>4. at' \in 1 .. Len(Steps)' + 1
  BY <1>1, <1>3 DEF Steps
<1> QED
  BY <1>1, <1>2, <1>4 DEF LedgerInv, Parts

\* What the model owns is what the context says.
LEMMA OwnedIs == Owned("body") = Around.local /\ Owned("setup") = Around.whole
BY DEF Owned, Around, ContextOf, Context, OwnedBy, OwnedOf, Script

\* What is not lent may be given up.
LEMMA StillHeld ==
  ASSUME NEW H, NEW R, LoansHeld(Around, H), Free(Around, R, H), loans' = loans, source' = source
  PROVE  LoansHeld(Around, H \ R)'
BY DEF LoansHeld, Free, Around

\* Going where a refusal leads, and dropping what is owned on the way.
LEMMA JumpKept ==
  ASSUME LedgerInv, Running, NEW go, NEW H, NEW f,
         Refused(Around, go, H, f), f = Ledger(source)[part][at + 1],
         LoansHeld(Around, H), Jump(go, H), UNCHANGED <<n, lost, stray, loans>>
  PROVE  LedgerInv'
<1>0. part \in Parts /\ how = ""
  BY DEF LedgerInv, Running
<1>1. CASE go = "on" /\ Advance /\ held' = H /\ UNCHANGED <<source, result>>
  <2>1. LoansHeld(Around, held)'
    BY <1>1 DEF LoansHeld, Around
  <2> QED
    BY <1>1, <2>1, MoveOn DEF LedgerInv, Refused, result
<1>2. CASE go = "next" /\ NextRound /\ held' = H \ Owned("body") /\ UNCHANGED <<source, result>>
  <2>1. LoansHeld(Around, held)'
    BY <1>2, StillHeld, OwnedIs DEF Refused, RoundOver
  <2> QED
    BY <1>0, <1>2, <2>1, MoveTo, OwnedIs DEF Refused, RoundOver, NextRound, result
<1>3. CASE go = "break" /\ ToTeardown /\ held' = H \ Owned("body") /\ UNCHANGED <<source, result>>
  <2>1. LoansHeld(Around, held)'
    BY <1>3, StillHeld, OwnedIs DEF Refused
  <2> QED
    BY <1>0, <1>3, <2>1, MoveTo, OwnedIs DEF Refused, ToTeardown, result
<1>4. CASE go \in {"return", "found", "panic"} /\ End(go)
           /\ held' = (H \ Owned("body")) \ Owned("setup") /\ UNCHANGED <<source, out>>
  <2>1. Around' = Around
    BY <1>4 DEF Around
  <2>2. Free(Around, Around.local \cup Around.whole, H)
    BY <1>4 DEF Refused, Left
  <2>3. held' = H \ (Around.local \cup Around.whole)
    BY <1>4, OwnedIs
  <2>4. LoansHeld(Around, held)'
    BY <1>4, <2>2, <2>3, StillHeld
  <2>5. held' \subseteq Around.leaks \cup (IF go = "panic" THEN Around.panics ELSE {})
    BY <1>4, OwnedIs DEF Refused, Left
  <2> QED
    BY <1>4, <2>1, <2>4, <2>5, PartsOf DEF LedgerInv, End
<1>5. CASE go = "switch" /\ source \in DOMAIN Fallback /\ source' = Fallback[source]
           /\ part' = "setup" /\ at' = 1
           /\ held' = (H \ Owned("body")) \ Owned("setup") /\ UNCHANGED <<round, result>>
  <2>1. source' \in DOMAIN Scripts
    BY <1>5, FallbackIsSource
  <2>2. held' = {} /\ lost' = {} /\ stray' = {}
    BY <1>5, OwnedIs DEF Refused, Left, LedgerInv
  <2>3. Free(Around, Around.local \cup Around.whole, H) /\ ~Around.queues
    BY <1>5 DEF Refused, Left
  <2>4. H \subseteq Around.local \cup Around.whole
    BY <1>5 DEF Refused, Left
  <2>5. loans' = {}
    BY <2>3, <2>4 DEF LoansHeld, Free
  <2>6. Agrees(Fallback[source], Ledger(Fallback[source]))
    BY <1>5, <2>1, LedgerAgrees
  <2>7. held' \in Ledger(source')["setup"][1] /\ Len(Scripts[source'].setup) \in Nat
    BY <1>5, <2>2, <2>6 DEF Agrees, Parts
  <2>8. at' \in 1 .. Len(Steps)' + 1
    BY <1>5, <2>7 DEF Steps, Script
  <2>9. LoansHeld(Around, held)'
    BY <2>5 DEF LoansHeld
  <2> QED
    BY <1>0, <1>5, <2>1, <2>2, <2>7, <2>8, <2>9 DEF LedgerInv, Parts, result
<1> QED
  BY <1>1, <1>2, <1>3, <1>4, <1>5 DEF Jump

\* What the ledger says of the end of a part.
LEMMA AtPartEnd ==
  ASSUME LedgerInv, part \in Parts, at > Len(Steps)
  PROVE  /\ part = "setup" => held \in Around.again \cap Around.last
         /\ part = "body" => RoundOver(Around, held)
         /\ part = "teardown" =>
              Free(Around, Around.whole, held) /\ held \ Around.whole \subseteq Around.leaks
<1>1. Agrees(source, Ledger(source))
  BY LedgerAgrees DEF LedgerInv
<1>2. Len(Scripts[source][part]) \in Nat
  BY <1>1 DEF Agrees
<1>3. at = Len(Scripts[source][part]) + 1 /\ held \in Ledger(source)[part][at]
  <2>1. Steps = Scripts[source][part]
    BY DEF Steps, Script
  <2>2. at \in 1 .. Len(Steps) + 1 /\ held \in Ledger(source)[part][at]
    BY DEF LedgerInv
  <2> QED
    BY <1>2, <2>1, <2>2
<1>4. CASE part = "setup"
  <2>1. held \in Ledger(source).setup[Len(Scripts[source]["setup"]) + 1]
    BY <1>3, <1>4
  <2> QED
    BY <1>1, <1>4, <2>1 DEF Agrees, Around, SetUpOver
<1>5. CASE part = "body"
  <2>1. held \in Ledger(source).body[Len(Scripts[source]["body"]) + 1]
    BY <1>3, <1>5
  <2> QED
    BY <1>1, <1>5, <2>1 DEF Agrees, Around, RoundsOver
<1>6. CASE part = "teardown"
  <2>1. held \in Ledger(source).teardown[Len(Scripts[source]["teardown"]) + 1]
    BY <1>3, <1>6
  <2> QED
    BY <1>1, <1>6, <2>1 DEF Agrees, Around, AllOver
<1> QED
  BY <1>4, <1>5, <1>6 DEF Parts

\* No step leads out of the ledger.
LEMMA LedgerStep == LedgerInv /\ [Next]_vars => LedgerInv'
<1> SUFFICES ASSUME LedgerInv, [Next]_vars PROVE LedgerInv'
  OBVIOUS
<1> DEFINE f == Ledger(source)[part][at + 1]
           K == Kept(Around, Current, Ledger(source)[part][at], f)
<1>0. Running => K /\ held \in Ledger(source)[part][at]
  BY StepKept
<1>k. ASSUME NEW what, Here(what)
      PROVE  /\ Running /\ Current.what \in what /\ Done(Around, Current, held, f)
             /\ (Current.go # "never" /\ (Current.what = "require" => Current.on \notin held)) =>
                   /\ Free(Around, Current.free, held)
                   /\ Refused(Around, Current.go, held \ Current.free, f)
  BY <1>0, <1>k DEF Here, Kept
<1>h. lost \subseteq Around.leaks /\ stray \subseteq Around.strays /\ LoansHeld(Around, held)
  BY DEF LedgerInv
<1>1. CASE Skip
  <2>1. held' \in f
    BY <1>0, <1>1 DEF Skip, Kept
  <2>2. LoansHeld(Around, held)'
    BY <1>1, <1>h DEF Skip, LoansHeld, Around
  <2> QED
    BY <1>1, <1>h, <2>1, <2>2, MoveOn DEF Skip, result
<1>2. CASE Acquire
  <2>1. /\ Running /\ held' = held \cup {Current.on} /\ held' \in f
        /\ Current.on \in held => Current.on \in Around.leaks
    BY <1>2, <1>k DEF Acquire, Done
  <2>2. LoansHeld(Around, held)'
    BY <1>2, <1>h, <2>1 DEF Acquire, LoansHeld, Around
  <2>3. lost' \subseteq Around.leaks /\ stray' \subseteq Around.strays
    BY <1>2, <1>h, <2>1 DEF Acquire
  <2> QED
    BY <1>2, <2>1, <2>2, <2>3, MoveOn DEF Acquire, result
<1>3. CASE Release
  <2>1. /\ Running /\ held' = held \ {Current.on} /\ held' \in f
        /\ Current.on \in held \cup Around.strays /\ Free(Around, {Current.on}, held)
    <3>1. Running /\ Current.what = "put" /\ Done(Around, Current, held, f)
      BY <1>3, <1>k DEF Release
    <3> QED
      BY <1>3, <3>1 DEF Release, Done
  <2>2. LoansHeld(Around, held)'
    BY <1>3, <1>h, <2>1, StillHeld DEF Release
  <2>3. lost' \subseteq Around.leaks /\ stray' \subseteq Around.strays
    BY <1>3, <1>h, <2>1 DEF Release
  <2> QED
    BY <1>3, <2>1, <2>2, <2>3, MoveOn DEF Release, result
<1>4. CASE Pass
  <2>1. Running /\ held' = held /\ held' \in f
    BY <1>4, <1>k DEF Pass, Done
  <2>2. LoansHeld(Around, held)'
    BY <1>4, <1>h DEF Pass, LoansHeld, Around
  <2> QED
    BY <1>4, <1>h, <2>1, <2>2, MoveOn DEF Pass, result
<1>5. CASE Hand
  <2>0. Running /\ Current.what \in {"spawn", "post"} /\ Done(Around, Current, held, f)
    BY <1>5, <1>k DEF Hand
  <2>1. Running /\ held' \in f /\ held \subseteq held'
    BY <1>5, <2>0 DEF Hand, Done
  <2>2. ASSUME ~Around.queues
        PROVE  /\ Current.on \in held' /\ held \subseteq held'
               /\ Lent(Current.on, Current.uses \cap held) \subseteq Around.lends
    <3>1. Current.what = "spawn"
      BY <2>0, <2>2 DEF Done
    <3> QED
      BY <1>5, <2>0, <3>1 DEF Hand, Done
  <2>3. LoansHeld(Around, held)'
    <3> SUFFICES ASSUME ~Around.queues, NEW l \in loans'
                 PROVE  l \in Around.lends /\ l.by \in held' /\ l.of \in held'
      BY <1>5 DEF LoansHeld, Hand, Around
    <3>1. CASE l \in loans
      BY <1>h, <2>2, <3>1 DEF LoansHeld
    <3>2. CASE l \in {[by |-> Current.on, of |-> r] : r \in Current.uses \cap held}
      BY <2>2, <3>2 DEF Lent
    <3> QED
      BY <1>5, <3>1, <3>2 DEF Hand
  <2> QED
    BY <1>5, <1>h, <2>1, <2>3, MoveOn DEF Hand, result
<1>6. CASE Rejoin
  <2>1. /\ Running /\ held' = held \ {Current.on} /\ held' \in f
        /\ \A l \in Around.lends : l.of # Current.on
    <3>1. Running /\ Current.what = "join" /\ Done(Around, Current, held, f)
      BY <1>6, <1>k DEF Rejoin
    <3> QED
      BY <1>6, <3>1 DEF Rejoin, Done
  <2>2. LoansHeld(Around, held)'
    BY <1>6, <1>h, <2>1 DEF Rejoin, LoansHeld, Around
  <2> QED
    BY <1>6, <1>h, <2>1, <2>2, MoveOn DEF Rejoin, result
<1>7. CASE BlockRuns
  <2>1. /\ UNCHANGED <<source, n, part, at, held, lost, stray, how>>
        /\ loans' \subseteq loans
    BY <1>7 DEF BlockRuns, place, result
  <2>2. Around' = Around /\ Steps' = Steps
    BY <2>1 DEF Around, Steps, Script
  <2> QED
    BY <2>1, <2>2 DEF LedgerInv, LoansHeld
<1>8. CASE Refuse
  <2> DEFINE H == held \ Current.free
  <2>1. /\ Running /\ Free(Around, Current.free, held) /\ Refused(Around, Current.go, H, f)
        /\ Jump(Current.go, H)
    BY <1>8, <1>k DEF Refuse
  <2>2. LoansHeld(Around, H)
    BY <1>h, <2>1 DEF LoansHeld, Free
  <2> QED
    BY <1>8, <2>1, <2>2, JumpKept DEF Refuse
<1>9. CASE SetUp
  <2>1. part = "setup" /\ held \in Around.again \cap Around.last
    BY <1>9, AtPartEnd DEF SetUp, Parts
  <2>2. LoansHeld(Around, held)'
    BY <1>9, <1>h DEF SetUp, LoansHeld, Around
  <2> QED
    BY <1>9, <2>1, <2>2, MoveTo DEF SetUp, Parts, result
<1>10. CASE EndRound
  <2>1. part = "body" /\ RoundOver(Around, held)
    BY <1>10, AtPartEnd DEF EndRound, Parts
  <2>2. held' = held \ Around.local
    BY <1>10, OwnedIs DEF EndRound
  <2>3. LoansHeld(Around, held)'
    BY <1>10, <1>h, <2>1, <2>2, StillHeld DEF EndRound, RoundOver
  <2> QED
    BY <1>10, <2>1, <2>2, <2>3, MoveTo DEF EndRound, NextRound, RoundOver, Parts, result
<1>11. CASE Finish
  <2>1. /\ part = "teardown" /\ Free(Around, Around.whole, held)
        /\ held \ Around.whole \subseteq Around.leaks
    BY <1>11, AtPartEnd DEF Finish, Parts
  <2>2. held' = held \ Around.whole
    BY <1>11, OwnedIs DEF Finish
  <2>3. LoansHeld(Around, held)'
    BY <1>11, <1>h, <2>1, <2>2, StillHeld DEF Finish
  <2>4. Around' = Around /\ part' = "done" /\ UNCHANGED <<source, n, lost, stray>>
    BY <1>11 DEF Around, Finish, End
  <2> QED
    BY <1>h, <2>1, <2>2, <2>3, <2>4, PartsOf DEF LedgerInv
<1>12. CASE UNCHANGED vars
  BY <1>12 DEF LedgerInv, LoansHeld, Around, Steps, Script, vars
<1> QED
  BY <1>1, <1>2, <1>3, <1>4, <1>5, <1>6, <1>7, <1>8, <1>9, <1>10, <1>11, <1>12 DEF Next

\* A call begins where the ledger of its source does.
LEMMA LedgerStart == Init => LedgerInv
<1> SUFFICES ASSUME Init PROVE LedgerInv
  OBVIOUS
<1>1. Agrees(source, Ledger(source))
  BY LedgerAgrees DEF Init
<1>2. held \in Ledger(source)["setup"][1] /\ Len(Steps) \in Nat
  BY <1>1 DEF Init, Agrees, Parts, Steps, Script
<1>3. part \in Parts /\ at = 1 /\ held \in Ledger(source)[part][at]
  BY <1>2 DEF Init, Parts
<1>4. at \in 1 .. Len(Steps) + 1
  BY <1>2, <1>3
<1>5. LoansHeld(Around, held)
  BY DEF Init, LoansHeld
<1> QED
  BY <1>3, <1>4, <1>5 DEF Init, LedgerInv

\* Whatever number of rounds and of bytes is asked for, and whichever of its
\* steps the system refuses, a call that has ended neither holds nor has lost
\* track of anything its source took (a descriptor, a port, a thread, a child,
\* a mapping): only the sources that are known to leave something behind do,
\* and only what they are known to leave.
THEOREM NothingLeaks == Spec => []LeaksOnlyKnown
<1>1. LedgerInv => LeaksOnlyKnown
  BY PartsOf DEF LedgerInv, LeaksOnlyKnown, Known, Around, ContextOf, Context, At
<1> QED
  BY <1>1, LedgerStart, LedgerStep, PTL DEF Spec

\* However many rounds a call has, no way through its error paths releases what
\* it does not hold, nor what a thread it started was handed and may still use,
\* but for IOSurface's second unlock and dispatch_queue_timing's semaphore.
THEOREM NothingReleasedTwice == Spec => []ReleasedOnce
<1>1. LedgerInv => ReleasedOnce
  BY DEF LedgerInv, ReleasedOnce, Around, ContextOf, Context, LoansHeld
<1> QED
  BY <1>1, LedgerStart, LedgerStep, PTL DEF Spec
=============================================================================
