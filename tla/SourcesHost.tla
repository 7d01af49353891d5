----------------------------- MODULE SourcesHost ----------------------------
(***************************************************************************)
(* The sources of the categories network, scheduling, sensor, signal,      *)
(* system and thermal: sockets, threads, child processes, queries of the   *)
(* operating system and its devices.                                       *)
(***************************************************************************)
EXTENDS SourcesKernel

------------------------------- (* network *) -------------------------------

\* Each round has a socket of its own; binding, the timeouts, the send and the
\* receive may fail.  (Up to four times as many rounds, until enough succeed.)
dns_timing ==
  Sampler(Linear(1, 64),
          <<Try("break"), Own("socket", "next"), Try("next"), Try("next"), Stamp>>, "timing")
tcp_connect_timing ==
  Sampler(Linear(1, 64), <<Try("break"), Own("stream", "next"), Stamp>>, "timing")

\* A child is waited for, or killed and waited for at the timeout; a try_wait
\* that fails gives up on it.  WiFi and Bluetooth each have a copy of this.
run_command_timed == <<Get("child", "on"), If({"child"}, Reap("child"))>>

\* Four bursts of eight measurements, of at least 53 bytes, until there are
\* twice as many as asked for: the timings count even if every command fails.
discover_wifi_device == run_command_timed
measure_once         == run_command_timed \o run_command_timed
wifi_rssi ==
  Times(53, Source([n \in Sizes |-> 4], discover_wifi_device,
                   measure_once \o <<Stamp, Try("break")>>, << >>, "bytes"))

----------------------------- (* scheduling *) ------------------------------

\* A block is queued to signal the round's semaphore.  After 100 ms the round
\* gives up waiting, and releases the semaphore.
dispatch_queue_timing ==
  Sampler(Linear(8, 64),
          <<Get("semaphore", "next"), Post("block", {"semaphore"}), Await("block"),
            Put("semaphore"), Filter>>, "timing")

pe_core_arithmetic == Sampler(Linear(4, 64), <<Stamp>>, "timing")
sleep_jitter       == Sampler(Linear(2, 64), <<Stamp>>, "timing")
timer_coalescing   == Sampler(Linear(12, 64), <<Filter>>, "timing")
thread_lifecycle   ==
  Sampler(Linear(4, 64), <<Spawn("worker", {}), Join("worker"), Stamp>>, "timing")

\* Only a step of the counter is a timing; the pairs are topped up from them.
preemption_boundary ==
  Sampler([n \in Sizes |-> IF 8 * n < 16384 THEN 16384 ELSE 8 * n], <<Filter>>, "topped")

------------------------------- (* sensor *) --------------------------------

\* One run of ffmpeg.
audio_noise == Source(Linear(0, 0), <<Try("return")>>, << >>, << >>, "some")

\* At most 50 scans in four seconds, of at least eight bytes each.
get_bluetooth_info_timed == run_command_timed
bluetooth_noise ==
  Times(8, Sampler([n \in Sizes |-> 50],
                   <<Try("break")>> \o get_bluetooth_info_timed \o <<Stamp>>, "bytes"))

\* The service is released whether or not it can be opened.
smc_highvar_timing ==
  Times(2, Source(Linear(3, 32),
                  <<Get("service", "return"), Freeing({"service"}, Get("connection", "return")),
                    Put("service")>>,
                  <<Filter, Filter>>, <<Put("connection")>>, "timing"))
smc_available == Source(Linear(0, 0), <<Get("service", "return")>>, << >>,
                        <<Put("service")>>, "none")

------------------------------- (* signal *) --------------------------------

compression_timing == Sampler(Linear(4, 64), <<Stamp>>, "timing")
hash_timing        == Sampler(Linear(4, 64), <<Stamp>>, "timing")

\* At most 48 runs of mdls in two seconds, each given 150 ms.
spotlight_timing ==
  Sampler([n \in Sizes |-> IF n + 16 < 48 THEN n + 16 ELSE 48],
          <<Try("break"), Get("child", "on"), If({"child"}, Reap("child")), Stamp>>, "timing")

------------------------------- (* system *) --------------------------------

getentropy_timing == Sampler(Linear(2, 32), <<Filter>>, "timing")
proc_info_timing  == Times(2, Sampler(Linear(2, 32), <<Filter, Filter>>, "timing"))

\* Snapshots by a command, of which none may fail; the output is what changed
\* between one and the next.
Snapshots(k, setup) ==
  Source([n \in Sizes |-> k], setup, <<Try("return")>>, << >>, "some")
ioregistry   == Snapshots(4, << >>)
sysctl_deltas == Snapshots(2, << >>)
vm_stat_path == <<Try("return")>>
vmstat_deltas == Snapshots(4, vm_stat_path)

\* What the process table does not give, getpid jitter does.
collect_getpid_jitter == [n \in Sizes |-> IF 2 * n < 256 THEN 256 ELSE 2 * n]
process_table == Source(collect_getpid_jitter, <<Try("on")>>, <<Stamp>>, << >>, "bytes")

------------------------------- (* thermal *) -------------------------------

get_default_output_device == <<Try("return")>>
audio_pll_timing ==
  Source(Linear(4, 64), get_default_output_device, <<Stamp>>, << >>, "timing")
counter_beat ==
  Source(Linear(4, 64), get_default_output_device, <<Stamp>>, << >>, "guarded")

query_display_property == <<Get("mode", "on"), If({"mode"}, Put("mode"))>>
display_pll == Sampler(Linear(4, 64), query_display_property \o <<Stamp>>, "timing")

probe_pcie_service ==
  LookUp(Properties(<<If({"props"}, Get("key", "on")), If({"key"}, Put("key"))>>))
pcie_pll          == Sampler(Linear(4, 64), probe_pcie_service, "timing")
has_pcie_services == AnyService(5)

-------------------- (* sources, fallbacks and probes *) --------------------

HostScripts ==
  [dns_timing |-> dns_timing, tcp_connect_timing |-> tcp_connect_timing,
   wifi_rssi |-> wifi_rssi, dispatch_queue_timing |-> dispatch_queue_timing,
   pe_core_arithmetic |-> pe_core_arithmetic, sleep_jitter |-> sleep_jitter,
   timer_coalescing |-> timer_coalescing, thread_lifecycle |-> thread_lifecycle,
   preemption_boundary |-> preemption_boundary, audio_noise |-> audio_noise,
   bluetooth_noise |-> bluetooth_noise, smc_highvar_timing |-> smc_highvar_timing,
   smc_available |-> smc_available, compression_timing |-> compression_timing,
   hash_timing |-> hash_timing, spotlight_timing |-> spotlight_timing,
   getentropy_timing |-> getentropy_timing, proc_info_timing |-> proc_info_timing,
   ioregistry |-> ioregistry, sysctl_deltas |-> sysctl_deltas,
   vmstat_deltas |-> vmstat_deltas, process_table |-> process_table,
   audio_pll_timing |-> audio_pll_timing, counter_beat |-> counter_beat,
   display_pll |-> display_pll, pcie_pll |-> pcie_pll,
   has_pcie_services |-> has_pcie_services]
=============================================================================
