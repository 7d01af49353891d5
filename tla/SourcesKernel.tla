---------------------------- MODULE SourcesKernel ---------------------------
(***************************************************************************)
(* The sources of the categories timing, ipc, io and gpu: clocks, page     *)
(* faults, Mach ports, pipes, kqueue, disks, IOKit services, Metal.        *)
(***************************************************************************)
EXTENDS SourceScript

------------------------------- (* timing *) --------------------------------

clock_jitter     == Sampler(Linear(4, 64), <<Stamp>>, "timing")
mach_timing      == Sampler(Linear(1, 64), <<Stamp>>, "timing")
mach_continuous_timing == Sampler(Linear(4, 64), <<Filter>>, "timing")
commpage_clock_timing  == Sampler(Linear(3, 32), <<Filter>>, "debiased")
dram_row_buffer  == Sampler(Linear(4, 64), <<Stamp>>, "timing")

page_faults_only ==
  Times(8, Sampler([n \in Sizes |-> (4 * n) \div 32],
                   <<Get("mapping", "next"), Stamp, Put("mapping")>>, "timing"))

\* One mapping of num_pages = 8 pages per cycle, each page timed once.
page_fault_timing ==
  Times(8, Sampler([n \in Sizes |-> (4 * n) \div 8 + 4],
                   <<Get("mapping", "next"), Stamp, Put("mapping")>>, "timing"))

\* An IOKit lookup: iterator, first service, its properties.  A lookup that
\* fails half-way is timed all the same.
LookUp(props) ==
  <<Get("iterator", "on"), If({"iterator"}, Get("service", "on"))>>
  \o props
  \o <<If({"service"}, Put("service")), If({"iterator"}, Put("iterator")), Stamp>>

Properties(inner) ==
  <<If({"service"}, Get("props", "on"))>> \o inner \o <<If({"props"}, Put("props"))>>

\* has_*_services: is there a service of any of the k classes?
AnyService(k) ==
  Probe(k, <<Get("iterator", "next"), Get("service", "on"), Put("iterator"),
             Require("service", "next"), Put("service"), Exit("found")>>)

probe_ane_service == LookUp(Properties(<< >>))
ane_timing        == Sampler(Linear(4, 64), probe_ane_service, "timing")
has_ane_services  == AnyService(4)

-------------------------------- (* ipc *) ----------------------------------

CFObjects == <<Get("label", "never"), Get("secret", "never"), Get("attributes", "never")>>

\* The item is added once and looked up in every round; a result is released
\* in the round it was returned in.
keychain_read ==
  Source(Linear(2, 64),
         CFObjects \o <<Get("del", "never"), Get("item", "on"), Get("query", "never")>>,
         <<Get("result", "on"), Stamp, If({"result"}, Put("result"))>>,
         <<If({"item"}, Put("item")), Put("del"), Put("attributes"), Put("query"),
           Put("secret"), Put("label")>>,
         "variance")

\* An item is added and deleted in every round; only a successful add counts.
keychain_write ==
  Sampler(Linear(4, 64),
          CFObjects
          \o <<Get("item", "on"), If({"item"}, Stamp), Get("del", "never"),
               If({"item"}, Put("item")),
               Put("del"), Put("attributes"), Put("secret"), Put("label")>>,
          "variance")

\* The poker thread writes to the sockets and the temporary files until it is
\* told to stop.  A file that cannot be opened again is not remembered.
kqueue_events ==
  Source(Linear(1, 64),
         <<Get("kqueue", "return"), Get("sockets", "on"), Get("tempfile", "on"),
           If({"tempfile"}, Get("watch", "on")),
           Spawn("poker", {"sockets", "tempfile"})>>,
         <<Try("break"), Stamp>>,
         <<Join("poker"), If({"watch"}, Put("tempfile")), If({"watch"}, Put("watch")),
           If({"sockets"}, Put("sockets")), Put("kqueue")>>,
         "timing")

Ports ==
  <<Get("ports", "on"), If({"ports"}, Freeing({"ports"}, Try("on"))),
    Require("ports", "switch")>>

mach_ipc_ports_first ==
  Source(Linear(4, 64), Ports \o <<Spawn("receiver", {"ports"})>>,
         <<Stamp>>, <<Put("ports"), Join("receiver")>>, "timing")

\* collect with use_complex_messages, the default: a receiver thread drains
\* the ports, a message's memory is copied in and deallocated there.
mach_ipc ==
  Source(Linear(4, 64), Ports \o <<Spawn("receiver", {"ports"})>>,
         <<Stamp>>, <<Join("receiver"), Put("ports")>>, "timing")

mach_ipc_plain ==
  Source(Linear(4, 64), Ports,
         <<Get("port", "on"), If({"port"}, Put("port")), Stamp>>,
         <<Put("ports")>>, "timing")

mach_ipc_simple ==
  Sampler(Linear(4, 64), <<Get("port", "on"), If({"port"}, Put("port")), Stamp>>, "timing")

\* The pool of pipes lives as long as the call; every eighth round makes an
\* extra one.
pipe_buffer ==
  Source(Linear(4, 64), <<Get("pipes", "on"), Require("pipes", "switch")>>,
         <<Stamp, Get("extra", "on"), If({"extra"}, Put("extra"))>>,
         <<Put("pipes")>>, "timing")

collect_single_pipe ==
  Sampler(Linear(4, 64), <<Get("pipe", "next"), Put("pipe"), Stamp>>, "timing")

-------------------------------- (* io *) -----------------------------------

\* The temporary file is deleted by its Drop on every way out.
disk_io ==
  Source(Linear(4, 64), <<Own("tempfile", "return"), Try("return"), Try("return")>>,
         <<Stamp>>, << >>, "timing")

\* One temporary file per round: create, write, flush, sync.
fsync_journal ==
  Sampler(Linear(2, 64),
          <<Try("break"), Own("tempfile", "next"), Try("next"), Try("next"), Try("next"),
            Stamp>>, "timing")

\* The properties, then one CFString and one value for each of the keys.
probe_nvme_service ==
  LookUp(Properties(<< >>)
         \o <<If({"service"}, Get("key", "on")), If({"key"}, Get("value", "on")),
              If({"value"}, Put("value")), If({"key"}, Put("key"))>>)
nvme_iokit_sensors == Sampler(Linear(4, 64), probe_nvme_service, "timing")
has_nvme_services  == AnyService(4)

\* Three device nodes are tried in turn.  The descriptor is closed by hand.
try_open_nvme == <<Get("fd", "return")>>
nvme_passthrough_linux ==
  Source(Linear(4, 64), try_open_nvme, <<Try("next"), Stamp>>, <<Put("fd")>>, "guarded")
has_nvme_passthrough == Source(Linear(0, 0), try_open_nvme, << >>, <<Put("fd")>>, "none")

try_open_raw_device == <<Get("fd", "return")>>
nvme_raw_unbuffered ==
  Source(Linear(4, 64), try_open_raw_device \o <<Get("buffer", "return")>>,
         <<Stamp>>, <<Put("buffer"), Put("fd")>>, "timing")

\* Without the aligned buffer nothing is read, but the descriptor is closed.
nvme_raw_device ==
  Source(Linear(4, 64),
         try_open_raw_device \o <<Freeing({"fd"}, Get("buffer", "return"))>>,
         <<Stamp>>, <<Put("buffer"), Put("fd")>>, "timing")
can_open_raw_device ==
  Source(Linear(0, 0), try_open_raw_device, << >>, <<Put("fd")>>, "none")

\* At most 50 devices are released in a walk: the one fetched after them, when
\* there is one, is not.
usb_enumeration ==
  Sampler(Linear(2, 32),
          <<Try("next"), Get("iterator", "on"),
            If({"iterator"}, Get("devices", "on")), If({"devices"}, Put("devices")),
            If({"iterator"}, Get("device51", "on")),
            If({"iterator"}, Put("iterator")), Filter>>, "timing")

-------------------------------- (* gpu *) ----------------------------------

\* MetalState::new releases by hand what it has when a later object is
\* refused; its Drop releases the five objects it keeps.
MetalState ==
  LET New(r, F) == Freeing(F, Get(r, "return"))
      Two  == {"device", "queue"}
  IN <<New("device", {}), New("queue", {"device"}), New("source", Two),
       New("library", Two \cup {"source"}), Put("source"),
       New("function", Two \cup {"library"}),
       New("pipeline", Two \cup {"library", "function"}), Put("function"), Put("library"),
       New("buffers", Two \cup {"pipeline"})>>
DropMetalState == <<Put("buffers"), Put("pipeline"), Put("queue"), Put("device")>>

\* dispatch gives None before it commits or when the output is not mapped.
gpu_divergence ==
  Source(Linear(2, 64), MetalState, <<Try("next"), Stamp>>, DropMetalState, "timing")
metal_available == Source(Linear(0, 0), MetalState, << >>, DropMetalState, "none")

\* The result of the second lock is not looked at.
crossing_cycle ==
  <<Get("dict", "next"), Get("number", "on"), If({"number"}, Put("number")),
    Freeing({"dict"}, Get("surface", "next")), Put("dict"),
    Freeing({"surface"}, Get("lock", "next")), Put("lock"),
    Get("lock", "on"), Put("lock"), Put("surface")>>
iosurface_crossing  == Sampler(Linear(4, 64), crossing_cycle \o <<Stamp>>, "timing")
iosurface_available == Probe(1, crossing_cycle)

\* The recognizer is released by hand; the strings are autoreleased.
nl_inference_timing ==
  Source(Linear(1, 64), <<Try("return"), Try("return"), Get("recognizer", "return")>>,
         <<Try("break"), Try("next"), Filter>>, <<Put("recognizer")>>, "timing")

-------------------- (* sources, fallbacks and probes *) --------------------

KernelScripts ==
  [clock_jitter |-> clock_jitter, mach_timing |-> mach_timing,
   mach_continuous_timing |-> mach_continuous_timing,
   commpage_clock_timing |-> commpage_clock_timing, dram_row_buffer |-> dram_row_buffer,
   page_fault_timing |-> page_fault_timing, ane_timing |-> ane_timing,
   has_ane_services |-> has_ane_services, keychain_read |-> keychain_read,
   keychain_write |-> keychain_write, kqueue_events |-> kqueue_events,
   mach_ipc |-> mach_ipc, mach_ipc_plain |-> mach_ipc_plain,
   mach_ipc_simple |-> mach_ipc_simple, pipe_buffer |-> pipe_buffer,
   collect_single_pipe |-> collect_single_pipe, disk_io |-> disk_io,
   fsync_journal |-> fsync_journal, nvme_iokit_sensors |-> nvme_iokit_sensors,
   has_nvme_services |-> has_nvme_services,
   nvme_passthrough_linux |-> nvme_passthrough_linux,
   has_nvme_passthrough |-> has_nvme_passthrough, nvme_raw_device |-> nvme_raw_device,
   can_open_raw_device |-> can_open_raw_device, usb_enumeration |-> usb_enumeration,
   gpu_divergence |-> gpu_divergence, metal_available |-> metal_available,
   iosurface_crossing |-> iosurface_crossing, iosurface_available |-> iosurface_available,
   nl_inference_timing |-> nl_inference_timing]
=============================================================================
