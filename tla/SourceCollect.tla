---------------------------- MODULE SourceCollect ---------------------------
(***************************************************************************)
(* One call of collect(n_samples), or of is_available(), of one hardware   *)
(* source: the interpreter of the scripts in Sources*.  Every system call  *)
(* may be refused wherever the code has a way to go on, and at most        *)
(* MaxRounds rounds of a loop are walked through: enough for what a round  *)
(* leaves behind to meet the next one.                                     *)
(***************************************************************************)
EXTENDS SourcesChip, SourcesHost

CONSTANT MaxRounds
ASSUME MaxRoundsAssumption == MaxRounds \in Nat \ {0}

Scripts ==
  [s \in DOMAIN KernelScripts \cup DOMAIN ChipScripts \cup DOMAIN HostScripts |->
     IF s \in DOMAIN KernelScripts THEN KernelScripts[s]
     ELSE IF s \in DOMAIN ChipScripts THEN ChipScripts[s] ELSE HostScripts[s]]

Fallback == [mach_ipc |-> "mach_ipc_simple", mach_ipc_plain |-> "mach_ipc_simple",
             pipe_buffer |-> "collect_single_pipe"]

VARIABLES source,     \* the source that is asked
          n,          \* n_samples
          part, at,   \* where in its script the call is; "done" when it is over
          round,      \* the rounds that are over
          held,       \* the resources the process holds
          lost,       \* those taken again while held: nobody can release them
          stray,      \* those released while not held
          loans,      \* [by, of]: a thread or block that will use a resource
          gap,        \* a round did not take all its timings
          how,        \* how the call ended
          out         \* the bytes it gave

vars == <<source, n, part, at, round, held, lost, stray, loans, gap, how, out>>
place == <<part, at, round>>
result == <<how, out>>

Script  == Scripts[source]
Steps   == Script[part]
Current == Steps[at]
Running == part # "done" /\ at <= Len(Steps)
Here(what) == Running /\ Current.what \in what /\ Current.need \subseteq held

\* What the code's Drop implementations release when a part is left.
Owned(p) == {Script[p][i].on : i \in {j \in DOMAIN Script[p] : Script[p][j].what = "own"}}

TypeOK ==
  /\ source \in DOMAIN Scripts /\ n \in Sizes
  /\ part \in {"setup", "body", "teardown", "done"} /\ at \in Nat \ {0}
  /\ round \in 0 .. MaxRounds
  /\ how \in {"", "finish", "return", "found", "panic"} /\ out \in Nat /\ gap \in BOOLEAN

Init ==
  /\ source \in DOMAIN Scripts /\ n \in Sizes
  /\ part = "setup" /\ at = 1 /\ round = 0
  /\ held = {} /\ lost = {} /\ stray = {} /\ loans = {} /\ gap = FALSE
  /\ how = "" /\ out = 0

------------------------------- (* yields *) --------------------------------

Least(a, b)   == IF a < b THEN a ELSE b
Less(t, k, m) == IF t < k THEN 0 ELSE Least(t - k, m)

\* The numbers of bytes each extractor can make of t timings.  Debiasing keeps
\* only the pairs of deltas that differ, and eight of those make a byte.
extract_timing_entropy(t, m)          == {IF t < 2 THEN 0 ELSE Least(t - 2, m)}
extract_timing_entropy_variance(t, m) == {IF t < 4 THEN 0 ELSE Least(t - 3, m)}
extract_timing_entropy_debiased(t, m) ==
  0 .. IF t < 4 THEN 0 ELSE Least(((t - 1) \div 2) \div 8, m)

Yield(kind, t, m) ==
  CASE kind = "timing"   -> extract_timing_entropy(t, m)
    [] kind = "guarded"  -> IF t < 4 THEN {0} ELSE extract_timing_entropy(t, m)
    [] kind = "variance" -> extract_timing_entropy_variance(t, m)
    [] kind = "debiased" -> extract_timing_entropy_debiased(t, m)
    [] kind = "pairs"    -> extract_timing_entropy_debiased(t \div 2, m)
    [] kind = "bytes"    -> {Least(t, m)}
    [] kind = "topped"   -> {IF t = 0 THEN 0 ELSE Least((t - 1) + t, m)}
    [] kind = "some"     -> {0, m}
    [] kind = "none"     -> {0}

\* With every round's timings there are raw * per; without, any smaller number,
\* of which the ones around the extractors' thresholds are tried.
Full == Script.raw[n] * Script.per
Timings == IF gap THEN {t \in (0 .. 5) \cup {Full - 1} : t < Full} ELSE {Full}

------------------------------- (* moves *) ---------------------------------

Advance == at' = at + 1 /\ UNCHANGED <<part, round>>

\* Leave the body (or, without a round, the setup) for the teardown.
ToTeardown == part' = "teardown" /\ at' = 1 /\ UNCHANGED round

\* A round is over: the next one, or the teardown.
NextRound ==
  /\ round' = round + 1 /\ at' = 1
  /\ part' = IF round' < Least(MaxRounds, Script.raw[n]) THEN "body" ELSE "teardown"

End(h) == part' = "done" /\ at' = 1 /\ how' = h /\ UNCHANGED round

\* Where a refused step leads, and what is released on the way there.
Jump(go, H) ==
  LET inner == H \ Owned("body")
      every == inner \ Owned("setup")
  IN \/ /\ go = "on"    /\ Advance    /\ held' = H     /\ UNCHANGED <<source, result>>
     \/ /\ go = "next"  /\ NextRound  /\ held' = inner /\ UNCHANGED <<source, result>>
     \/ /\ go = "break" /\ ToTeardown /\ held' = inner /\ UNCHANGED <<source, result>>
     \/ /\ go \in {"return", "found", "panic"}
        /\ End(go) /\ held' = every /\ UNCHANGED <<source, out>>
     \/ /\ go = "switch" /\ source \in DOMAIN Fallback
        /\ source' = Fallback[source] /\ part' = "setup" /\ at' = 1
        /\ held' = every /\ UNCHANGED <<round, result>>

------------------------------- (* steps *) ---------------------------------

\* A step whose resources are not there is passed over.
Skip ==
  /\ Running /\ ~(Current.need \subseteq held)
  /\ Advance
  /\ gap' = (gap \/ Current.what = "stamp")
  /\ UNCHANGED <<source, n, held, lost, stray, loans, result>>

Acquire ==
  /\ Here({"get", "own"})
  /\ held' = held \cup {Current.on}
  /\ lost' = lost \cup ({Current.on} \cap held)
  /\ Advance /\ UNCHANGED <<source, n, stray, loans, gap, result>>

Release ==
  /\ Here({"put"})
  /\ held' = held \ {Current.on}
  /\ stray' = stray \cup ({Current.on} \ held)
  /\ Advance /\ UNCHANGED <<source, n, lost, loans, gap, result>>

\* A try that succeeds, a resource that is there, a timing that is in range.
Pass ==
  /\ Here({"try", "require", "stamp"})
  /\ Current.what = "require" => Current.on \in held
  /\ Advance /\ UNCHANGED <<source, n, held, lost, stray, loans, gap, result>>

\* Hand resources to a new thread, or to a block that is queued.
Hand ==
  /\ Here({"spawn", "post"})
  /\ held' = IF Current.what = "spawn" THEN held \cup {Current.on} ELSE held
  /\ loans' = loans \cup {[by |-> Current.on, of |-> r] : r \in Current.uses \cap held}
  /\ Advance /\ UNCHANGED <<source, n, lost, stray, gap, result>>

\* A thread ends when it is told to; a block signals once it has run.
Rejoin ==
  /\ Here({"join"})
  /\ Current.go = "on" => \A l \in loans : l.by # Current.on
  /\ held' = held \ {Current.on}
  /\ loans' = {l \in loans : l.by # Current.on}
  /\ Advance /\ UNCHANGED <<source, n, lost, stray, gap, result>>

\* The queue gets round to a block, whatever the call is doing meanwhile.
BlockRuns ==
  \E l \in loans :
    /\ l.by \notin held
    /\ loans' = loans \ {l}
    /\ UNCHANGED <<source, n, place, held, lost, stray, gap, result>>

Refuse ==
  /\ Here({"get", "own", "put", "try", "require", "spawn", "join", "stamp"})
  /\ Current.go # "never"
  /\ Current.what = "require" => Current.on \notin held
  /\ Current.what = "join" => \E l \in loans : l.by = Current.on
  /\ Jump(Current.go, held \ Current.free)
  /\ gap' = (gap \/ Current.go \in {"next", "break"} \/ Current.what = "stamp")
  /\ UNCHANGED <<n, lost, stray, loans>>

------------------------------- (* ends *) ----------------------------------

SetUp ==
  /\ part = "setup" /\ at > Len(Steps)
  /\ part' = IF Script.raw[n] > 0 THEN "body" ELSE "teardown"
  /\ at' = 1
  /\ UNCHANGED <<source, n, round, held, lost, stray, loans, gap, result>>

EndRound ==
  /\ part = "body" /\ at > Len(Steps)
  /\ NextRound
  /\ held' = held \ Owned("body")
  /\ UNCHANGED <<source, n, lost, stray, loans, gap, result>>

Finish ==
  /\ part = "teardown" /\ at > Len(Steps)
  /\ End("finish")
  /\ held' = held \ Owned("setup")
  /\ \E t \in Timings : out' \in Yield(Script.yield, t, n)
  /\ UNCHANGED <<source, n, lost, stray, loans, gap>>

Next == Skip \/ Acquire \/ Release \/ Pass \/ Hand \/ Rejoin \/ BlockRuns \/ Refuse
        \/ SetUp \/ EndRound \/ Finish

Spec == Init /\ [][Next]_vars

----------------------------- (* properties *) ------------------------------

\* What the code does leave behind.  On any way out: the fifty-first USB device,
\* kqueue's file when it cannot be opened again, a child that cannot be waited
\* for.  When thread::spawn panics: what the thread was to be given, and the
\* threads spawned before it, which spin for ever.
KnownLeaks ==
  [usb_enumeration |-> {"device51"}, kqueue_events |-> {"tempfile"},
   wifi_rssi |-> {"child"}, bluetooth_noise |-> {"child"}, spotlight_timing |-> {"child"},
   probe_jit_instruction_safe |-> {"child"}]
KnownLeaksOfPanic ==
  [kqueue_events |-> {"kqueue", "sockets", "watch", "tempfile"}, mach_ipc |-> {"ports"},
   cas_contention |-> {"worker1"}, dvfs_race |-> {"counter1"}]
Known(f) == IF source \in DOMAIN f THEN f[source] ELSE {}

\* Whichever calls the system refuses, a source gives back every descriptor,
\* port, mapping, object, thread and child it took before collect returns: a
\* process that samples for days does not run out of them.
LeaksOnlyKnown ==
  part = "done" =>
    held \cup lost \subseteq
      Known(KnownLeaks) \cup (IF how = "panic" THEN Known(KnownLeaksOfPanic) ELSE {})

\* No way through the error paths releases what is not held, which would be a
\* double free or would close somebody else's descriptor, nor what a thread or a
\* queued block was handed and may still use.  (IOSurface's second unlock follows
\* a lock whose result is not looked at; dispatch_queue_timing releases its
\* semaphore after a wait that timed out, while the block is still queued.)
ReleasedOnce ==
  /\ stray \subseteq IF source \in {"iosurface_crossing", "iosurface_available"}
                     THEN {"lock"} ELSE {}
  /\ source # "dispatch_queue_timing" => \A l \in loans : l.of \in held

\* The sources that stop early, or whose extractor may discard anything.
Capped == {"dvfs_race", "spotlight_timing", "bluetooth_noise", "wifi_rssi"}
Lossy  == {"debiased", "pairs", "some", "none"}

\* A source that got all its timings gives all the bytes asked for: the rounds
\* it oversamples cover what its extractor's deltas consume.
OversamplingSuffices ==
  (how = "finish" /\ ~gap /\ source \notin Capped /\ Script.yield \notin Lossy) => out = n
=============================================================================
