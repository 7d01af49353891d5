-------------------------------- MODULE Clients -------------------------------
(***************************************************************************)
(* The programs that draw from a pool: `stream' to standard output, from   *)
(* one source or from the pool, `stream' to a named pipe, `record', and    *)
(* the server's handler of /api/v1/random.  Of the pool and of a source    *)
(* only the sizes of what they give are modelled.                          *)
(***************************************************************************)
EXTENDS Integers, FiniteSetsExt

CONSTANTS Chunk,     \* the most that stream asks for at once
          MaxBytes,  \* bound: the longest output asked for
          Sources    \* those that are recorded

ASSUME ClientAssumption == Chunk \in Nat \ {0} /\ MaxBytes \in Nat \ {0} /\ IsFiniteSet(Sources)

VARIABLES
  client,     \* "one", "pool", "fifo", "record", "server"
  mode,       \* the conditioning
  goal,       \* --bytes, zero for no end; the length of a request
  step,       \* where the program is
  total,      \* what it has written, or recorded
  data,       \* what it has been given and not yet written
  stop,       \* record: Ctrl-C has cleared `running'
  expired,    \* record: the duration is over
  sweeps,     \* record: sweeps begun since one of the two
  ending,     \* why a stream ended
  node,       \* fifo: the path exists
  handler,    \* fifo: the signal handler is installed
  partner     \* fifo: a reader: "none", "waiting", "open"
clients == <<client, mode, goal, step, total, data, stop, expired, sweeps, ending, node, handler, partner>>

Modes == {"Raw", "VonNeumann", "Sha256"}
Smaller(x, y) == IF x < y THEN x ELSE y

ClientInit(c) ==
  /\ client = c /\ mode \in Modes /\ goal \in 0 .. MaxBytes
  /\ step = IF c = "fifo" THEN "mkfifo" ELSE "loop"
  /\ total = 0 /\ data = 0 /\ stop = FALSE /\ expired = FALSE /\ sweeps = 0 /\ ending = "none"
  /\ node = FALSE /\ handler = FALSE /\ partner = "none"

Untouched == UNCHANGED <<client, mode, goal>>
NoFifo    == UNCHANGED <<node, handler, partner>>
NoRecord  == UNCHANGED <<stop, expired, sweeps>>

------------------------------ (* stream, stdout *) -------------------------

Streams == client \in {"one", "pool"}
want == IF goal = 0 THEN Chunk ELSE Smaller(Chunk, goal - total)

\* What condition makes of raw bytes: debiasing keeps at most four bits of a
\* byte, and only whole bytes of them.
Conditioned(raw, n) ==
  CASE mode = "Raw"        -> {Smaller(raw, n)}
    [] mode = "VonNeumann" -> 0 .. Smaller(raw \div 2, n)
    [] mode = "Sha256"     -> {n}

\* get_bytes of the pool.
PoolGives(n) == IF mode = "Sha256" THEN {n} ELSE 0 .. n

Ended(why) == step' = "ended" /\ ending' = why

StreamAll ==
  /\ Streams /\ step = "loop" /\ goal > 0 /\ total >= goal
  /\ Ended("complete")
  /\ Untouched /\ NoFifo /\ NoRecord /\ UNCHANGED <<total, data>>

\* A source that gives nothing ends the stream, one that gives bytes of which
\* none are left after conditioning does not.
StreamSource ==
  /\ client = "one" /\ step = "loop" /\ (goal = 0 \/ total < goal)
  /\ \E raw \in 0 .. want :
       \/ raw = 0 /\ Ended("dry") /\ data' = data
       \/ raw > 0 /\ data' \in Conditioned(raw, want) /\ step' = "write" /\ UNCHANGED ending
  /\ Untouched /\ NoFifo /\ NoRecord /\ UNCHANGED total

StreamPool ==
  /\ client = "pool" /\ step = "loop" /\ (goal = 0 \/ total < goal)
  /\ data' \in PoolGives(want) /\ step' = "write"
  /\ Untouched /\ NoFifo /\ NoRecord /\ UNCHANGED <<total, ending>>

\* Without an end the count is of no use: it stops at MaxBytes here.
Written(t, d) == IF goal = 0 THEN Smaller(t + d, MaxBytes) ELSE t + d
StreamWrite ==
  /\ Streams /\ step = "write"
  /\ total' = Written(total, data) /\ data' = 0 /\ step' = "loop"
  /\ Untouched /\ NoFifo /\ NoRecord /\ UNCHANGED ending

StreamBroken ==
  /\ Streams /\ step = "write" /\ data > 0
  /\ Ended("broken")
  /\ Untouched /\ NoFifo /\ NoRecord /\ UNCHANGED <<total, data>>

------------------------------ (* stream, fifo *) ---------------------------

Fifo == client = "fifo"
FifoUnchanged == Untouched /\ NoRecord /\ UNCHANGED <<total>>

\* mkfifo, or the path is a FIFO already.
MakeFifo ==
  /\ Fifo /\ step = "mkfifo"
  /\ node' = TRUE /\ step' = "install"
  /\ FifoUnchanged /\ UNCHANGED <<data, ending, handler, partner>>

InstallHandler ==
  /\ Fifo /\ step = "install"
  /\ handler' = TRUE /\ step' = "open"
  /\ FifoUnchanged /\ UNCHANGED <<data, ending, node, partner>>

\* open waits for a reader.
OpenFifo ==
  /\ Fifo /\ step = "open" /\ partner # "none"
  /\ partner' = "open" /\ step' = "feed"
  /\ FifoUnchanged /\ UNCHANGED <<data, ending, node, handler>>

OpenRefused ==
  /\ Fifo /\ step = "open"
  /\ node' = FALSE /\ Ended("unopened")
  /\ FifoUnchanged /\ UNCHANGED <<data, handler, partner>>

Feed ==
  /\ Fifo /\ step = "feed"
  /\ data' \in PoolGives(1) /\ step' = "put"
  /\ FifoUnchanged /\ UNCHANGED <<ending, node, handler, partner>>

\* write_all of nothing succeeds whether there is a reader or not.
Put ==
  /\ Fifo /\ step = "put"
  /\ step' = IF data > 0 /\ partner = "none" THEN "open" ELSE "feed"
  /\ partner' = IF data > 0 /\ partner = "waiting" THEN "open" ELSE partner
  /\ data' = 0
  /\ FifoUnchanged /\ UNCHANGED <<ending, node, handler>>

ReaderComes ==
  /\ Fifo /\ node /\ partner = "none" /\ step # "ended"
  /\ partner' = "waiting"
  /\ FifoUnchanged /\ UNCHANGED <<step, data, ending, node, handler>>
ReaderLeaves ==
  /\ Fifo /\ partner # "none" /\ step # "ended"
  /\ partner' = "none"
  /\ FifoUnchanged /\ UNCHANGED <<step, data, ending, node, handler>>

\* SIGINT or SIGTERM: unlink and _exit, or the default action when the handler
\* is not there yet.
Signal ==
  /\ Fifo /\ step # "ended"
  /\ node' = (node /\ ~handler) /\ Ended("signal")
  /\ FifoUnchanged /\ UNCHANGED <<data, handler, partner>>

-------------------------------- (* record *) -------------------------------

Recording == client = "record"
Limited == goal > 0        \* --duration was given
RecordUnchanged == Untouched /\ NoFifo /\ UNCHANGED ending

Interrupt ==
  /\ Recording /\ step # "ended" /\ ~stop
  /\ stop' = TRUE
  /\ RecordUnchanged /\ UNCHANGED <<step, total, data, expired, sweeps>>
DurationOver ==
  /\ Recording /\ step # "ended" /\ Limited /\ ~expired
  /\ expired' = TRUE
  /\ RecordUnchanged /\ UNCHANGED <<step, total, data, stop, sweeps>>

\* The loop's condition, then the two tests of the duration; the time may run
\* out between them and the sweep.
LoopUntilInterrupt ==
  /\ Recording /\ step = "loop"
  /\ step' = IF stop THEN "finish" ELSE "sweep"
  /\ RecordUnchanged /\ UNCHANGED <<total, data, stop, expired, sweeps>>
LoopTest ==
  /\ Recording /\ step = "loop"
  /\ step' = IF stop \/ expired THEN "finish" ELSE "sweep"
  /\ RecordUnchanged /\ UNCHANGED <<total, data, stop, expired, sweeps>>

Sweep ==
  /\ Recording /\ step = "sweep"
  /\ data' \in 0 .. Cardinality(Sources)          \* so many have answered
  /\ step' = "write"
  /\ sweeps' = Smaller(2, sweeps + (IF stop \/ expired THEN 1 ELSE 0))   \* two are too many
  /\ RecordUnchanged /\ UNCHANGED <<total, stop, expired>>

WriteSample ==
  /\ Recording /\ step = "write" /\ data > 0
  /\ data' = data - 1 /\ total' = Smaller(total + 1, MaxBytes)
  /\ RecordUnchanged /\ UNCHANGED <<step, stop, expired, sweeps>>
WriteFails ==
  /\ Recording /\ step = "write" /\ data > 0
  /\ data' = 0 /\ step' = "finish"
  /\ RecordUnchanged /\ UNCHANGED <<total, stop, expired, sweeps>>
SweepWritten ==
  /\ Recording /\ step = "write" /\ data = 0
  /\ step' = "sleep"
  /\ RecordUnchanged /\ UNCHANGED <<total, data, stop, expired, sweeps>>

\* The interval, in naps of ten milliseconds: over, cut by the duration, or by
\* Ctrl-C.
AwakeToSweep ==
  /\ Recording /\ step = "sleep"
  /\ step' = "sweep"
  /\ RecordUnchanged /\ UNCHANGED <<total, data, stop, expired, sweeps>>
Awake ==
  /\ Recording /\ step = "sleep"
  /\ step' = "loop"
  /\ RecordUnchanged /\ UNCHANGED <<total, data, stop, expired, sweeps>>

Finish ==
  /\ Recording /\ step = "finish"
  /\ step' = "ended" /\ ending' \in {"saved", "unsaved"}
  /\ Untouched /\ NoFifo /\ UNCHANGED <<total, data, stop, expired, sweeps>>

-------------------------------- (* server *) -------------------------------

Width(type) == IF type = "uint8" THEN 1 ELSE 2
Refusal(status) == [status |-> status, length |-> 0, value_count |-> 0]

NoBytes == -1

\* What get_source_bytes gives of one source: nothing for a name nobody has, nor
\* when the source itself gave nothing.
SourceGives(known, n) ==
  IF ~known THEN {NoBytes} ELSE {NoBytes} \cup (IF mode = "Sha256" THEN {n} ELSE 0 .. n)
\* 16-bit values are cut from the bytes in pairs, and an odd byte has none.
Serialized(n, type) == [status |-> 200, length |-> n, value_count |-> n \div Width(type)]

\* The answers to a request for `goal' bytes.
handle_random(type, allow_raw, named, known) ==
  IF goal = 0 \/ goal % Width(type) # 0 THEN {Refusal(400)}
  ELSE IF mode = "Raw" /\ ~allow_raw THEN {Refusal(403)}
  ELSE {IF n = NoBytes THEN Refusal(400) ELSE Serialized(n, type) :
          n \in IF named THEN SourceGives(known, goal) ELSE PoolGives(goal)}

Arrives ==
  /\ client = "server" /\ step = "loop"
  /\ mode' \in Modes /\ goal' \in 0 .. MaxBytes
  /\ step' = "handle" /\ ending' = "none" /\ total' = 0 /\ data' = 0
  /\ UNCHANGED client /\ NoFifo /\ NoRecord

Answer ==
  /\ client = "server" /\ step = "handle"
  /\ \E type \in {"hex16", "uint8", "uint16"}, allow_raw, named, known \in BOOLEAN :
       \E answer \in handle_random(type, allow_raw, named, known) :
         /\ total' = answer.length
         /\ data' = answer.value_count * Width(type)
         /\ ending' = IF answer.status = 200 THEN "served" ELSE "refused"
  /\ step' = "loop"
  /\ Untouched /\ NoFifo /\ NoRecord

ClientNext ==
  \/ StreamAll \/ StreamSource \/ StreamPool \/ StreamWrite \/ StreamBroken
  \/ MakeFifo \/ InstallHandler \/ OpenFifo \/ OpenRefused \/ Feed \/ Put
  \/ ReaderComes \/ ReaderLeaves \/ Signal
  \/ Interrupt \/ DurationOver \/ LoopTest \/ Sweep \/ WriteSample \/ WriteFails
  \/ SweepWritten \/ Awake \/ Finish
  \/ Arrives \/ Answer

\* The programs run on and the calls of the pool return; again and again the
\* pool, or the source, gives what it can.  Readers, signals and broken pipes
\* may never come.
Fruitful == (StreamSource \/ StreamPool \/ Feed) /\ data' > 0
ClientFairness ==
  /\ WF_clients(StreamAll) /\ WF_clients(StreamSource \/ StreamPool) /\ WF_clients(StreamWrite)
  /\ SF_clients(Fruitful)
  /\ WF_clients(MakeFifo) /\ WF_clients(InstallHandler)
  /\ WF_clients(OpenFifo) /\ WF_clients(Feed) /\ WF_clients(Put)
  /\ WF_clients(LoopTest) /\ WF_clients(Sweep) /\ WF_clients(WriteSample \/ WriteFails)
  /\ WF_clients(SweepWritten) /\ WF_clients(Awake) /\ WF_clients(Finish)
  /\ WF_clients(DurationOver)

\* A stream of one source on its own, and what --bytes promises of it: an
\* output of so many bytes, not one without end.
StreamSpec ==
  /\ ClientInit("one")
  /\ [][StreamAll \/ StreamSource \/ StreamWrite \/ StreamBroken]_clients
  /\ ClientFairness
StreamIsFinite == goal > 0 ~> step = "ended"
=============================================================================
