----------------------------- MODULE ChildProcess -----------------------------
(***************************************************************************)
(* One command run by a source or by the telemetry: the child process, the *)
(* pipe its output goes through, and the helper that polls it until a      *)
(* deadline.  There are three ways of doing it:                            *)
(*   "drained"   run_command_output_timeout of helpers.rs: a thread reads  *)
(*               the pipe while the helper polls                           *)
(*   "undrained" run_command_timed of wifi_rssi.rs, get_bluetooth_info_    *)
(*               timed of bluetooth.rs, run_command of telemetry.rs: the   *)
(*               pipe is read when the child has ended                     *)
(*   "silent"    spotlight_timing.rs: the output goes nowhere              *)
(***************************************************************************)
EXTENDS Integers

CONSTANTS PipeSize,    \* what the pipe holds
          MaxOutput    \* bound: the longest output of a command

ASSUME PipeAssumption == PipeSize \in Nat \ {0} /\ MaxOutput \in Nat

VARIABLES
  helper,    \* which of the three
  pc,        \* where the helper is
  child,     \* the process
  reaped,    \* it has been waited for
  heir,      \* a process of its own outlives it and holds the pipe open
  output,    \* all it writes if nothing stops it
  left,      \* what it has not written yet
  pipe,      \* what is in the pipe
  got,       \* what has been read from it
  reader,    \* the thread that drains it
  result     \* what the helper returned: a length, or None
command == <<helper, pc, child, reaped, heir, output, left, pipe, got, reader, result>>

None == -1
Alive == child \in {"running", "hung"}
Open  == Alive \/ (heir /\ child # "none")     \* somebody may still write

CommandTypeOK ==
  /\ helper \in {"drained", "undrained", "silent"}
  /\ pc \in {"idle", "poll", "late", "kill", "wait", "read", "join", "discard", "returned", "abandoned"}
  /\ child \in {"none", "running", "hung", "exited", "failed", "killed"}
  /\ reader \in {"none", "reading", "done"}
  /\ pipe \in 0 .. PipeSize /\ {output, left, got} \subseteq 0 .. MaxOutput
  /\ reaped \in BOOLEAN /\ heir \in BOOLEAN /\ result \in {None} \cup 0 .. MaxOutput

CommandInit ==
  /\ helper = "silent" /\ pc = "idle" /\ child = "none" /\ reader = "none"
  /\ reaped = FALSE /\ heir = FALSE /\ result = None
  /\ output = 0 /\ left = 0 /\ pipe = 0 /\ got = 0

Return(r) == pc' = "returned" /\ result' = r

------------------------------- (* the child *) -----------------------------

Write ==
  /\ child = "running" /\ left > 0
  /\ left' = left - 1
  /\ IF helper = "silent" THEN pipe' = pipe ELSE pipe < PipeSize /\ pipe' = pipe + 1
  /\ UNCHANGED <<helper, pc, child, reaped, heir, output, got, reader, result>>

Ends ==
  /\ child = "running"
  /\ child' \in (IF left = 0 THEN {"exited"} ELSE {}) \cup {"failed", "hung"}
  /\ UNCHANGED <<helper, pc, reaped, heir, output, left, pipe, got, reader, result>>

------------------------------ (* the helper *) -----------------------------

\* Command::spawn, then `Drain stdout concurrently' where that is done.
Reader(h) == IF h = "drained" THEN "reading" ELSE "none"
Spawn ==
  /\ pc \in {"idle", "returned", "abandoned"}
  /\ helper' \in {"drained", "undrained", "silent"}
  /\ output' \in 0 .. MaxOutput /\ left' = output' /\ heir' \in BOOLEAN
  /\ pc' = "poll" /\ child' = "running" /\ reaped' = FALSE /\ result' = None
  /\ pipe' = 0 /\ got' = 0 /\ reader' = Reader(helper')

SpawnFails ==
  /\ pc = "idle"
  /\ Return(None)
  /\ UNCHANGED <<helper, child, reaped, heir, output, left, pipe, got, reader>>

\* try_wait finds that the child has ended, and reaps it.
Reaps ==
  /\ pc = "poll" /\ child \in {"exited", "failed"}
  /\ reaped' = TRUE
  /\ CASE helper = "drained" -> pc' = "join" /\ result' = None
       [] helper = "undrained" /\ child = "exited" -> pc' = "read" /\ result' = None
       [] OTHER -> Return(None)
  /\ UNCHANGED <<helper, child, heir, output, left, pipe, got, reader>>

\* It has not ended, and the deadline is over; until it is, the helper sleeps
\* and polls again.
Expires ==
  /\ pc = "poll" /\ Alive
  /\ pc' = "late"
  /\ UNCHANGED <<helper, child, reaped, heir, output, left, pipe, got, reader, result>>

\* try_wait itself fails.  Only run_command_output_timeout does anything then,
\* the others leave the child to itself.
PollFails ==
  /\ pc = "poll"
  /\ pc' = IF helper = "drained" THEN "late" ELSE "abandoned"
  /\ result' = None
  /\ UNCHANGED <<helper, child, reaped, heir, output, left, pipe, got, reader>>

Kill ==
  /\ pc = "late"
  /\ child' = IF Alive THEN "killed" ELSE child
  /\ pc' = "wait"
  /\ UNCHANGED <<helper, reaped, heir, output, left, pipe, got, reader, result>>

AfterWaitReturned(h) == "returned"
AfterWait(h) == IF h = "drained" THEN "discard" ELSE "returned"
Wait ==
  /\ pc = "wait" /\ ~Alive
  /\ reaped' = TRUE /\ pc' = AfterWait(helper) /\ result' = None
  /\ UNCHANGED <<helper, child, heir, output, left, pipe, got, reader>>

\* read_to_end by the helper, after the end of the child.
ReadAtEnd ==
  /\ pc = "read"
  /\ IF pipe > 0 THEN got' = got + 1 /\ pipe' = pipe - 1 /\ UNCHANGED <<pc, result>>
     ELSE ~Open /\ Return(IF got = 0 THEN None ELSE got) /\ UNCHANGED <<got, pipe>>
  /\ UNCHANGED <<helper, child, reaped, heir, output, left, reader>>

Join ==
  /\ pc \in {"join", "discard"} /\ reader = "done"
  /\ Return(IF pc = "join" /\ child = "exited" THEN got ELSE None)
  /\ UNCHANGED <<helper, child, reaped, heir, output, left, pipe, got, reader>>

------------------------------ (* the reader *) -----------------------------

Drain ==
  /\ reader = "reading"
  /\ IF pipe > 0 THEN got' = got + 1 /\ pipe' = pipe - 1 /\ reader' = reader
     ELSE ~Open /\ reader' = "done" /\ UNCHANGED <<got, pipe>>
  /\ UNCHANGED <<helper, pc, child, reaped, heir, output, left, result>>

CommandNext ==
  \/ Write \/ Ends \/ Spawn \/ SpawnFails \/ Reaps \/ Expires \/ PollFails
  \/ Kill \/ Wait \/ ReadAtEnd \/ Join \/ Drain

\* The deadline comes, threads are scheduled; commands need not be run, and
\* need not end.
CommandFairness ==
  /\ WF_command(Reaps \/ Expires) /\ WF_command(Kill) /\ WF_command(Wait)
  /\ WF_command(ReadAtEnd) /\ WF_command(Join) /\ WF_command(Drain)
=============================================================================
