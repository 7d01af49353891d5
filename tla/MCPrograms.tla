------------------------------ MODULE MCPrograms ------------------------------
(***************************************************************************)
(* The programs that sources start, a command run to its end and the       *)
(* camera's, which is kept, and the programs that draw from the pool.      *)
(* They share nothing, so one of them runs in each behaviour.              *)
(***************************************************************************)
EXTENDS ChildProcess, Camera, Clients, Benchmark

VARIABLE part
all == <<part, command, vars_camera, clients, bench>>

Init ==
  /\ part \in {"command", "camera", "client", "bench"}
  /\ CommandInit /\ CameraInit /\ BenchInit
  /\ IF part = "client" THEN \E c \in {"one", "pool", "fifo", "record", "server"} : ClientInit(c)
     ELSE ClientInit("server") /\ mode = "Raw" /\ goal = 0

Next ==
  /\ UNCHANGED part
  /\ \/ part = "command" /\ CommandNext /\ UNCHANGED <<vars_camera, clients, bench>>
     \/ part = "camera" /\ CameraNext /\ UNCHANGED <<command, clients, bench>>
     \/ part = "client" /\ ClientNext /\ UNCHANGED <<command, vars_camera, bench>>
     \/ part = "bench" /\ BenchNext /\ UNCHANGED <<command, vars_camera, clients>>

\* The pool collects from the camera again and again, and its threads run.
CameraFairness ==
  /\ WF_vars_camera(part = "camera" /\ CollectStep)
  /\ \A id \in Ids : WF_vars_camera(part = "camera" /\ ReaderEnds(id))

Spec == Init /\ [][Next]_all /\ CommandFairness /\ CameraFairness /\ ClientFairness

-------------------------------- (* commands *) -----------------------------

\* A helper that returns leaves nothing behind, neither a process nor a thread,
\* unless it could not ask after the child; what it returns is all the command
\* wrote, never a part; and a child that waits for room in the pipe of
\* run_command_output_timeout has a thread that makes room.
CommandSound ==
  /\ CommandTypeOK
  /\ pc = "returned" /\ child # "none" => reaped /\ reader # "reading"
  /\ result # None => result = output /\ child = "exited"
  /\ helper = "drained" /\ child = "running" /\ pipe = PipeSize => reader = "reading"

\* There is never a second camera process, none is left when collect returns
\* but the one that is kept, and none is dropped that has not died.
CameraSound ==
  /\ CameraTypeOK
  /\ Cardinality(Running) <= 1
  /\ at = "idle" => Running \subseteq {camera}
  /\ at = "check" => ffmpeg[camera] = "dead"

\* A helper returns whether its command ends, hangs or waits for the pipe
\* (unless a process that outlives the command keeps the pipe open), and a
\* camera process that has died is not kept.
ChildrenEnd ==
  /\ (pc = "poll" /\ ~heir) ~> (pc \in {"returned", "abandoned"})
  /\ \A id \in Ids : (camera = id /\ ffmpeg[id] = "dead") ~> (camera # id)

--------------------------------- (* clients *) -----------------------------

\* A stream writes no more than it was asked for, and as much when it says so;
\* once its handler is installed the named pipe goes with the program; after
\* Ctrl-C or the end of its duration a recording begins at most one sweep more;
\* and an answer never has values for bytes it does not count, leaves out at
\* most an odd one, and is whole when it was hashed.
ClientsSound ==
  /\ Streams /\ goal > 0 => total <= goal /\ (ending = "complete" => total = goal)
  /\ Fifo /\ step = "ended" /\ handler => ~node
  /\ sweeps <= 1
  /\ client = "server" =>
       /\ data <= total /\ total <= goal /\ total - data <= 1
       /\ ending = "served" /\ mode = "Sha256" => data = goal

\* A stream of so many bytes ends, unless it debiases one source; a reader that
\* opens the named pipe is served, or the program ends; a recording ends once
\* it is told to, or its duration is over, as it will be.
ClientsEnd ==
  /\ (Streams /\ goal > 0 /\ (client = "pool" \/ mode # "VonNeumann")) ~> (step = "ended")
  /\ (Fifo /\ partner = "waiting") ~> (partner # "waiting" \/ step = "ended")
  /\ (Recording /\ (stop \/ Limited)) ~> (step = "ended")

------------------------------- (* benchmark *) -----------------------------

\* However late its workers are, a source has no more rounds of success than
\* collections that gave bytes between the snapshot and the last report, and
\* each failure of that time once; a worker counts once, and once more when it
\* was given up, and once at least when it has ended; and a healthy row is of a
\* source that gave bytes, and its score is above zero.
BenchmarkSound ==
  /\ BenchTypeOK
  /\ \A s \in Measured :
       /\ accum[s].success_rounds <= prev[s].bytes - first[s].bytes
       /\ round > WarmupRounds => accum[s].failures = prev[s].failures - first[s].failures
       /\ counters[s].bytes <= launches[s]
       /\ counters[s].bytes + counters[s].failures <= 2 * launches[s]
       /\ worker[s] = "none" => counters[s].bytes + counters[s].failures >= launches[s]
       /\ phase = "done" /\ Row(s).healthy => counters[s].bytes > 0 /\ Row(s).score > 0
=============================================================================
