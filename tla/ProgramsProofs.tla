--------------------------- MODULE ProgramsProofs ---------------------------
(***************************************************************************)
(* Proofs about the programs of MCPrograms, for any size of a pipe, any    *)
(* number of camera inputs and processes, any length of output, any        *)
(* sources and any number of rounds.                                       *)
(***************************************************************************)
EXTENDS MCPrograms, FiniteSetTheorems, TLAPS

------------------------------- (* commands *) ------------------------------

\* Nothing of the output is lost or made up between the child and the helper,
\* and a child that has ended well has written all of it.
OutputInv ==
  /\ helper # "silent" => got + pipe + left = output
  /\ helper = "silent" => got = 0 /\ pipe = 0
  /\ child = "exited" => left = 0

\* The thread that drains the pipe is there when it should be, and is done only
\* once nobody can write.
ReaderInv ==
  /\ helper # "drained" => reader = "none"
  /\ helper = "drained" /\ child # "none" => reader # "none"
  /\ reader = "done" => ~Alive /\ pipe = 0

\* What the helper knows where it is.
HelperInv ==
  /\ pc = "idle" => child = "none"
  /\ pc # "returned" => result = None
  /\ pc \in {"read", "join", "discard"} => reaped /\ ~Alive
  /\ pc = "read" => helper = "undrained" /\ child = "exited"
  /\ pc \in {"join", "discard"} => helper = "drained"
  /\ pc = "returned" /\ child # "none" => reaped /\ reader # "reading"
  /\ result # None => result = output /\ child = "exited"

CommandInv == CommandTypeOK /\ OutputInv /\ ReaderInv /\ HelperInv

-------------------------------- (* camera *) -------------------------------

\* A process that runs is the one that is kept or the one that is tried, of
\* which there is one at most; and the kept one has a frame unless it has died.
CameraInv ==
  /\ CameraTypeOK
  /\ Running \subseteq {camera, trying}
  /\ at \in {"try", "await"} => camera = NoCamera
  /\ trying # NoCamera <=> at = "await"
  /\ at \in {"take", "check"} => camera # NoCamera
  /\ camera # NoCamera => latest[camera] \/ ffmpeg[camera] = "dead"
  /\ at = "check" => ffmpeg[camera] = "dead"

-------------------------------- (* clients *) ------------------------------

ClientTypeOK ==
  /\ goal \in Nat /\ total \in Nat /\ data \in Nat /\ mode \in Modes
  /\ stop \in BOOLEAN /\ expired \in BOOLEAN /\ sweeps \in {0, 1}

\* A stream holds no more than it still has to write, and stops when it has
\* written all.
StreamInv ==
  Streams /\ goal > 0 =>
    /\ total <= goal
    /\ step = "write" => total + data <= goal
    /\ ending = "complete" => step = "ended" /\ total = goal

\* The sweep after a stop has begun: no other can.
SweepInv == sweeps = 1 => (stop \/ expired) /\ step # "sweep"

FifoInv == Fifo /\ step = "ended" /\ handler => ~node

AnswerInv ==
  client = "server" =>
    /\ data <= total /\ total <= goal /\ total - data <= 1
    /\ ending = "served" /\ mode = "Sha256" => data = goal

ClientsInv == ClientTypeOK /\ StreamInv /\ SweepInv /\ FifoInv /\ AnswerInv

------------------------------ (* the benchmark *) --------------------------

Counters == [bytes : Nat, failures : Nat, entropy : {0, Good, Flat}, healthy : BOOLEAN]
Snapshots == [bytes : Nat, failures : Nat]
Sums == [success_rounds : Nat, failures : Nat, sum : Nat]

BenchTyped ==
  /\ worker \in [Measured -> {"none", "collecting", "stored"}]
  /\ counters \in [Measured -> Counters]
  /\ prev \in [Measured -> Snapshots] /\ first \in [Measured -> Snapshots]
  /\ accum \in [Measured -> Sums] /\ launches \in [Measured -> Nat]
  /\ phase \in {"sweep", "wait", "mark", "report", "done"} /\ round \in 0 .. WarmupRounds + Rounds
  /\ backoff \subseteq Measured /\ awaited \subseteq Measured /\ unread \subseteq Measured
  /\ phase = "report" => round >= WarmupRounds

Working(s) == IF worker[s] = "collecting" THEN 1 ELSE 0
Pending(s) == IF s \in awaited THEN 1 ELSE 0
Outcomes(s) == counters[s].bytes + counters[s].failures

\* A worker counts once; and once more when it was given up while it was awaited.
Launched(s) ==
  /\ launches[s] <= round
  /\ counters[s].bytes + Working(s) <= launches[s]
  /\ Outcomes(s) + Working(s) + Pending(s) <= 2 * launches[s]
  /\ Outcomes(s) + Working(s) >= launches[s]

\* The measured rounds whose report on s has been read.
RoundsRead(s) ==
  IF phase \in {"wait", "mark"} \/ (phase = "report" /\ s \in unread)
  THEN Monus(round - 1, WarmupRounds) ELSE Monus(round, WarmupRounds)

\* What has been counted is the difference of two snapshots, neither of which
\* is ahead of the counters.
Accounted(s) ==
  /\ prev[s].bytes <= counters[s].bytes /\ prev[s].failures <= counters[s].failures
  /\ accum[s].success_rounds <= RoundsRead(s)
  /\ accum[s].success_rounds + first[s].bytes <= prev[s].bytes
  /\ accum[s].failures + first[s].failures = prev[s].failures

LaunchInv == \A s \in Measured : Launched(s)
AccumInv ==
  /\ round <= WarmupRounds => first = prev
  /\ \A s \in Measured : Accounted(s)

BenchInv == BenchTyped /\ LaunchInv /\ AccumInv
-----------------------------------------------------------------------------
(* A command.                                                              *)

LEMMA CommandStarts == CommandInit => CommandInv
<1> SUFFICES ASSUME CommandInit PROVE CommandInv
  OBVIOUS
<1>1. /\ helper = "silent" /\ pc = "idle" /\ child = "none" /\ reader = "none"
      /\ reaped = FALSE /\ heir = FALSE /\ result = None
      /\ output = 0 /\ left = 0 /\ pipe = 0 /\ got = 0
  BY DEF CommandInit
<1>2. 0 \in 0 .. PipeSize /\ 0 \in 0 .. MaxOutput
  BY PipeAssumption
<1>3. CommandTypeOK
  BY <1>1, <1>2 DEF CommandTypeOK
<1>4. OutputInv /\ ReaderInv /\ HelperInv
  BY <1>1 DEF OutputInv, ReaderInv, HelperInv
<1> QED
  BY <1>3, <1>4 DEF CommandInv

LEMMA WriteKeeps == ASSUME CommandInv, Write PROVE CommandInv'
<1>1. /\ child = "running" /\ left > 0 /\ left' = left - 1
      /\ IF helper = "silent" THEN pipe' = pipe ELSE pipe < PipeSize /\ pipe' = pipe + 1
      /\ UNCHANGED <<helper, pc, child, reaped, heir, output, got, reader, result>>
  BY DEF Write
<1>2. PipeSize \in Nat /\ MaxOutput \in Nat
  BY PipeAssumption
<1>3. left' \in 0 .. MaxOutput /\ pipe' \in 0 .. PipeSize
  BY <1>1, <1>2 DEF CommandInv, CommandTypeOK
<1>4. CommandTypeOK'
  BY <1>1, <1>3 DEF CommandInv, CommandTypeOK
<1>5. OutputInv'
  BY <1>1, <1>2 DEF CommandInv, CommandTypeOK, OutputInv
<1>6. ReaderInv' /\ HelperInv'
  BY <1>1 DEF CommandInv, ReaderInv, HelperInv, Alive
<1> QED
  BY <1>4, <1>5, <1>6 DEF CommandInv

LEMMA EndsKeeps == ASSUME CommandInv, Ends PROVE CommandInv'
<1>1. /\ child = "running" /\ child' \in {"exited", "failed", "hung"}
      /\ child' = "exited" => left = 0
      /\ UNCHANGED <<helper, pc, reaped, heir, output, left, pipe, got, reader, result>>
  BY DEF Ends
<1>2. CommandTypeOK' /\ OutputInv'
  BY <1>1 DEF CommandInv, CommandTypeOK, OutputInv
<1>3. ReaderInv' /\ HelperInv'
  BY <1>1 DEF CommandInv, ReaderInv, HelperInv, Alive
<1> QED
  BY <1>2, <1>3 DEF CommandInv

LEMMA SpawnKeeps == ASSUME CommandInv, Spawn PROVE CommandInv'
<1>1. /\ helper' \in {"drained", "undrained", "silent"}
      /\ output' \in 0 .. MaxOutput /\ left' = output' /\ heir' \in BOOLEAN
      /\ pc' = "poll" /\ child' = "running" /\ reaped' = FALSE /\ result' = None
      /\ pipe' = 0 /\ got' = 0 /\ reader' = IF helper' = "drained" THEN "reading" ELSE "none"
  BY DEF Spawn, Reader
<1>2. PipeSize \in Nat /\ MaxOutput \in Nat
  BY PipeAssumption
<1>3. 0 \in 0 .. PipeSize /\ 0 \in 0 .. MaxOutput
  BY <1>2
<1>4. CommandTypeOK'
  BY <1>1, <1>3 DEF CommandTypeOK
<1>5. OutputInv'
  <2>1. got' + pipe' + left' = output'
    <3>1. output' \in Nat
      BY <1>1, <1>2
    <3>2. got' = 0 /\ pipe' = 0 /\ left' = output'
      BY <1>1
    <3>3. PICK x \in Nat : x = output'
      BY <3>1
    <3>4. 0 + 0 + x = x
      OBVIOUS
    <3> QED
      BY <3>2, <3>3, <3>4
  <2> QED
    BY <1>1, <2>1 DEF OutputInv
<1>6. ReaderInv' /\ HelperInv'
  BY <1>1 DEF ReaderInv, HelperInv
<1> QED
  BY <1>4, <1>5, <1>6 DEF CommandInv

\* The steps that move only the helper on.
LEMMA HelperKeeps ==
  ASSUME CommandInv, SpawnFails \/ Reaps \/ Expires \/ PollFails \/ Wait \/ Join
  PROVE  CommandInv'
<1>1. UNCHANGED <<helper, child, output, left, pipe, got, reader, heir>>
  BY DEF SpawnFails, Reaps, Expires, PollFails, Wait, Join
<1>2. OutputInv' /\ ReaderInv'
  BY <1>1 DEF CommandInv, OutputInv, ReaderInv, Alive
<1>3. CommandTypeOK /\ OutputInv /\ ReaderInv /\ HelperInv
  BY DEF CommandInv
<1>4. CASE SpawnFails
  <2>1. pc = "idle" /\ pc' = "returned" /\ result' = None /\ UNCHANGED reaped
    BY <1>4 DEF SpawnFails, Return
  <2> QED
    BY <1>1, <1>2, <1>3, <2>1 DEF CommandInv, CommandTypeOK, HelperInv, Alive
<1>5. CASE Reaps
  <2>1. /\ pc = "poll" /\ child \in {"exited", "failed"} /\ reaped' = TRUE /\ result' = None
        /\ \/ helper = "drained" /\ pc' = "join"
           \/ helper = "undrained" /\ child = "exited" /\ pc' = "read"
           \/ helper # "drained" /\ pc' = "returned"
    BY <1>3, <1>5 DEF Reaps, Return, CommandTypeOK
  <2> QED
    BY <1>1, <1>2, <1>3, <2>1 DEF CommandInv, CommandTypeOK, HelperInv, ReaderInv, Alive
<1>6. CASE Expires \/ PollFails
  <2>1. /\ pc = "poll" /\ pc' \in {"late", "abandoned"} /\ result' = None /\ UNCHANGED reaped
    BY <1>3, <1>6 DEF Expires, PollFails, HelperInv
  <2> QED
    BY <1>1, <1>2, <1>3, <2>1 DEF CommandInv, CommandTypeOK, HelperInv, Alive
<1>7. CASE Wait
  <2>1. /\ pc = "wait" /\ ~Alive /\ reaped' = TRUE /\ result' = None
        /\ pc' = IF helper = "drained" THEN "discard" ELSE "returned"
    BY <1>7 DEF Wait, AfterWait
  <2> QED
    BY <1>1, <1>2, <1>3, <2>1 DEF CommandInv, CommandTypeOK, HelperInv, ReaderInv, Alive
<1>8. CASE Join
  <2>1. /\ pc \in {"join", "discard"} /\ reader = "done" /\ pc' = "returned" /\ UNCHANGED reaped
        /\ result' = IF pc = "join" /\ child = "exited" THEN got ELSE None
    BY <1>8 DEF Join, Return
  <2>2. /\ helper = "drained" /\ pipe = 0 /\ reaped
        /\ child = "exited" => got = output
    BY <1>3, <2>1 DEF HelperInv, ReaderInv, OutputInv, CommandTypeOK
  <2>3. result' \in {None} \cup 0 .. MaxOutput
    BY <1>3, <2>1 DEF CommandTypeOK
  <2>4. CommandTypeOK'
    BY <1>1, <1>3, <2>1, <2>3 DEF CommandTypeOK
  <2>5. HelperInv'
    BY <1>1, <1>3, <2>1, <2>2 DEF HelperInv, Alive
  <2> QED
    BY <1>2, <2>4, <2>5 DEF CommandInv
<1> QED
  BY <1>4, <1>5, <1>6, <1>7, <1>8

LEMMA KillKeeps == ASSUME CommandInv, Kill PROVE CommandInv'
<1>1. /\ pc = "late" /\ pc' = "wait"
      /\ child' = IF Alive THEN "killed" ELSE child
      /\ UNCHANGED <<helper, reaped, heir, output, left, pipe, got, reader, result>>
  BY DEF Kill
<1>2. CommandTypeOK' /\ OutputInv'
  BY <1>1 DEF CommandInv, CommandTypeOK, OutputInv
<1>3. ReaderInv' /\ HelperInv'
  BY <1>1 DEF CommandInv, ReaderInv, HelperInv, Alive
<1> QED
  BY <1>2, <1>3 DEF CommandInv

\* The steps that take a unit out of the pipe, or find it at its end.
LEMMA ReadsKeep == ASSUME CommandInv, ReadAtEnd \/ Drain PROVE CommandInv'
<1>1. /\ UNCHANGED <<helper, child, reaped, heir, output, left>>
      /\ \/ pipe > 0 /\ got' = got + 1 /\ pipe' = pipe - 1 /\ UNCHANGED <<pc, reader, result>>
         \/ /\ reader = "reading" /\ pipe = 0 /\ ~Open /\ reader' = "done"
            /\ UNCHANGED <<pc, got, pipe, result>>
         \/ /\ pc = "read" /\ pipe = 0 /\ pc' = "returned"
            /\ result' = (IF got = 0 THEN None ELSE got)
            /\ UNCHANGED <<got, pipe, reader>>
  BY DEF ReadAtEnd, Drain, Return, CommandInv, CommandTypeOK
<1>2. helper # "silent"
  BY DEF ReadAtEnd, Drain, CommandInv, HelperInv, ReaderInv
<1>3. CommandTypeOK /\ OutputInv /\ ReaderInv /\ HelperInv
  BY DEF CommandInv
<1>4. PipeSize \in Nat /\ MaxOutput \in Nat
  BY PipeAssumption
<1>5. CASE pipe > 0 /\ got' = got + 1 /\ pipe' = pipe - 1 /\ UNCHANGED <<pc, reader, result>>
  <2>1. got' \in 0 .. MaxOutput /\ pipe' \in 0 .. PipeSize /\ got' + pipe' + left = output
    BY <1>2, <1>3, <1>4, <1>5 DEF CommandTypeOK, OutputInv
  <2>2. CommandTypeOK' /\ OutputInv'
    BY <1>1, <1>2, <1>3, <1>5, <2>1 DEF CommandTypeOK, OutputInv
  <2>3. ReaderInv' /\ HelperInv'
    BY <1>1, <1>3, <1>5 DEF ReaderInv, HelperInv, Alive, CommandTypeOK
  <2> QED
    BY <2>2, <2>3 DEF CommandInv
<1>6. CASE /\ reader = "reading" /\ pipe = 0 /\ ~Open /\ reader' = "done"
           /\ UNCHANGED <<pc, got, pipe, result>>
  BY <1>1, <1>3, <1>6
     DEF CommandInv, CommandTypeOK, OutputInv, ReaderInv, HelperInv, Alive, Open
<1>7. CASE /\ pc = "read" /\ pipe = 0 /\ pc' = "returned"
           /\ result' = (IF got = 0 THEN None ELSE got)
           /\ UNCHANGED <<got, pipe, reader>>
  <2>1. helper = "undrained" /\ child = "exited" /\ reaped /\ reader = "none" /\ got = output
    BY <1>3, <1>7 DEF CommandTypeOK, OutputInv, ReaderInv, HelperInv
  <2>2. CommandTypeOK' /\ OutputInv'
    BY <1>1, <1>3, <1>7 DEF CommandTypeOK, OutputInv
  <2>3. ReaderInv' /\ HelperInv'
    BY <1>1, <1>3, <1>7, <2>1 DEF ReaderInv, HelperInv, Alive
  <2> QED
    BY <2>2, <2>3 DEF CommandInv
<1> QED
  BY <1>1, <1>5, <1>6, <1>7

LEMMA CommandStep == ASSUME CommandInv, [CommandNext]_command PROVE CommandInv'
<1>1. CASE UNCHANGED command
  BY <1>1 DEF command, CommandInv, CommandTypeOK, OutputInv, ReaderInv, HelperInv, Alive
<1>2. CASE CommandNext
  BY <1>2, WriteKeeps, EndsKeeps, SpawnKeeps, HelperKeeps, KillKeeps, ReadsKeep
     DEF CommandNext
<1> QED
  BY <1>1, <1>2

(* Whatever the child does, and whoever keeps its pipe open: a helper that   *)
(* returns has waited for the child and has no thread left, unless it could  *)
(* not ask after it, returns all of the output or nothing, and drains the    *)
(* pipe as long as the child may fill it; for any pipe and any output.       *)
THEOREM CommandIsSound == Spec => []CommandSound
<1>1. Init => CommandInv
  BY CommandStarts DEF Init
<1>2. CommandInv /\ [Next]_all => CommandInv'
  BY CommandStep DEF Next, all
<1>3. CommandInv => CommandSound
  BY DEF CommandInv, CommandSound, HelperInv, ReaderInv, Alive, CommandTypeOK
<1> QED
  BY <1>1, <1>2, <1>3, PTL DEF Spec

-----------------------------------------------------------------------------
(* The camera.                                                             *)

LEMMA CameraStarts == CameraInit => CameraInv
BY CameraAssumption DEF CameraInit, CameraInv, CameraTypeOK, Running

\* The process or its thread moves.
LEMMA ProcessKeeps ==
  ASSUME CameraInv, NEW id \in Ids,
         Starts(id) \/ Dies(id) \/ ReadsFrame(id) \/ ReaderEnds(id)
  PROVE  CameraInv'
<1>1. /\ CameraTypeOK /\ Running \subseteq {camera, trying}
      /\ UNCHANGED <<camera, at, trying, selector>>
  BY DEF CameraInv, Starts, Dies, ReadsFrame, ReaderEnds
<1>2. CASE Starts(id)
  <2>1. /\ ffmpeg[id] = "starting" /\ ffmpeg' = [ffmpeg EXCEPT ![id] = "streaming"]
        /\ UNCHANGED <<thread, latest>>
    BY <1>2 DEF Starts
  <2>2. Running' = Running
    BY <1>1, <2>1 DEF Running, CameraTypeOK
  <2>3. \A i \in Ids : ffmpeg[i] = "dead" => ffmpeg'[i] = "dead"
    BY <1>1, <2>1 DEF CameraTypeOK
  <2> QED
    BY <1>1, <2>1, <2>2, <2>3 DEF CameraInv, CameraTypeOK
<1>3. CASE Dies(id)
  <2>1. /\ ffmpeg' = [ffmpeg EXCEPT ![id] = "dead"] /\ UNCHANGED <<thread, latest>>
    BY <1>3 DEF Dies
  <2>2. Running' \subseteq Running
    BY <1>1, <2>1 DEF Running, CameraTypeOK
  <2>3. \A i \in Ids : ffmpeg[i] = "dead" => ffmpeg'[i] = "dead"
    BY <1>1, <2>1 DEF CameraTypeOK
  <2> QED
    BY <1>1, <2>1, <2>2, <2>3 DEF CameraInv, CameraTypeOK
<1>4. CASE ReadsFrame(id)
  <2>1. /\ latest' = [latest EXCEPT ![id] = TRUE] /\ UNCHANGED <<ffmpeg, thread>>
    BY <1>4 DEF ReadsFrame
  <2>2. \A i \in Ids : latest[i] => latest'[i]
    BY <1>1, <2>1 DEF CameraTypeOK
  <2> QED
    BY <1>1, <2>1, <2>2 DEF CameraInv, CameraTypeOK, Running
<1>5. CASE ReaderEnds(id)
  <2>1. /\ ffmpeg[id] = "dead" /\ UNCHANGED ffmpeg
        /\ thread' = [thread EXCEPT ![id] = "ended"]
        /\ latest' = [latest EXCEPT ![id] = FALSE]
    BY <1>5 DEF ReaderEnds
  <2>2. \A i \in Ids : latest[i] => latest'[i] \/ ffmpeg[i] = "dead"
    BY <1>1, <2>1 DEF CameraTypeOK
  <2> QED
    BY <1>1, <2>1, <2>2 DEF CameraInv, CameraTypeOK, Running
<1> QED
  BY <1>2, <1>3, <1>4, <1>5

LEMMA CollectKeeps == ASSUME CameraInv, CollectStep PROVE CameraInv'
<1>1. CameraTypeOK /\ Running \subseteq {camera, trying} /\ NoCamera \notin Ids
      /\ Selectors \in Nat \ {0}
  BY NoCameraAssumption, CameraAssumption DEF CameraInv
<1>2. CASE Collect
  BY <1>1, <1>2 DEF Collect, CameraInv, CameraTypeOK, Running
<1>3. CASE TrySpawn
  <2>1. PICK id \in Free :
          /\ ffmpeg' = [ffmpeg EXCEPT ![id] = "starting"]
          /\ thread' = [thread EXCEPT ![id] = "reading"]
          /\ latest' = [latest EXCEPT ![id] = FALSE]
          /\ trying' = id
    BY <1>3 DEF TrySpawn
  <2>2. /\ at = "try" /\ at' = "await" /\ UNCHANGED <<camera, selector>>
        /\ id \in Ids /\ camera = NoCamera /\ trying = NoCamera
    BY <1>3, <2>1 DEF TrySpawn, Free, CameraInv
  <2>3. Running' \subseteq Running \cup {id}
    BY <1>1, <2>1 DEF Running, CameraTypeOK
  <2>4. Running = {}
    BY <1>1, <2>2 DEF Running
  <2>5. CameraTypeOK'
    BY <1>1, <2>1, <2>2 DEF CameraTypeOK
  <2> QED
    BY <1>1, <2>1, <2>2, <2>3, <2>4, <2>5 DEF CameraInv
<1>4. ASSUME Another PROVE at' \in {"try", "idle"} /\ selector' \in 1 .. Selectors
  BY <1>1, <1>4 DEF Another, CameraTypeOK
<1>5. CASE SpawnRefused
  <2>1. /\ at = "try" /\ at' \in {"try", "idle"} /\ selector' \in 1 .. Selectors
        /\ UNCHANGED <<ffmpeg, thread, latest, camera, trying>>
    BY <1>4, <1>5 DEF SpawnRefused
  <2> QED
    BY <1>1, <2>1 DEF CameraInv, CameraTypeOK, Running
<1>6. CASE NoFrame
  <2>1. /\ at = "await" /\ at' \in {"try", "idle"} /\ selector' \in 1 .. Selectors
        /\ ffmpeg' = [ffmpeg EXCEPT ![trying] = "dead"] /\ trying' = NoCamera
        /\ UNCHANGED <<thread, latest, camera>>
    BY <1>4, <1>6 DEF NoFrame
  <2>2. camera = NoCamera /\ trying \in Ids
    BY <1>1, <2>1 DEF CameraInv, CameraTypeOK
  <2>3. Running' \subseteq Running \ {trying}
    BY <1>1, <2>1, <2>2 DEF Running, CameraTypeOK
  <2>4. Running' = {}
    BY <1>1, <2>2, <2>3 DEF Running
  <2>5. CameraTypeOK'
    BY <1>1, <2>1, <2>2 DEF CameraTypeOK
  <2> QED
    BY <2>1, <2>2, <2>4, <2>5 DEF CameraInv
<1>7. CASE FirstFrame
  <2>1. /\ at = "await" /\ latest[trying] /\ camera' = trying /\ trying' = NoCamera /\ at' = "take"
        /\ UNCHANGED <<ffmpeg, thread, latest, selector>>
    BY <1>7 DEF FirstFrame
  <2>2. camera = NoCamera /\ trying \in Ids /\ trying # NoCamera
    BY <1>1, <2>1 DEF CameraInv, CameraTypeOK
  <2> QED
    BY <1>1, <2>1, <2>2 DEF CameraInv, CameraTypeOK, Running
<1>8. CASE TakeFrame
  BY <1>1, <1>8 DEF TakeFrame, CameraInv, CameraTypeOK, Running
<1>9. CASE DropDead
  <2>1. /\ at = "check" /\ at' = "idle" /\ UNCHANGED <<thread, latest, trying, selector>>
        /\ trying = NoCamera /\ camera \in Ids
    BY <1>1, <1>9 DEF DropDead, CameraInv, CameraTypeOK
  <2>2. CASE UNCHANGED <<camera, ffmpeg>>
    BY <1>1, <2>1, <2>2 DEF CameraInv, CameraTypeOK, Running
  <2>3. CASE ffmpeg' = [ffmpeg EXCEPT ![camera] = "dead"] /\ camera' = NoCamera
    <3>1. Running' \subseteq Running \ {camera}
      BY <1>1, <2>1, <2>3 DEF Running, CameraTypeOK
    <3>2. Running' = {}
      BY <1>1, <2>1, <3>1 DEF Running
    <3>3. CameraTypeOK'
      BY <1>1, <2>1, <2>3 DEF CameraTypeOK
    <3> QED
      BY <2>1, <2>3, <3>2, <3>3 DEF CameraInv
  <2> QED
    BY <1>9, <2>2, <2>3 DEF DropDead
<1> QED
  BY <1>2, <1>3, <1>5, <1>6, <1>7, <1>8, <1>9 DEF CollectStep

LEMMA CameraStep == ASSUME CameraInv, [CameraNext]_vars_camera PROVE CameraInv'
<1>1. CASE UNCHANGED vars_camera
  BY <1>1 DEF vars_camera, CameraInv, CameraTypeOK, Running
<1>2. CASE CameraNext
  BY <1>2, ProcessKeeps, CollectKeeps DEF CameraNext
<1> QED
  BY <1>1, <1>2

(* There is one camera process at most, and when collect has returned it is  *)
(* the one that is kept; and collect never drops a process that still runs:  *)
(* for any number of inputs to try and whenever ffmpeg dies.                 *)
THEOREM CameraIsSound == Spec => []CameraSound
<1>1. Init => CameraInv
  BY CameraStarts DEF Init
<1>2. CameraInv /\ [Next]_all => CameraInv'
  BY CameraStep DEF Next, all
<1>3. CameraInv => CameraSound
  <2> SUFFICES ASSUME CameraInv PROVE CameraSound
    OBVIOUS
  <2>1. /\ CameraTypeOK /\ Running \subseteq {camera, trying} /\ Running \subseteq Ids
        /\ NoCamera \notin Ids /\ (camera = NoCamera \/ trying = NoCamera)
    BY NoCameraAssumption DEF CameraInv, CameraTypeOK, Running
  <2>2. Cardinality(Running) <= 1
    <3>1. CASE Running = {}
      BY <3>1, FS_EmptySet
    <3>2. CASE Running # {}
      <4>1. PICK id : id \in Running
        BY <3>2
      <4>2. Running = {id}
        BY <2>1, <4>1
      <4>3. Cardinality({id}) = 1
        BY FS_Singleton
      <4> QED
        BY <4>2, <4>3
    <3> QED
      BY <3>1, <3>2
  <2>3. at = "idle" => Running \subseteq {camera}
    BY <2>1 DEF CameraInv
  <2> QED
    BY <2>1, <2>2, <2>3 DEF CameraInv, CameraSound
<1> QED
  BY <1>1, <1>2, <1>3, PTL DEF Spec

-----------------------------------------------------------------------------
(* The clients of the pool.                                                *)

LEMMA ClientStarts == ASSUME NEW c, ClientInit(c) PROVE ClientsInv
<1>1. /\ mode \in Modes /\ goal \in 0 .. MaxBytes /\ step # "write"
      /\ total = 0 /\ data = 0 /\ stop = FALSE /\ expired = FALSE /\ sweeps = 0
      /\ ending = "none" /\ node = FALSE
  BY DEF ClientInit
<1>2. goal \in Nat
  BY <1>1, ClientAssumption
<1>3. ClientTypeOK
  BY <1>1, <1>2 DEF ClientTypeOK
<1>4. StreamInv
  BY <1>1, <1>2 DEF StreamInv
<1>5. SweepInv /\ FifoInv
  BY <1>1 DEF SweepInv, FifoInv
<1>6. AnswerInv
  BY <1>1, <1>2 DEF AnswerInv
<1> QED
  BY <1>3, <1>4, <1>5, <1>6 DEF ClientsInv

\* What the pool gives is at most what it is asked for.
LEMMA PoolGivesLess ==
  ASSUME NEW k \in Nat, NEW d \in PoolGives(k) PROVE d \in Nat /\ d <= k
BY DEF PoolGives

LEMMA ConditionedIsLess ==
  ASSUME mode \in Modes, NEW k \in Nat, NEW raw \in 0 .. k, NEW d \in Conditioned(raw, k)
  PROVE  d \in Nat /\ d <= k
<1>1. raw \div 2 \in Nat
  OBVIOUS
<1> DEFINE half == raw \div 2
<1>2. half \in Nat
  BY <1>1
<1>3. d \in {Smaller(raw, k)} \cup 0 .. Smaller(half, k) \cup {k}
  BY DEF Conditioned, Modes
<1> HIDE DEF half
<1> QED
  BY <1>2, <1>3 DEF Smaller

LEMMA WantIs ==
  ASSUME ClientsInv, Streams, goal = 0 \/ total < goal
  PROVE  want \in Nat /\ (goal > 0 => total + want <= goal)
BY ClientAssumption DEF ClientsInv, ClientTypeOK, want, Smaller

LEMMA StreamKeeps ==
  ASSUME ClientsInv,
         StreamAll \/ StreamSource \/ StreamPool \/ StreamWrite \/ StreamBroken
  PROVE  ClientsInv'
<1>1. /\ ClientTypeOK /\ StreamInv /\ SweepInv /\ Streams /\ Untouched /\ NoFifo /\ NoRecord
  BY DEF ClientsInv, StreamAll, StreamSource, StreamPool, StreamWrite, StreamBroken, Streams
<1>2. FifoInv' /\ AnswerInv' /\ Streams'
  BY <1>1 DEF FifoInv, AnswerInv, Streams, Fifo, Untouched
<1>3. /\ goal > 0 => total <= goal
      /\ goal > 0 /\ step = "write" => total + data <= goal
      /\ goal > 0 => (ending = "complete" => step = "ended" /\ total = goal)
  BY <1>1 DEF StreamInv
<1>4. ASSUME goal > 0 => total' <= goal,
             goal > 0 /\ step' = "write" => total' + data' <= goal,
             goal > 0 => (ending' = "complete" => step' = "ended" /\ total' = goal)
      PROVE  StreamInv'
  BY <1>1, <1>4 DEF StreamInv, Untouched
<1>5. goal \in Nat /\ total \in Nat /\ data \in Nat
  BY <1>1 DEF ClientTypeOK
<1>6. CASE StreamAll
  <2>1. /\ step = "loop" /\ goal > 0 /\ total >= goal /\ step' = "ended" /\ UNCHANGED <<total, data>>
    BY <1>6 DEF StreamAll, Ended
  <2>2. StreamInv'
    <3>1. total = goal
      BY <1>3, <1>5, <2>1
    <3> QED
      BY <1>4, <1>5, <2>1, <3>1
  <2>3. ClientTypeOK' /\ SweepInv'
    BY <1>1, <2>1 DEF ClientTypeOK, SweepInv, Untouched, NoRecord
  <2> QED
    BY <1>2, <2>2, <2>3 DEF ClientsInv
<1>7. CASE StreamSource
  <2>1. want \in Nat /\ (goal > 0 => total + want <= goal)
    BY <1>1, <1>7, WantIs DEF StreamSource
  <2>2. /\ step = "loop" /\ UNCHANGED total
        /\ \/ step' = "ended" /\ ending' = "dry" /\ data' = data
           \/ data' \in Nat /\ data' <= want /\ step' = "write" /\ UNCHANGED ending
    <3>1. PICK raw \in 0 .. want :
            \/ raw = 0 /\ Ended("dry") /\ data' = data
            \/ raw > 0 /\ data' \in Conditioned(raw, want) /\ step' = "write" /\ UNCHANGED ending
      BY <1>7 DEF StreamSource
    <3>2. ASSUME data' \in Conditioned(raw, want) PROVE data' \in Nat /\ data' <= want
      <4>1. PICK k \in Nat : k = want
        BY <2>1
      <4>2. PICK d \in Conditioned(raw, k) : d = data'
        BY <3>2, <4>1
      <4> QED
        BY <1>1, <4>1, <4>2, ConditionedIsLess DEF ClientTypeOK
    <3> QED
      BY <1>7, <3>1, <3>2 DEF StreamSource, Ended
  <2>3. StreamInv'
    <3>1. goal > 0 => ending # "complete" /\ total <= goal
      BY <1>3, <2>2
    <3>2. goal > 0 /\ step' = "write" => total' + data' <= goal
      BY <1>3, <1>5, <2>1, <2>2
    <3>3. goal > 0 => total' <= goal
      BY <1>3, <1>5, <2>1, <2>2
    <3>4. goal > 0 => ending' # "complete"
      BY <2>2, <3>1
    <3> QED
      BY <1>4, <3>2, <3>3, <3>4
  <2>4. ClientTypeOK' /\ SweepInv'
    BY <1>1, <2>2 DEF ClientTypeOK, SweepInv, Untouched, NoRecord
  <2> QED
    BY <1>2, <2>3, <2>4 DEF ClientsInv
<1>8. CASE StreamPool
  <2>1. want \in Nat /\ (goal > 0 => total + want <= goal)
    BY <1>1, <1>8, WantIs DEF StreamPool
  <2>2. step = "loop" /\ step' = "write" /\ total' = total /\ ending' = ending
    BY <1>8 DEF StreamPool
  <2>3. data' \in Nat /\ data' <= want
    <3>1. PICK k \in Nat : k = want
      BY <2>1
    <3>2. PICK d \in PoolGives(k) : d = data'
      BY <1>8, <3>1 DEF StreamPool
    <3> QED
      BY <3>1, <3>2, PoolGivesLess
  <2>4. StreamInv'
    <3>1. goal > 0 => ending # "complete" /\ total <= goal
      BY <1>3, <2>2
    <3>2. goal > 0 => total' + data' <= goal
      <4>1. PICK k \in Nat : (goal > 0 => total + k <= goal) /\ data' <= k
        BY <2>1, <2>3
      <4>2. PICK d \in Nat : d = data' /\ d <= k
        BY <2>3, <4>1
      <4>3. (goal > 0 => total + k <= goal) /\ d <= k
        BY <4>1, <4>2
      <4>4. goal > 0 => total + d <= goal
        BY <1>5, <4>3
      <4> QED
        BY <2>2, <4>2, <4>4
    <3>3. goal > 0 => total' <= goal /\ ending' # "complete"
      BY <2>2, <3>1
    <3> QED
      BY <1>4, <3>2, <3>3
  <2>5. ClientTypeOK' /\ SweepInv'
    BY <1>1, <2>2, <2>3 DEF ClientTypeOK, SweepInv, Untouched, NoRecord
  <2> QED
    BY <1>2, <2>4, <2>5 DEF ClientsInv
<1>9. CASE StreamWrite
  <2>1. step = "write" /\ data' = 0 /\ step' = "loop" /\ ending' = ending
    BY <1>9 DEF StreamWrite
  <2>2. total' \in Nat /\ (goal > 0 => total' = total + data)
    BY <1>5, <1>9, ClientAssumption DEF StreamWrite, Written, Smaller
  <2>3. StreamInv'
    <3>1. goal > 0 => ending # "complete"
      BY <1>3, <2>1
    <3>2. goal > 0 => total' <= goal
      BY <1>3, <1>5, <2>1, <2>2
    <3> QED
      BY <1>4, <2>1, <3>1, <3>2
  <2>4. ClientTypeOK' /\ SweepInv'
    BY <1>1, <2>1, <2>2 DEF ClientTypeOK, SweepInv, Untouched, NoRecord
  <2> QED
    BY <1>2, <2>3, <2>4 DEF ClientsInv
<1>10. CASE StreamBroken
  <2>1. step' = "ended" /\ ending' = "broken" /\ UNCHANGED <<total, data>>
    BY <1>10 DEF StreamBroken, Ended
  <2>2. StreamInv'
    BY <1>3, <1>4, <2>1
  <2>3. ClientTypeOK' /\ SweepInv'
    BY <1>1, <2>1 DEF ClientTypeOK, SweepInv, Untouched, NoRecord
  <2> QED
    BY <1>2, <2>2, <2>3 DEF ClientsInv
<1> QED
  BY <1>6, <1>7, <1>8, <1>9, <1>10

LEMMA FifoKeeps ==
  ASSUME ClientsInv,
         MakeFifo \/ InstallHandler \/ OpenFifo \/ OpenRefused \/ Feed \/ Put
           \/ ReaderComes \/ ReaderLeaves \/ Signal
  PROVE  ClientsInv'
<1>1. ClientTypeOK /\ SweepInv /\ Fifo /\ Untouched /\ NoRecord /\ UNCHANGED total
  BY DEF ClientsInv, MakeFifo, InstallHandler, OpenFifo, OpenRefused, Feed, Put,
     ReaderComes, ReaderLeaves, Signal, FifoUnchanged
<1>2. StreamInv' /\ AnswerInv'
  BY <1>1 DEF StreamInv, AnswerInv, Streams, Fifo, Untouched
<1>3. data' \in Nat
  <2>1. CASE Feed
    <3>1. PICK d \in PoolGives(1) : d = data'
      BY <2>1 DEF Feed
    <3> QED
      BY <3>1, PoolGivesLess
  <2>2. CASE ~Feed
    <3>1. data' = data \/ data' = 0
      BY <2>2 DEF MakeFifo, InstallHandler, OpenFifo, OpenRefused, Put, ReaderComes,
         ReaderLeaves, Signal
    <3> QED
      BY <1>1, <3>1 DEF ClientTypeOK
  <2> QED
    BY <2>1, <2>2
<1>4. ClientTypeOK'
  BY <1>1, <1>3 DEF ClientTypeOK, Untouched, NoRecord
<1>5. step' # "sweep" \/ UNCHANGED step
  BY DEF MakeFifo, InstallHandler, OpenFifo, OpenRefused, Feed, Put, ReaderComes,
     ReaderLeaves, Signal, Ended
<1>6. SweepInv'
  BY <1>1, <1>5 DEF SweepInv, NoRecord
<1>7. FifoInv'
  <2>1. CASE MakeFifo \/ InstallHandler \/ OpenFifo \/ Feed \/ Put
    BY <2>1 DEF MakeFifo, InstallHandler, OpenFifo, Feed, Put, FifoInv
  <2>2. CASE OpenRefused \/ Signal
    BY <2>2 DEF OpenRefused, Signal, FifoInv
  <2>3. CASE ReaderComes \/ ReaderLeaves
    BY <2>3 DEF ReaderComes, ReaderLeaves, FifoInv
  <2> QED
    BY <2>1, <2>2, <2>3
<1> QED
  BY <1>2, <1>4, <1>6, <1>7 DEF ClientsInv

LEMMA RecordKeeps ==
  ASSUME ClientsInv,
         Interrupt \/ DurationOver \/ LoopTest \/ Sweep \/ WriteSample \/ WriteFails
           \/ SweepWritten \/ Awake \/ Finish
  PROVE  ClientsInv'
<1>1. /\ ClientTypeOK /\ SweepInv /\ Recording /\ Untouched /\ NoFifo
      /\ stop' \in BOOLEAN /\ expired' \in BOOLEAN
      /\ (stop => stop') /\ (expired => expired')
  BY DEF ClientsInv, ClientTypeOK, Interrupt, DurationOver, LoopTest, Sweep, WriteSample,
     WriteFails, SweepWritten, Awake, Finish, RecordUnchanged
<1>2. StreamInv' /\ AnswerInv' /\ FifoInv'
  BY <1>1 DEF StreamInv, AnswerInv, FifoInv, Streams, Recording, Fifo, Untouched
<1>3. CASE Sweep
  <2>1. /\ step = "sweep" /\ data' \in 0 .. Cardinality(Sources) /\ step' = "write"
        /\ sweeps' = Smaller(2, sweeps + (IF stop \/ expired THEN 1 ELSE 0))
        /\ UNCHANGED <<total, stop, expired>>
    BY <1>3 DEF Sweep
  <2>2. Cardinality(Sources) \in Nat
    BY ClientAssumption, FS_CardinalityType
  <2>3. data' \in Nat
    BY <2>1, <2>2
  <2>4. sweeps = 0
    BY <1>1, <2>1 DEF SweepInv, ClientTypeOK
  <2>5. sweeps' = IF stop \/ expired THEN 1 ELSE 0
    BY <2>1, <2>4 DEF Smaller
  <2>6. ClientTypeOK' /\ SweepInv'
    BY <1>1, <2>1, <2>3, <2>5 DEF ClientTypeOK, SweepInv, Untouched
  <2> QED
    BY <1>2, <2>6 DEF ClientsInv
<1>4. CASE WriteSample
  <2>1. /\ step = "write" /\ data > 0 /\ data' = data - 1 /\ UNCHANGED <<step, stop, expired, sweeps>>
        /\ total' = Smaller(total + 1, MaxBytes)
    BY <1>4 DEF WriteSample
  <2>2. data' \in Nat /\ total' \in Nat
    BY <1>1, <2>1, ClientAssumption DEF ClientTypeOK, Smaller
  <2>3. ClientTypeOK' /\ SweepInv'
    BY <1>1, <2>1, <2>2 DEF ClientTypeOK, SweepInv, Untouched
  <2> QED
    BY <1>2, <2>3 DEF ClientsInv
<1>5. CASE Interrupt \/ DurationOver \/ LoopTest \/ WriteFails \/ SweepWritten \/ Awake \/ Finish
  <2>1. UNCHANGED <<total, sweeps>> /\ data' \in {0, data}
    BY <1>5 DEF Interrupt, DurationOver, LoopTest, WriteFails, SweepWritten, Awake, Finish
  <2>2. ClientTypeOK'
    BY <1>1, <2>1 DEF ClientTypeOK, Untouched
  <2>3. step' = "sweep" => step = "sweep" \/ ~(stop' \/ expired')
    BY <1>5 DEF Interrupt, DurationOver, LoopTest, WriteFails, SweepWritten, Awake, Finish
  <2>4. SweepInv'
    BY <1>1, <2>1, <2>3 DEF SweepInv
  <2> QED
    BY <1>2, <2>2, <2>4 DEF ClientsInv
<1> QED
  BY <1>3, <1>4, <1>5

\* Values cut from n bytes in pairs, or one by one.
LEMMA Cut ==
  ASSUME NEW k \in Nat
  PROVE  /\ (k \div 2) * 2 \in Nat /\ (k \div 2) * 2 <= k /\ k - (k \div 2) * 2 <= 1
         /\ (k \div 1) * 1 = k
         /\ k % 2 = 0 => (k \div 2) * 2 = k
OBVIOUS

LEMMA ServerKeeps == ASSUME ClientsInv, Arrives \/ Answer PROVE ClientsInv'
<1>1. /\ ClientTypeOK /\ SweepInv /\ client = "server" /\ UNCHANGED client /\ NoFifo /\ NoRecord
  BY DEF ClientsInv, Arrives, Answer, Untouched
<1>2. StreamInv' /\ FifoInv'
  BY <1>1 DEF StreamInv, FifoInv, Streams, Fifo
<1>3. SweepInv'
  <2>1. step' # "sweep"
    BY DEF Arrives, Answer
  <2> QED
    BY <1>1, <2>1 DEF SweepInv, NoRecord
<1>4. CASE Arrives
  <2>1. /\ mode' \in Modes /\ goal' \in 0 .. MaxBytes
        /\ ending' = "none" /\ total' = 0 /\ data' = 0
    BY <1>4 DEF Arrives
  <2>2. goal' \in Nat
    BY <2>1, ClientAssumption
  <2>3. ClientTypeOK' /\ AnswerInv'
    BY <1>1, <2>1, <2>2 DEF ClientTypeOK, AnswerInv, NoRecord
  <2> QED
    BY <1>2, <1>3, <2>3 DEF ClientsInv
<1>5. CASE Answer
  <2>1. PICK type \in {"hex16", "uint8", "uint16"}, allow_raw \in BOOLEAN, named \in BOOLEAN,
             known \in BOOLEAN :
          \E answer \in handle_random(type, allow_raw, named, known) :
            /\ total' = answer.length
            /\ data' = answer.value_count * Width(type)
            /\ ending' = IF answer.status = 200 THEN "served" ELSE "refused"
    BY <1>5 DEF Answer
  <2>2. PICK answer \in handle_random(type, allow_raw, named, known) :
          /\ total' = answer.length
          /\ data' = answer.value_count * Width(type)
          /\ ending' = IF answer.status = 200 THEN "served" ELSE "refused"
    BY <2>1
  <2>3. goal \in Nat /\ mode \in Modes /\ UNCHANGED <<mode, goal>> /\ Width(type) \in {1, 2}
    BY <1>1, <1>5 DEF Answer, Untouched, ClientTypeOK, Width
  <2> DEFINE Values(k) == /\ answer = Serialized(k, type)
                          /\ goal % Width(type) = 0
                          /\ mode = "Sha256" => k = goal
  <2>4. CASE \E status : answer = Refusal(status) /\ status # 200
    <3>1. total' = 0 /\ data' = 0 /\ ending' = "refused"
      BY <2>2, <2>3, <2>4 DEF Refusal
    <3>2. ClientTypeOK' /\ AnswerInv'
      BY <1>1, <2>3, <3>1 DEF ClientTypeOK, AnswerInv, NoRecord
    <3> QED
      BY <1>2, <1>3, <3>2 DEF ClientsInv
  <2>5. CASE \E k \in 0 .. goal : Values(k)
    <3> HIDE DEF Values
    <3>0. PICK k \in 0 .. goal : Values(k)
      BY <2>5
    <3>1. Values(k)
      BY <3>0
    <3> USE DEF Values
    <3>2. k \in Nat /\ k <= goal
      BY <2>3
    <3>3. total' = k /\ data' = (k \div Width(type)) * Width(type)
      BY <2>2, <3>1 DEF Serialized
    <3>4. /\ data' \in Nat /\ data' <= k /\ k - data' <= 1
          /\ goal % Width(type) = 0 /\ k = goal => data' = goal
      <4>1. CASE Width(type) = 1
        BY <3>2, <3>3, <4>1, Cut
      <4>2. CASE Width(type) = 2
        BY <3>2, <3>3, <4>2, Cut
      <4> QED
        BY <2>3, <4>1, <4>2
    <3>5. ClientTypeOK'
      BY <1>1, <2>3, <3>2, <3>3, <3>4 DEF ClientTypeOK, NoRecord
    <3>6. AnswerInv'
      BY <2>3, <3>1, <3>2, <3>3, <3>4 DEF AnswerInv
    <3> QED
      BY <1>2, <1>3, <3>5, <3>6 DEF ClientsInv
  <2> QED
    <3>1. CASE goal = 0 \/ goal % Width(type) # 0
      BY <2>4, <3>1 DEF handle_random
    <3>2. CASE ~(goal = 0 \/ goal % Width(type) # 0) /\ mode = "Raw" /\ ~allow_raw
      BY <2>4, <3>2 DEF handle_random
    <3>3. CASE ~(goal = 0 \/ goal % Width(type) # 0) /\ ~(mode = "Raw" /\ ~allow_raw)
      <4>1. PICK k \in IF named THEN SourceGives(known, goal) ELSE PoolGives(goal) :
              answer = IF k = NoBytes THEN Refusal(400) ELSE Serialized(k, type)
        BY <3>3 DEF handle_random
      <4>2. CASE k = NoBytes
        BY <2>4, <4>1, <4>2
      <4>3. CASE k # NoBytes
        <5>1. k \in 0 .. goal /\ (mode = "Sha256" => k = goal)
          BY <2>3, <4>1, <4>3 DEF SourceGives, PoolGives
        <5>2. answer = Serialized(k, type) /\ goal % Width(type) = 0
          BY <3>3, <4>1, <4>3
        <5> QED
          BY <2>5, <5>1, <5>2
      <4> QED
        BY <4>2, <4>3
    <3> QED
      BY <3>1, <3>2, <3>3
<1> QED
  BY <1>4, <1>5

LEMMA ClientStep == ASSUME ClientsInv, [ClientNext]_clients PROVE ClientsInv'
<1>1. CASE UNCHANGED clients
  BY <1>1 DEF clients, ClientsInv, ClientTypeOK, StreamInv, SweepInv, FifoInv, AnswerInv,
     Streams, Fifo
<1>2. CASE ClientNext
  BY <1>2, StreamKeeps, FifoKeeps, RecordKeeps, ServerKeeps DEF ClientNext
<1> QED
  BY <1>1, <1>2

(* A stream never writes more than --bytes, and that much when it says it    *)
(* has; its pipe goes with the program; a recording begins at most one sweep *)
(* after it is told to stop; and the server's values are those of the bytes  *)
(* it counts: for any chunk, length of output and number of sources.         *)
THEOREM ClientsAreSound == Spec => []ClientsSound
<1>1. Init => ClientsInv
  BY ClientStarts DEF Init
<1>2. ClientsInv /\ [Next]_all => ClientsInv'
  BY ClientStep DEF Next, all
<1>3. ClientsInv => ClientsSound
  <2> SUFFICES ASSUME ClientsInv PROVE ClientsSound
    OBVIOUS
  <2>1. Streams /\ goal > 0 => total <= goal /\ (ending = "complete" => total = goal)
    BY DEF ClientsInv, StreamInv
  <2>2. sweeps <= 1
    BY DEF ClientsInv, ClientTypeOK
  <2> QED
    BY <2>1, <2>2 DEF ClientsInv, ClientsSound, FifoInv, AnswerInv
<1> QED
  BY <1>1, <1>2, <1>3, PTL DEF Spec

-----------------------------------------------------------------------------
(* The benchmark.                                                          *)

LEMMA BenchNumbers ==
  ASSUME BenchTyped, NEW s \in Measured
  PROVE  /\ counters[s].bytes \in Nat /\ counters[s].failures \in Nat
         /\ prev[s].bytes \in Nat /\ prev[s].failures \in Nat
         /\ first[s].bytes \in Nat /\ first[s].failures \in Nat
         /\ accum[s].success_rounds \in Nat /\ accum[s].failures \in Nat /\ accum[s].sum \in Nat
         /\ launches[s] \in Nat /\ round \in Nat
         /\ WarmupRounds \in Nat /\ Rounds \in Nat \ {0}
         /\ Working(s) \in {0, 1} /\ Pending(s) \in {0, 1}
         /\ Outcomes(s) \in Nat
<1>1. counters[s] \in Counters /\ prev[s] \in Snapshots /\ first[s] \in Snapshots
      /\ accum[s] \in Sums /\ launches[s] \in Nat
  BY DEF BenchTyped
<1>2. WarmupRounds \in Nat /\ Rounds \in Nat \ {0}
  BY BenchmarkAssumption
<1>3. round \in Nat
  BY <1>2 DEF BenchTyped
<1>4. counters[s].bytes \in Nat /\ counters[s].failures \in Nat
  BY <1>1 DEF Counters
<1>5. /\ prev[s].bytes \in Nat /\ prev[s].failures \in Nat
      /\ first[s].bytes \in Nat /\ first[s].failures \in Nat
  BY <1>1 DEF Snapshots
<1>6. accum[s].success_rounds \in Nat /\ accum[s].failures \in Nat /\ accum[s].sum \in Nat
  BY <1>1 DEF Sums
<1>7. Working(s) \in {0, 1} /\ Pending(s) \in {0, 1}
  BY DEF Working, Pending
<1>8. Outcomes(s) \in Nat
  BY <1>4 DEF Outcomes
<1> QED
  BY <1>1, <1>2, <1>3, <1>4, <1>5, <1>6, <1>7, <1>8

LEMMA MonusIs ==
  ASSUME NEW x \in Int, NEW y \in Int
  PROVE  Monus(x, y) \in Nat /\ (x >= y => Monus(x, y) = x - y) /\ (x <= y => Monus(x, y) = 0)
BY DEF Monus, AtLeast

LEMMA BenchStarts == BenchInit => BenchInv
<1> SUFFICES ASSUME BenchInit PROVE BenchInv
  OBVIOUS
<1>1. WarmupRounds \in Nat /\ Rounds \in Nat \ {0}
  BY BenchmarkAssumption
<1>2. Fresh \in Counters /\ Fresh.bytes = 0 /\ Fresh.failures = 0
  BY DEF Fresh, Counters
<1>3. /\ counters = [s \in Measured |-> Fresh]
      /\ prev = [s \in Measured |-> [bytes |-> 0, failures |-> 0]] /\ first = prev
      /\ accum = [s \in Measured |-> [success_rounds |-> 0, failures |-> 0, sum |-> 0]]
      /\ launches = [s \in Measured |-> 0] /\ worker = [s \in Measured |-> "none"]
      /\ backoff = {} /\ round = 0 /\ awaited = {}
      /\ phase \in {"report", "sweep"} /\ unread \subseteq Measured
      /\ phase = "report" => round >= WarmupRounds
  BY DEF BenchInit, AfterSweep, UnreadAfterSweep
<1>4. [bytes |-> 0, failures |-> 0] \in Snapshots
      /\ [success_rounds |-> 0, failures |-> 0, sum |-> 0] \in Sums
  BY DEF Snapshots, Sums
<1>5. 0 \in 0 .. WarmupRounds + Rounds
  BY <1>1
<1>6. BenchTyped
  BY <1>2, <1>3, <1>4, <1>5 DEF BenchTyped
<1>7. ASSUME NEW s \in Measured PROVE Launched(s)
  BY <1>2, <1>3 DEF Launched, Working, Pending, Outcomes
<1>8. ASSUME NEW s \in Measured PROVE Accounted(s)
  <2>1. RoundsRead(s) \in Nat
    BY <1>1, <1>3, MonusIs DEF RoundsRead
  <2> QED
    BY <1>2, <1>3, <2>1 DEF Accounted
<1> QED
  BY <1>3, <1>6, <1>7, <1>8 DEF BenchInv, LaunchInv, AccumInv

\* What a step does not touch stays accounted for.
LEMMA LaunchedKept ==
  ASSUME BenchTyped, NEW s \in Measured, Launched(s), round' \in Nat, round' >= round,
         counters'[s] = counters[s], worker'[s] = worker[s], launches'[s] = launches[s],
         s \in awaited' => s \in awaited
  PROVE  Launched(s)'
<1>1. Pending(s)' <= Pending(s) /\ Pending(s)' \in {0, 1}
  BY DEF Pending
<1>2. Working(s)' = Working(s) /\ Outcomes(s)' = Outcomes(s)
  BY DEF Working, Outcomes
<1> DEFINE P == Pending(s)'
<1>3. P <= Pending(s) /\ P \in {0, 1}
  BY <1>1
<1>4. Outcomes(s) + Working(s) + P <= 2 * launches[s]
  <2> HIDE DEF P
  <2> QED
    BY <1>3, BenchNumbers DEF Launched
<1>5. launches[s] <= round'
  BY BenchNumbers DEF Launched
<1> QED
  BY <1>2, <1>4, <1>5 DEF Launched

LEMMA AccountedKept ==
  ASSUME BenchTyped, NEW s \in Measured, Accounted(s),
         RoundsRead(s)' \in Nat, RoundsRead(s) \in Nat, RoundsRead(s)' >= RoundsRead(s),
         counters'[s].bytes \in Nat, counters'[s].failures \in Nat,
         counters'[s].bytes >= counters[s].bytes,
         counters'[s].failures >= counters[s].failures,
         prev'[s] = prev[s], first'[s] = first[s], accum'[s] = accum[s]
  PROVE  Accounted(s)'
<1>1. /\ prev[s].bytes <= counters'[s].bytes /\ prev[s].failures <= counters'[s].failures
  BY BenchNumbers DEF Accounted
<1>2. accum[s].success_rounds <= RoundsRead(s)'
  BY BenchNumbers DEF Accounted
<1> QED
  BY <1>1, <1>2 DEF Accounted

LEMMA RoundsReadIs ==
  ASSUME BenchTyped, NEW s \in Measured
  PROVE  RoundsRead(s) \in Nat
<1>0. PICK r \in Int, q \in Int, w \in Int : r = round /\ q = round - 1 /\ w = WarmupRounds
  BY BenchNumbers
<1>1. Monus(round - 1, WarmupRounds) \in Nat /\ Monus(round, WarmupRounds) \in Nat
  <2>1. Monus(q, w) \in Nat /\ Monus(r, w) \in Nat
    BY MonusIs
  <2> QED
    BY <1>0, <2>1
<1> QED
  BY <1>1 DEF RoundsRead

LEMMA StoredIs ==
  ASSUME NEW c \in Counters, NEW h \in {Good, Flat}
  PROVE  /\ Stored(c, h) \in Counters
         /\ Stored(c, h).bytes = c.bytes + 1 /\ Stored(c, h).failures = c.failures
<1>1. CASE h = Good
  BY <1>1 DEF Stored, Counters, Good
<1>2. CASE h = Flat
  BY <1>2 DEF Stored, Counters, Flat
<1> QED
  BY <1>1, <1>2

LEMMA FailedIs ==
  ASSUME NEW c \in Counters
  PROVE  /\ Failed(c) \in Counters
         /\ Failed(c).bytes = c.bytes /\ Failed(c).failures = c.failures + 1
BY DEF Failed, Counters

\* The steps of workers, of backoffs and of the timeout mark.
LEMMA WorkerKeeps ==
  ASSUME BenchInv, NEW s \in Measured,
         Collects(s) \/ Answers(s) \/ BackoffOver(s) \/ MarkSilent(s)
  PROVE  BenchInv'
<1>1. /\ BenchTyped /\ LaunchInv /\ AccumInv
      /\ UNCHANGED <<prev, accum, first, phase, round, unread, launches>>
  BY DEF BenchInv, Collects, Answers, BackoffOver, MarkSilent, NoRounds
<1>2. /\ worker' \in [Measured -> {"none", "collecting", "stored"}]
      /\ backoff' \subseteq Measured /\ awaited' \subseteq awaited
      /\ \A t \in Measured : t # s => worker'[t] = worker[t]
  BY <1>1 DEF BenchTyped, Collects, Answers, BackoffOver, MarkSilent
\* What one collection, or one mark, adds to a source's counters.
<1>3. /\ counters' \in [Measured -> Counters]
      /\ \A t \in Measured : t # s => counters'[t] = counters[t]
      /\ \/ UNCHANGED counters
         \/ /\ counters'[s].bytes = counters[s].bytes + 1
            /\ counters'[s].failures = counters[s].failures
         \/ /\ counters'[s].bytes = counters[s].bytes
            /\ counters'[s].failures = counters[s].failures + 1
  <2>1. counters \in [Measured -> Counters] /\ counters[s] \in Counters
    BY <1>1 DEF BenchTyped
  <2>2. ASSUME NEW c \in Counters, counters' = [counters EXCEPT ![s] = c]
        PROVE  /\ counters' \in [Measured -> Counters] /\ counters'[s] = c
               /\ \A t \in Measured : t # s => counters'[t] = counters[t]
    BY <2>1, <2>2
  <2>3. CASE counters' = [counters EXCEPT ![s] = Failed(counters[s])]
    BY <2>1, <2>2, <2>3, FailedIs
  <2>4. ASSUME NEW h \in {Good, Flat}, counters' = [counters EXCEPT ![s] = Stored(counters[s], h)]
        PROVE  /\ counters' \in [Measured -> Counters]
               /\ \A t \in Measured : t # s => counters'[t] = counters[t]
               /\ counters'[s].bytes = counters[s].bytes + 1
               /\ counters'[s].failures = counters[s].failures
    BY <2>1, <2>2, <2>4, StoredIs
  <2>5. CASE UNCHANGED counters
    BY <2>1, <2>5
  <2>6. \/ UNCHANGED counters
        \/ counters' = [counters EXCEPT ![s] = Failed(counters[s])]
        \/ \E h \in {Good, Flat} : counters' = [counters EXCEPT ![s] = Stored(counters[s], h)]
    BY DEF Collects, Answers, BackoffOver, MarkSilent
  <2> QED
    BY <2>3, <2>4, <2>5, <2>6
<1>4. BenchTyped'
  BY <1>1, <1>2, <1>3 DEF BenchTyped
<1>5. /\ counters[s].bytes \in Nat /\ counters[s].failures \in Nat
      /\ launches[s] \in Nat /\ round \in Nat
  BY <1>1, BenchNumbers
<1>6. Launched(s)
  BY <1>1 DEF LaunchInv
<1>7. Launched(s)'
  <2>1. launches[s] <= round
    BY <1>6 DEF Launched
  <2>2. CASE Collects(s)
    <3>1. Working(s) = 1 /\ Working(s)' = 0 /\ Pending(s)' = Pending(s)
      BY <1>1, <2>2 DEF Collects, Working, Pending, BenchTyped
    <3>2. Outcomes(s)' = Outcomes(s) + 1 /\ counters'[s].bytes <= counters[s].bytes + 1
          /\ counters'[s].bytes \in Nat
      <4>1. ~UNCHANGED counters
        <5>1. counters \in [Measured -> Counters] /\ counters[s] \in Counters
          BY <1>1 DEF BenchTyped
        <5>2. \/ counters' = [counters EXCEPT ![s] = Failed(counters[s])]
              \/ \E h \in {Good, Flat} : counters' = [counters EXCEPT ![s] = Stored(counters[s], h)]
          BY <2>2 DEF Collects
        <5>3. \/ counters'[s] = Failed(counters[s])
              \/ \E h \in {Good, Flat} : counters'[s] = Stored(counters[s], h)
          BY <5>1, <5>2
        <5>4. \/ counters'[s].bytes = counters[s].bytes + 1
              \/ counters'[s].failures = counters[s].failures + 1
          BY <5>1, <5>3, FailedIs, StoredIs
        <5> QED
          BY <1>5, <5>4
      <4> QED
        BY <1>3, <1>5, <4>1 DEF Outcomes
    <3>3. Pending(s) \in {0, 1} /\ Outcomes(s) \in Nat
      BY <1>1, BenchNumbers
    <3>4. /\ counters[s].bytes + 1 <= launches[s]
          /\ Outcomes(s) + 1 + Pending(s) <= 2 * launches[s]
          /\ Outcomes(s) + 1 >= launches[s]
      BY <1>6, <3>1 DEF Launched
    <3>5. /\ counters'[s].bytes + 0 <= launches[s]
          /\ Outcomes(s) + 1 + 0 + Pending(s) <= 2 * launches[s]
          /\ Outcomes(s) + 1 + 0 >= launches[s]
      BY <1>5, <3>2, <3>3, <3>4
    <3> QED
      BY <1>1, <2>1, <3>1, <3>2, <3>5 DEF Launched
  <2>3. CASE Answers(s) \/ BackoffOver(s)
    <3>1. Working(s)' = Working(s) /\ UNCHANGED counters
      BY <1>1, <2>3 DEF Answers, BackoffOver, Working, BenchTyped
    <3>2. Pending(s)' <= Pending(s) /\ Pending(s)' \in {0, 1} /\ Outcomes(s)' = Outcomes(s)
      BY <1>2, <3>1 DEF Pending, Outcomes
    <3> DEFINE P == Pending(s)'
    <3>3. Outcomes(s) + Working(s) + P <= 2 * launches[s]
      <4>1. P <= Pending(s) /\ P \in {0, 1}
        BY <3>2
      <4>2. /\ Pending(s) \in {0, 1} /\ Working(s) \in {0, 1} /\ Outcomes(s) \in Nat
            /\ Outcomes(s) + Working(s) + Pending(s) <= 2 * launches[s]
        BY <1>1, <1>6, BenchNumbers DEF Launched
      <4> HIDE DEF P
      <4> QED
        BY <1>5, <4>1, <4>2
    <3> QED
      BY <1>1, <1>6, <3>1, <3>2, <3>3 DEF Launched
  <2>4. CASE MarkSilent(s)
    <3>1. Pending(s) = 1 /\ Pending(s)' = 0 /\ Working(s)' = Working(s)
      BY <2>4 DEF MarkSilent, Pending, Working
    <3>2. Outcomes(s)' \in {Outcomes(s), Outcomes(s) + 1} /\ counters'[s].bytes = counters[s].bytes
      <4>1. \/ UNCHANGED counters
            \/ /\ counters'[s].bytes = counters[s].bytes
               /\ counters'[s].failures = counters[s].failures + 1
        <5>1. counters \in [Measured -> Counters] /\ counters[s] \in Counters
          BY <1>1 DEF BenchTyped
        <5>2. UNCHANGED counters \/ counters' = [counters EXCEPT ![s] = Failed(counters[s])]
          BY <2>4 DEF MarkSilent
        <5>3. UNCHANGED counters \/ counters'[s] = Failed(counters[s])
          BY <5>1, <5>2
        <5> QED
          BY <5>1, <5>3, FailedIs
      <4> QED
        BY <1>5, <4>1 DEF Outcomes
    <3>3. Working(s) \in {0, 1} /\ Outcomes(s) \in Nat
      BY <1>1, BenchNumbers
    <3>4. /\ Outcomes(s) + Working(s) + 1 <= 2 * launches[s]
          /\ Outcomes(s) + Working(s) >= launches[s]
      BY <1>6, <3>1 DEF Launched
    <3> DEFINE O == Outcomes(s)'
    <3>5. O + Working(s) + 0 <= 2 * launches[s] /\ O + Working(s) >= launches[s]
      <4>1. O \in {Outcomes(s), Outcomes(s) + 1}
        BY <3>2
      <4> HIDE DEF O
      <4> QED
        BY <1>5, <3>3, <3>4, <4>1
    <3> QED
      BY <1>1, <1>6, <3>1, <3>2, <3>5 DEF Launched
  <2> QED
    BY <2>2, <2>3, <2>4
<1>8. ASSUME NEW t \in Measured, t # s PROVE Launched(t)'
  <2>1. /\ Launched(t) /\ round' \in Nat /\ round' >= round
        /\ counters'[t] = counters[t] /\ worker'[t] = worker[t] /\ launches'[t] = launches[t]
        /\ t \in awaited' => t \in awaited
    BY <1>1, <1>2, <1>3, <1>5, <1>8 DEF LaunchInv
  <2> QED
    BY <1>1, <2>1, LaunchedKept
<1>9. ASSUME NEW t \in Measured PROVE Accounted(t)'
  <2>1. RoundsRead(t)' = RoundsRead(t)
    BY <1>1 DEF RoundsRead
  <2>2. RoundsRead(t) \in Nat
    BY <1>1, RoundsReadIs
  <2>3. counters[t].bytes \in Nat /\ counters[t].failures \in Nat
    BY <1>1, BenchNumbers
  <2>4. /\ counters'[t].bytes \in Nat /\ counters'[t].failures \in Nat
        /\ counters'[t].bytes >= counters[t].bytes
        /\ counters'[t].failures >= counters[t].failures
    <3>1. CASE t # s
      BY <1>3, <2>3, <3>1
    <3>2. CASE t = s
      BY <1>3, <1>5, <3>2
    <3> QED
      BY <3>1, <3>2
  <2>5. Accounted(t) /\ prev'[t] = prev[t] /\ first'[t] = first[t] /\ accum'[t] = accum[t]
    BY <1>1 DEF AccumInv
  <2>6. RoundsRead(t)' \in Nat /\ RoundsRead(t)' >= RoundsRead(t)
    BY <2>1, <2>2
  <2> QED
    BY <1>1, <2>2, <2>4, <2>5, <2>6, AccountedKept
<1>10. LaunchInv'
  BY <1>7, <1>8 DEF LaunchInv
<1>11. AccumInv'
  BY <1>1, <1>9 DEF AccumInv
<1> QED
  BY <1>4, <1>10, <1>11 DEF BenchInv

\* A sweep takes on the sources that are free: one worker, awaited, for each.
LEMMA SweepKeeps == ASSUME BenchInv, BeginSweep PROVE BenchInv'
<1>1. /\ BenchTyped /\ LaunchInv /\ AccumInv /\ phase = "sweep" /\ phase' = "wait"
      /\ round < WarmupRounds + Rounds /\ round' = round + 1 /\ awaited' = Launchable
      /\ worker' = [s \in Measured |-> IF s \in Launchable THEN "collecting" ELSE worker[s]]
      /\ launches' = [s \in Measured |-> launches[s] + IF s \in Launchable THEN 1 ELSE 0]
      /\ UNCHANGED <<counters, prev, accum, first, backoff, unread>>
  BY DEF BenchInv, BeginSweep, NoRounds
<1>2. WarmupRounds \in Nat /\ Rounds \in Nat /\ round \in 0 .. WarmupRounds + Rounds
  BY <1>1, BenchmarkAssumption DEF BenchTyped
<1>3. round \in Nat /\ round' \in Nat /\ round' \in 0 .. WarmupRounds + Rounds
  BY <1>1, <1>2
<1>4. Launchable \subseteq Measured
  BY DEF Launchable
<1>5. launches' \in [Measured -> Nat]
  BY <1>1 DEF BenchTyped
<1>6. worker' \in [Measured -> {"none", "collecting", "stored"}]
  BY <1>1 DEF BenchTyped
<1>7. BenchTyped'
  BY <1>1, <1>3, <1>4, <1>5, <1>6 DEF BenchTyped
<1>8. ASSUME NEW s \in Measured PROVE Launched(s)'
  <2>1. /\ launches[s] <= round /\ counters[s].bytes + Working(s) <= launches[s]
        /\ Outcomes(s) + Working(s) + Pending(s) <= 2 * launches[s]
        /\ Outcomes(s) + Working(s) >= launches[s]
    BY <1>1 DEF LaunchInv, Launched
  <2>2. /\ counters[s].bytes \in Nat /\ launches[s] \in Nat /\ Outcomes(s) \in Nat
        /\ Working(s) \in {0, 1} /\ Pending(s) \in {0, 1}
    BY <1>1, BenchNumbers
  <2>3. Outcomes(s)' = Outcomes(s) /\ counters'[s] = counters[s]
    BY <1>1 DEF Outcomes
  <2>4. CASE s \in Launchable
    <3>1. Working(s) = 0
      BY <2>4 DEF Launchable, Working
    <3>2. Working(s)' = 1 /\ Pending(s)' = 1 /\ launches'[s] = launches[s] + 1
      BY <1>1, <2>4 DEF Working, Pending
    <3>3. /\ launches[s] + 1 <= round + 1 /\ counters[s].bytes + 1 <= launches[s] + 1
          /\ Outcomes(s) + 1 + 1 <= 2 * (launches[s] + 1) /\ Outcomes(s) + 1 >= launches[s] + 1
      BY <1>3, <2>1, <2>2, <3>1
    <3> QED
      BY <1>1, <2>3, <3>2, <3>3 DEF Launched
  <2>5. CASE s \notin Launchable
    <3>1. Working(s)' = Working(s) /\ Pending(s)' = 0 /\ launches'[s] = launches[s]
      BY <1>1, <2>2, <2>5 DEF Working, Pending
    <3>2. launches[s] <= round + 1 /\ Outcomes(s) + Working(s) + 0 <= 2 * launches[s]
      BY <1>3, <2>1, <2>2
    <3> QED
      BY <1>1, <2>1, <2>3, <3>1, <3>2 DEF Launched
  <2> QED
    BY <2>4, <2>5
<1>9. ASSUME NEW s \in Measured PROVE Accounted(s)'
  <2>1. RoundsRead(s) = Monus(round, WarmupRounds)
    BY <1>1 DEF RoundsRead
  <2>2. RoundsRead(s)' = Monus(round' - 1, WarmupRounds)
    BY <1>1 DEF RoundsRead
  <2>3. round' - 1 = round
    BY <1>1, <1>3
  <2>4. RoundsRead(s)' = RoundsRead(s) /\ RoundsRead(s) \in Nat
    BY <1>1, <2>1, <2>2, <2>3, RoundsReadIs
  <2> QED
    BY <1>1, <2>4 DEF AccumInv, Accounted
<1>10. round' <= WarmupRounds => first' = prev'
  BY <1>1, <1>2, <1>3 DEF AccumInv
<1> QED
  BY <1>7, <1>8, <1>9, <1>10 DEF BenchInv, LaunchInv, AccumInv

\* The benchmark goes on to the next part of the round.
LEMMA PhaseKeeps == ASSUME BenchInv, EndWait \/ EndMark \/ EndRound PROVE BenchInv'
<1>1. /\ BenchTyped /\ LaunchInv /\ AccumInv
      /\ UNCHANGED <<worker, counters, backoff, round, awaited, launches, prev, accum, first>>
  BY DEF BenchInv, EndWait, EndMark, EndRound, NoRounds
<1>2. WarmupRounds \in Nat /\ Rounds \in Nat /\ round \in 0 .. WarmupRounds + Rounds /\ round \in Nat
  BY <1>1, BenchmarkAssumption DEF BenchTyped
<1>3. BenchTyped'
  <2>1. phase' \in {"sweep", "wait", "mark", "report", "done"} /\ unread' \subseteq Measured
    BY <1>1 DEF BenchTyped, EndWait, EndMark, EndRound, AfterSweep, UnreadAfterSweep
  <2>2. phase' = "report" => round >= WarmupRounds
    BY <1>1 DEF EndWait, EndMark, EndRound, AfterSweep
  <2> QED
    BY <1>1, <2>1, <2>2 DEF BenchTyped
<1>4. LaunchInv'
  BY <1>1 DEF LaunchInv, Launched, Working, Pending, Outcomes
<1>5. ASSUME NEW s \in Measured PROVE RoundsRead(s)' >= RoundsRead(s) /\ RoundsRead(s)' \in Nat
  <2>1. RoundsRead(s) \in Nat
    BY <1>1, RoundsReadIs
  <2>2. CASE EndWait
    BY <1>1, <2>1, <2>2 DEF EndWait, RoundsRead
  <2>3. CASE EndRound
    BY <1>1, <2>1, <2>3 DEF EndRound, RoundsRead
  <2>4. CASE EndMark /\ round >= WarmupRounds
    BY <1>1, <2>1, <2>4 DEF EndMark, RoundsRead, AfterSweep, UnreadAfterSweep
  <2>5. CASE EndMark /\ ~(round >= WarmupRounds)
    <3>1. RoundsRead(s) = Monus(round - 1, WarmupRounds) /\ RoundsRead(s)' = Monus(round, WarmupRounds)
      BY <1>1, <2>5 DEF EndMark, RoundsRead, AfterSweep
    <3>2. PICK r \in Int, w \in Int : r = round /\ w = WarmupRounds
      BY <1>2
    <3>3. Monus(r - 1, w) = 0 /\ Monus(r, w) = 0
      <4>1. r <= w /\ r - 1 <= w /\ r - 1 \in Int
        BY <1>2, <2>5, <3>2
      <4> QED
        BY <4>1, MonusIs
    <3> QED
      BY <3>1, <3>2, <3>3
  <2> QED
    BY <2>2, <2>3, <2>4, <2>5
<1>6. ASSUME NEW s \in Measured PROVE Accounted(s)'
  <2>1. Accounted(s) /\ RoundsRead(s) \in Nat
    BY <1>1, RoundsReadIs DEF AccumInv
  <2>2. /\ counters'[s].bytes \in Nat /\ counters'[s].failures \in Nat
        /\ counters'[s].bytes >= counters[s].bytes
        /\ counters'[s].failures >= counters[s].failures
    BY <1>1, BenchNumbers
  <2>3. prev'[s] = prev[s] /\ first'[s] = first[s] /\ accum'[s] = accum[s]
    BY <1>1
  <2> QED
    BY <1>1, <1>5, <2>1, <2>2, <2>3, AccountedKept
<1>7. round' <= WarmupRounds => first' = prev'
  BY <1>1 DEF AccumInv
<1> QED
  BY <1>3, <1>4, <1>6, <1>7 DEF BenchInv, AccumInv

\* What a report adds to the row of a source: the difference since the last one.
LEMMA AccountIs ==
  ASSUME BenchTyped, NEW s \in Measured, Accounted(s), NEW a \in Sums
  PROVE  /\ Account(a, s) \in Sums
         /\ Account(a, s).failures = a.failures + (counters[s].failures - prev[s].failures)
         /\ Account(a, s).success_rounds \in a.success_rounds .. a.success_rounds + 1
         /\ Account(a, s).success_rounds - a.success_rounds <= counters[s].bytes - prev[s].bytes
<1>1. /\ counters[s].bytes \in Nat /\ counters[s].failures \in Nat
      /\ prev[s].bytes \in Nat /\ prev[s].failures \in Nat
  BY BenchNumbers
<1>2. prev[s].bytes <= counters[s].bytes /\ prev[s].failures <= counters[s].failures
  BY DEF Accounted
<1>3. counters[s].entropy \in Nat
  <2>1. counters[s] \in Counters
    BY DEF BenchTyped
  <2> QED
    BY <2>1 DEF Counters, Good, Flat
<1>4. PICK cb \in Nat, cf \in Nat, pb \in Nat, pf \in Nat, e \in Nat :
        /\ cb = counters[s].bytes /\ cf = counters[s].failures
        /\ pb = prev[s].bytes /\ pf = prev[s].failures /\ e = counters[s].entropy
  BY <1>1, <1>3
<1>5. pb <= cb /\ pf <= cf
  BY <1>2, <1>4
<1>6. Monus(cb, pb) = cb - pb /\ Monus(cf, pf) = cf - pf
  BY <1>5, MonusIs
<1>7. Delta(s).bytes = cb - pb /\ Delta(s).failures = cf - pf
  BY <1>4, <1>6 DEF Delta
<1>8. a.success_rounds \in Nat /\ a.failures \in Nat /\ a.sum \in Nat
  BY DEF Sums
<1>9. Account(a, s) = [success_rounds |-> a.success_rounds + (IF cb - pb > 0 THEN 1 ELSE 0),
                       failures       |-> a.failures + (cf - pf),
                       sum            |-> a.sum + (IF cb - pb > 0 THEN e ELSE 0)]
  BY <1>4, <1>7 DEF Account
<1>10. /\ a.success_rounds + (IF cb - pb > 0 THEN 1 ELSE 0) \in Nat
       /\ a.failures + (cf - pf) \in Nat
       /\ a.sum + (IF cb - pb > 0 THEN e ELSE 0) \in Nat
  BY <1>5, <1>8
<1>11. Account(a, s) \in Sums
  BY <1>9, <1>10 DEF Sums
<1>12. Account(a, s).success_rounds = a.success_rounds + (IF cb - pb > 0 THEN 1 ELSE 0)
       /\ Account(a, s).failures = a.failures + (cf - pf)
  BY <1>9
<1>13. LET n == a.success_rounds + (IF cb - pb > 0 THEN 1 ELSE 0)
       IN  n \in a.success_rounds .. a.success_rounds + 1 /\ n - a.success_rounds <= cb - pb
  BY <1>5, <1>8
<1> QED
  BY <1>4, <1>11, <1>12, <1>13

LEMMA ReadKeeps == ASSUME BenchInv, NEW s \in Measured, ReadHealth(s) PROVE BenchInv'
<1>1. /\ BenchTyped /\ LaunchInv /\ AccumInv /\ phase = "report" /\ s \in unread
      /\ unread' = unread \ {s} /\ prev' = [prev EXCEPT ![s] = Snapshot(s)]
      /\ UNCHANGED <<worker, counters, backoff, phase, round, awaited, launches>>
  BY DEF BenchInv, ReadHealth
<1>2. WarmupRounds \in Nat /\ Rounds \in Nat /\ round \in Nat /\ round >= WarmupRounds
  BY <1>1, BenchmarkAssumption DEF BenchTyped
<1>3. /\ counters[s] \in Counters /\ accum[s] \in Sums
      /\ prev \in [Measured -> Snapshots] /\ first \in [Measured -> Snapshots]
      /\ accum \in [Measured -> Sums]
  BY <1>1 DEF BenchTyped
<1>4. Snapshot(s) \in Snapshots /\ Snapshot(s).bytes = counters[s].bytes
      /\ Snapshot(s).failures = counters[s].failures
  BY <1>3 DEF Snapshot, Snapshots, Counters
<1>5. /\ prev' \in [Measured -> Snapshots] /\ prev'[s] = Snapshot(s)
      /\ \A t \in Measured : t # s => prev'[t] = prev[t]
  BY <1>1, <1>3, <1>4
<1>6. Accounted(s)
  BY <1>1 DEF AccumInv
<1>7. LaunchInv'
  BY <1>1 DEF LaunchInv, Launched, Working, Pending, Outcomes
<1>8. ASSUME NEW t \in Measured, t # s, first'[t] = first[t], accum'[t] = accum[t]
      PROVE  Accounted(t)'
  <2>1. RoundsRead(t)' = RoundsRead(t)
    <3>1. t \in unread' <=> t \in unread
      BY <1>1, <1>8
    <3> QED
      BY <1>1, <3>1 DEF RoundsRead
  <2>2. Accounted(t) /\ prev'[t] = prev[t] /\ counters'[t] = counters[t]
    BY <1>1, <1>5, <1>8 DEF AccumInv
  <2> QED
    BY <1>8, <2>1, <2>2 DEF Accounted
<1>9. RoundsRead(s) = Monus(round - 1, WarmupRounds) /\ RoundsRead(s)' = Monus(round, WarmupRounds)
  BY <1>1 DEF RoundsRead
<1>10. PICK r \in Int, w \in Int : r = round /\ w = WarmupRounds
  BY <1>2
<1>11. /\ counters[s].bytes \in Nat /\ counters[s].failures \in Nat
       /\ prev[s].bytes \in Nat /\ prev[s].failures \in Nat
       /\ first[s].bytes \in Nat /\ first[s].failures \in Nat
       /\ accum[s].success_rounds \in Nat /\ accum[s].failures \in Nat
  BY <1>1, BenchNumbers
\* The report that ends the warm-up is the snapshot.
<1>12. CASE round = WarmupRounds
  <2>1. first' = prev' /\ UNCHANGED accum
    BY <1>12 DEF ReadHealth
  <2>2. first = prev
    BY <1>1, <1>2, <1>12 DEF AccumInv
  <2>3. RoundsRead(s) = 0 /\ RoundsRead(s)' = 0
    <3>1. r <= w /\ r - 1 <= w /\ r - 1 \in Int
      BY <1>10, <1>12
    <3>2. Monus(r, w) = 0 /\ Monus(r - 1, w) = 0
      BY <3>1, MonusIs
    <3> QED
      BY <1>9, <1>10, <3>2
  <2>4. accum[s].success_rounds = 0 /\ accum[s].failures = 0
    BY <1>6, <1>11, <2>2, <2>3 DEF Accounted
  <2>5. Accounted(s)'
    <3>1. first'[s] = prev'[s] /\ prev'[s].bytes = counters[s].bytes
          /\ prev'[s].failures = counters[s].failures /\ counters'[s] = counters[s]
          /\ accum'[s] = accum[s]
      BY <1>1, <1>4, <1>5, <2>1
    <3> QED
      BY <1>11, <2>3, <2>4, <3>1 DEF Accounted
  <2>6. ASSUME NEW t \in Measured, t # s PROVE first'[t] = first[t] /\ accum'[t] = accum[t]
    BY <1>5, <2>1, <2>2, <2>6
  <2>7. BenchTyped'
    BY <1>1, <1>5, <2>1 DEF BenchTyped
  <2> QED
    BY <1>7, <1>8, <2>1, <2>5, <2>6, <2>7 DEF BenchInv, AccumInv
\* Any later one is counted.
<1>13. CASE round # WarmupRounds
  <2>1. accum' = [accum EXCEPT ![s] = Account(accum[s], s)] /\ UNCHANGED first
    BY <1>13 DEF ReadHealth
  <2>2. PICK a \in Sums : a = Account(accum[s], s)
    BY <1>1, <1>3, <1>6, AccountIs
  <2>3. /\ a.failures = accum[s].failures + (counters[s].failures - prev[s].failures)
        /\ a.success_rounds \in accum[s].success_rounds .. accum[s].success_rounds + 1
        /\ a.success_rounds - accum[s].success_rounds <= counters[s].bytes - prev[s].bytes
    BY <1>1, <1>3, <1>6, <2>2, AccountIs
  <2>4. /\ accum' \in [Measured -> Sums] /\ accum'[s] = a
        /\ \A t \in Measured : t # s => accum'[t] = accum[t]
    BY <1>3, <2>1, <2>2
  <2>5. RoundsRead(s) \in Nat /\ RoundsRead(s)' = RoundsRead(s) + 1
    <3>1. r >= w /\ r - 1 >= w /\ r - 1 \in Int
      BY <1>2, <1>10, <1>13
    <3>2. Monus(r, w) = r - w /\ Monus(r - 1, w) = r - 1 - w
      BY <3>1, MonusIs
    <3>3. Monus(r, w) = Monus(r - 1, w) + 1 /\ Monus(r - 1, w) \in Nat
      BY <3>1, <3>2
    <3> QED
      BY <1>9, <1>10, <3>3
  <2>6. Accounted(s)'
    <3>1. /\ prev'[s].bytes = counters[s].bytes /\ prev'[s].failures = counters[s].failures
          /\ counters'[s] = counters[s] /\ first'[s] = first[s] /\ accum'[s] = a
      BY <1>1, <1>4, <1>5, <2>1, <2>4
    <3>2. a.success_rounds \in Nat /\ a.failures \in Nat
      BY DEF Sums
    <3>3. /\ a.success_rounds <= RoundsRead(s) + 1
          /\ a.success_rounds + first[s].bytes <= counters[s].bytes
          /\ a.failures + first[s].failures = counters[s].failures
      BY <1>6, <1>11, <2>3, <2>5, <3>2 DEF Accounted
    <3> QED
      BY <1>11, <2>5, <3>1, <3>3 DEF Accounted
  <2>7. BenchTyped'
    BY <1>1, <1>5, <2>1, <2>4 DEF BenchTyped
  <2>8. ~(round' <= WarmupRounds)
    BY <1>1, <1>2, <1>13
  <2>9. ASSUME NEW t \in Measured, t # s PROVE first'[t] = first[t] /\ accum'[t] = accum[t]
    BY <2>1, <2>4, <2>9
  <2> QED
    BY <1>7, <1>8, <2>6, <2>7, <2>8, <2>9 DEF BenchInv, AccumInv
<1> QED
  BY <1>12, <1>13

LEMMA BenchStep == ASSUME BenchInv, [BenchNext]_bench PROVE BenchInv'
<1>1. CASE UNCHANGED bench
  BY <1>1 DEF bench, BenchInv, BenchTyped, LaunchInv, AccumInv, Launched, Accounted, RoundsRead,
     Working, Pending, Outcomes
<1>2. CASE BenchNext
  BY <1>2, WorkerKeeps, SweepKeeps, PhaseKeeps, ReadKeeps DEF BenchNext
<1> QED
  BY <1>1, <1>2

LEMMA QuotientIs ==
  ASSUME NEW x \in Nat, NEW y \in Nat \ {0}
  PROVE  x \div y \in Nat
OBVIOUS

LEMMA ClampIs ==
  ASSUME NEW x \in Int, NEW n \in Nat
  PROVE  Clamp(x, 0, n) \in 0 .. n
BY DEF Clamp, AtMost, AtLeast

LEMMA ProductIsPositive ==
  ASSUME NEW x \in Nat \ {0}, NEW y \in Nat \ {0}
  PROVE  x * y > 0
OBVIOUS

\* A row that says its source is healthy is of one that gave bytes, and has a score.
LEMMA HealthyRow ==
  ASSUME BenchTyped, NEW s \in Measured, Accounted(s), Row(s).healthy
  PROVE  counters[s].bytes > 0 /\ Row(s).score > 0
<1>1. /\ accum[s].success_rounds \in Nat /\ accum[s].failures \in Nat /\ accum[s].sum \in Nat
      /\ counters[s].bytes \in Nat /\ prev[s].bytes \in Nat /\ first[s].bytes \in Nat
      /\ Rounds \in Nat \ {0}
  BY BenchNumbers
<1>2. PICK n \in Nat, f \in Nat, m \in Nat :
        n = accum[s].success_rounds /\ f = accum[s].failures /\ m = accum[s].sum
  BY <1>1
<1> DEFINE avg == IF n > 0 THEN m \div n ELSE 0
           row == [min_entropy |-> avg, success_rounds |-> n, failures |-> f]
<1>3. avg > 1000 /\ Row(s).score = score_row("MinEntropy", row, 0, Rounds)
  <2>1. PICK h \in BOOLEAN : h <=> avg > 1000 /\ f = 0
    OBVIOUS
  <2>2. Row(s) = [row |-> row, healthy |-> h, score |-> score_row("MinEntropy", row, 0, Rounds)]
    BY <1>2, <2>1 DEF Row
  <2> HIDE DEF avg, row
  <2>3. Row(s).healthy = h /\ Row(s).score = score_row("MinEntropy", row, 0, Rounds)
    BY <2>2
  <2> QED
    BY <2>1, <2>3
<1>4. avg \in Nat /\ (avg > 0 => n > 0)
  BY QuotientIs
<1>5. avg \in Nat \ {0} /\ n > 0
  <2> HIDE DEF avg
  <2> QED
    BY <1>3, <1>4
<1>6. counters[s].bytes > 0
  BY <1>1, <1>2, <1>5 DEF Accounted
<1>7. PICK k \in Int : k = Monus(Rounds, n) + f
  BY <1>1, MonusIs
<1>8. PICK c \in 0 .. Rounds : c = Clamp(k, 0, Rounds)
  BY <1>1, ClampIs
<1>9. PICK x \in Nat \ {0} : x = 10 * avg
  <2> HIDE DEF avg
  <2> QED
    BY <1>5
<1>10. PICK y \in Nat \ {0} : y = 2 * Rounds - c
  BY <1>1, <1>8
<1>11. score_row("MinEntropy", row, 0, Rounds) = x * y
  <2>1. BaseScore("MinEntropy", row, 0) = 10 * avg
    BY DEF BaseScore
  <2>2. row.success_rounds = n /\ row.failures = f
    OBVIOUS
  <2> HIDE DEF row, avg
  <2> QED
    BY <2>1, <2>2, <1>7, <1>8, <1>9, <1>10 DEF score_row
<1>12. x * y > 0
  BY ProductIsPositive
<1> QED
  BY <1>3, <1>6, <1>11, <1>12

(* However late its workers are, a source has no more rounds of success than *)
(* collections that gave bytes, and its failures once each; a worker counts  *)
(* once, and once more when it was given up; and a row is healthy only for a *)
(* source that gave bytes: for any sources and any number of rounds.         *)
THEOREM BenchmarkIsSound == Spec => []BenchmarkSound
<1>1. Init => BenchInv
  BY BenchStarts DEF Init
<1>2. BenchInv /\ [Next]_all => BenchInv'
  BY BenchStep DEF Next, all
<1>3. BenchInv => BenchmarkSound
  <2> SUFFICES ASSUME BenchInv PROVE BenchmarkSound
    OBVIOUS
  <2>1. BenchTyped /\ LaunchInv /\ AccumInv
    BY DEF BenchInv
  <2>2. WarmupRounds \in Nat /\ Rounds \in Nat /\ round \in 0 .. WarmupRounds + Rounds /\ round \in Nat
    BY <2>1, BenchmarkAssumption DEF BenchTyped
  <2>3. ASSUME NEW s \in Measured
        PROVE  /\ counters[s].entropy \in {0, Good, Flat} /\ counters[s].healthy \in BOOLEAN
               /\ counters[s].bytes \in Nat /\ counters[s].failures \in Nat
               /\ accum[s].failures \in Nat
               /\ accum[s].success_rounds \in 0 .. Rounds
               /\ launches[s] \in 0 .. WarmupRounds + Rounds
               /\ accum[s].success_rounds <= prev[s].bytes - first[s].bytes
               /\ accum[s].failures = prev[s].failures - first[s].failures
               /\ counters[s].bytes <= launches[s]
               /\ counters[s].bytes + counters[s].failures <= 2 * launches[s]
               /\ worker[s] = "none" => counters[s].bytes + counters[s].failures >= launches[s]
    <3>1. Accounted(s) /\ Launched(s)
      BY <2>1 DEF AccumInv, LaunchInv
    <3>2. /\ counters[s].bytes \in Nat /\ counters[s].failures \in Nat
          /\ prev[s].bytes \in Nat /\ prev[s].failures \in Nat
          /\ first[s].bytes \in Nat /\ first[s].failures \in Nat
          /\ accum[s].success_rounds \in Nat /\ accum[s].failures \in Nat /\ launches[s] \in Nat
          /\ Working(s) \in {0, 1} /\ Pending(s) \in {0, 1} /\ Outcomes(s) \in Nat
      BY <2>1, BenchNumbers
    <3>3. counters[s].entropy \in {0, Good, Flat} /\ counters[s].healthy \in BOOLEAN
      <4>1. counters[s] \in Counters
        BY <2>1 DEF BenchTyped
      <4> QED
        BY <4>1 DEF Counters
    <3>4. RoundsRead(s) \in 0 .. Rounds
      <4>1. PICK r \in Int, w \in Int : r = round /\ w = WarmupRounds
        BY <2>2
      <4>2. PICK q \in Int : q = r - 1
        OBVIOUS
      <4>3. r <= w + Rounds /\ q <= w + Rounds
        BY <2>2, <4>1, <4>2
      <4>4. ASSUME NEW x \in Int, x <= w + Rounds PROVE Monus(x, w) \in 0 .. Rounds
        <5>1. PICK d \in Nat : d = Monus(x, w)
          BY MonusIs
        <5>2. (x >= w => d = x - w) /\ (x <= w => d = 0)
          BY <5>1, MonusIs
        <5>3. d <= Rounds
          BY <2>2, <4>4, <5>2
        <5> QED
          BY <2>2, <5>1, <5>3
      <4> QED
        BY <4>1, <4>2, <4>3, <4>4 DEF RoundsRead
    <3>5. accum[s].success_rounds \in 0 .. Rounds
      BY <2>2, <3>1, <3>2, <3>4 DEF Accounted
    <3>6. launches[s] \in 0 .. WarmupRounds + Rounds
      BY <2>2, <3>1, <3>2 DEF Launched
    <3>7. /\ accum[s].success_rounds <= prev[s].bytes - first[s].bytes
          /\ accum[s].failures = prev[s].failures - first[s].failures
      BY <3>1, <3>2 DEF Accounted
    <3>8. Outcomes(s) <= 2 * launches[s] /\ counters[s].bytes <= launches[s]
      BY <3>1, <3>2 DEF Launched
    <3>9. worker[s] = "none" => Outcomes(s) >= launches[s]
      <4>1. worker[s] = "none" => Working(s) = 0
        BY DEF Working
      <4> QED
        BY <3>1, <3>2, <4>1 DEF Launched
    <3> QED
      BY <3>2, <3>3, <3>5, <3>6, <3>7, <3>8, <3>9 DEF Outcomes
  <2>4. ASSUME NEW s \in Measured, Row(s).healthy
        PROVE  counters[s].bytes > 0 /\ Row(s).score > 0
    <3>1. Accounted(s)
      BY <2>1 DEF AccumInv
    <3> QED
      BY <2>1, <2>4, <3>1, HealthyRow
  <2>5. BenchTypeOK
    BY <2>1, <2>3 DEF BenchTypeOK, BenchTyped
  <2> QED
    BY <2>3, <2>4, <2>5 DEF BenchmarkSound
<1> QED
  BY <1>1, <1>2, <1>3, PTL DEF Spec
=============================================================================
