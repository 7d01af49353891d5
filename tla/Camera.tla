-------------------------------- MODULE Camera --------------------------------
(***************************************************************************)
(* camera.rs: one ffmpeg process kept running, a thread that reads its     *)
(* frames into a cell, and collect, which starts the process when there is *)
(* none and drops it when the thread has said that it ended.  collect      *)
(* holds the camera's mutex from the first step to the last, so there is   *)
(* one at a time.                                                          *)
(***************************************************************************)
EXTENDS Integers, FiniteSets

CONSTANTS Ids,        \* the processes and their threads; one that is over is used again
          Selectors   \* how many inputs are tried

ASSUME CameraAssumption == Selectors \in Nat \ {0}

NoCamera == "no_camera"
ASSUME NoCameraAssumption == NoCamera \notin Ids

VARIABLES
  ffmpeg,    \* of each process: "off", "starting", "streaming", "dead"
  thread,    \* of each its reader: "none", "reading", "ended"
  latest,    \* of each its cell: holds a frame
  camera,    \* the process that is kept, or NoCamera
  at,        \* where collect is
  trying,    \* the process that is being started
  selector   \* the input that is tried
vars_camera == <<ffmpeg, thread, latest, camera, at, trying, selector>>

Running == {id \in Ids : ffmpeg[id] \in {"starting", "streaming"}}
Free    == {id \in Ids : id \notin Running /\ thread[id] # "reading"}

CameraTypeOK ==
  /\ ffmpeg \in [Ids -> {"off", "starting", "streaming", "dead"}]
  /\ thread \in [Ids -> {"none", "reading", "ended"}]
  /\ latest \in [Ids -> BOOLEAN]
  /\ camera \in Ids \cup {NoCamera} /\ trying \in Ids \cup {NoCamera}
  /\ at \in {"idle", "try", "await", "take", "check"} /\ selector \in 1 .. Selectors

CameraInit ==
  /\ ffmpeg = [id \in Ids |-> "off"] /\ thread = [id \in Ids |-> "none"]
  /\ latest = [id \in Ids |-> FALSE]
  /\ camera = NoCamera /\ trying = NoCamera /\ at = "idle" /\ selector = 1

------------------------- (* the process, the thread *) ---------------------

Starts(id) ==
  /\ ffmpeg[id] = "starting"
  /\ ffmpeg' = [ffmpeg EXCEPT ![id] = "streaming"]
  /\ UNCHANGED <<thread, latest, camera, at, trying, selector>>

Dies(id) ==
  /\ id \in Running
  /\ ffmpeg' = [ffmpeg EXCEPT ![id] = "dead"]
  /\ UNCHANGED <<thread, latest, camera, at, trying, selector>>

\* reader_loop: a frame is complete, maybe only after the process has died.
ReadsFrame(id) ==
  /\ thread[id] = "reading" /\ ffmpeg[id] \in {"streaming", "dead"}
  /\ latest' = [latest EXCEPT ![id] = TRUE]
  /\ UNCHANGED <<ffmpeg, thread, camera, at, trying, selector>>

\* The pipe is at its end.
ReaderEndsQuietly(id) ==
  /\ thread[id] = "reading" /\ ffmpeg[id] = "dead"
  /\ thread' = [thread EXCEPT ![id] = "ended"]
  /\ UNCHANGED <<ffmpeg, latest, camera, at, trying, selector>>
ReaderEnds(id) ==
  /\ thread[id] = "reading" /\ ffmpeg[id] = "dead"
  /\ thread' = [thread EXCEPT ![id] = "ended"]
  /\ latest' = [latest EXCEPT ![id] = FALSE]
  /\ UNCHANGED <<ffmpeg, camera, at, trying, selector>>

------------------------------- (* collect *) -------------------------------

Collect ==
  /\ at = "idle"
  /\ at' = IF camera = NoCamera THEN "try" ELSE "take"
  /\ selector' = 1
  /\ UNCHANGED <<ffmpeg, thread, latest, camera, trying>>

\* try_spawn, up to the wait for the first frame.
TrySpawn ==
  /\ at = "try"
  /\ \E id \in Free :
       /\ ffmpeg' = [ffmpeg EXCEPT ![id] = "starting"]
       /\ thread' = [thread EXCEPT ![id] = "reading"]
       /\ latest' = [latest EXCEPT ![id] = FALSE]
       /\ trying' = id
  /\ at' = "await"
  /\ UNCHANGED <<camera, selector>>

\* Command::spawn fails, or no frame has come: the next input is tried, and
\* after the last one collect returns with nothing.
Another ==
  IF selector < Selectors THEN selector' = selector + 1 /\ at' = "try"
  ELSE selector' = selector /\ at' = "idle"
SpawnRefused ==
  /\ at = "try" /\ Another
  /\ UNCHANGED <<ffmpeg, thread, latest, camera, trying>>

\* Two seconds are over: kill, wait.  A frame may have come meanwhile.
NoFrameForgotten ==
  /\ at = "await"
  /\ trying' = NoCamera /\ Another
  /\ UNCHANGED <<ffmpeg, thread, latest, camera>>
NoFrame ==
  /\ at = "await"
  /\ ffmpeg' = [ffmpeg EXCEPT ![trying] = "dead"]
  /\ trying' = NoCamera /\ Another
  /\ UNCHANGED <<thread, latest, camera>>

FirstFrame ==
  /\ at = "await" /\ latest[trying]
  /\ camera' = trying /\ trying' = NoCamera /\ at' = "take"
  /\ UNCHANGED <<ffmpeg, thread, latest, selector>>

\* take_frame: it is copied and stays in the cell.
TakeFrame ==
  /\ at = "take"
  /\ at' = IF latest[camera] THEN "idle" ELSE "check"
  /\ UNCHANGED <<ffmpeg, thread, latest, camera, trying, selector>>

\* is_dead, and the Drop of the camera: kill, wait.
DropDead ==
  /\ at = "check" /\ at' = "idle"
  /\ IF latest[camera] THEN UNCHANGED <<camera, ffmpeg>>
     ELSE /\ ffmpeg' = [ffmpeg EXCEPT ![camera] = "dead"]
          /\ camera' = NoCamera
  /\ UNCHANGED <<thread, latest, trying, selector>>

CollectStep ==
  Collect \/ TrySpawn \/ SpawnRefused \/ NoFrame \/ FirstFrame \/ TakeFrame \/ DropDead
CameraNext ==
  \/ CollectStep
  \/ \E id \in Ids : Starts(id) \/ Dies(id) \/ ReadsFrame(id) \/ ReaderEnds(id)
=============================================================================
