------------------------------ MODULE QCicada ------------------------------
(***************************************************************************)
(* QCicadaSource (crates/openentropy-core/src/sources/quantum/             *)
(* qcicada_source.rs): collect and set_config on one USB device.  The pool *)
(* calls collect from worker threads while the TUI or a benchmark calls    *)
(* set_config, so both run concurrently.  mode and device have a mutex     *)
(* each; collect holds device for the whole call, set_config takes the two *)
(* one after the other.                                                    *)
(*                                                                         *)
(* The device is external: opening it may fail, a read may fail or return  *)
(* nothing, and set_postprocess may fail and leave it in the mode it was   *)
(* in.  A chunk of bytes is the mode the device was in as it was read.     *)
(***************************************************************************)
EXTENDS Naturals, Sequences

CONSTANTS
  Readers, \* threads in collect
  Setters, \* threads in set_config
  Modes,   \* post-processing modes
  Wanted,  \* n_samples, in chunks of CHUNK_SIZE
  NoOne,   \* the device mutex is free
  Closed   \* no open handle, or no mode

ASSUME QCicadaConstants ==
  /\ NoOne \notin Readers \cup Setters
  /\ Readers \cap Setters = {}
  /\ Closed \notin Modes
  /\ Wanted \in Nat

Threads == Readers \cup Setters

VARIABLES
  mode,      \* mode
  device,    \* device: the mode the open handle was configured for, or Closed
  hardware,  \* the mode the device itself is in (external)
  handles,   \* handles the process holds on the port
  lock,      \* who holds the mutex of device
  pc,        \* where thread t is in its call
  asked,     \* reader: the mode try_open read; setter: the mode to set
  tries,     \* reader: calls of try_open by the lazy open
  got,       \* reader: result
  reconnects \* history: reconnections of the reader's call

vars == <<mode, device, hardware, handles, lock, pc, asked, tries, got, reconnects>>

Locations == {"idle", "lock", "open", "opening", "settle", "read", "reopen",
              "reopening", "retry", "unlock", "set", "stop", "stopping"}

TypeOK ==
  /\ mode \in Modes
  /\ device \in Modes \cup {Closed}
  /\ hardware \in Modes
  /\ handles \in Nat
  /\ lock \in Threads \cup {NoOne}
  /\ pc \in [Threads -> Locations]
  /\ asked \in [Threads -> Modes \cup {Closed}]
  /\ tries \in [Readers -> 0..2]
  /\ got \in [Readers -> Seq(Modes)]
  /\ reconnects \in [Readers -> Nat]

Init ==
  /\ mode \in Modes
  /\ device = Closed
  /\ hardware \in Modes
  /\ handles = 0
  /\ lock = NoOne
  /\ pc = [t \in Threads |-> "idle"]
  /\ asked = [t \in Threads |-> Closed]
  /\ tries = [r \in Readers |-> 0]
  /\ got = [r \in Readers |-> <<>>]
  /\ reconnects = [r \in Readers |-> 0]

Goto(t, from, to) == pc[t] = from /\ pc' = [pc EXCEPT ![t] = to]

-----------------------------------------------------------------------------
(* collect                                                                 *)

Collect(r) ==
  /\ Goto(r, "idle", "lock")
  /\ UNCHANGED <<mode, device, hardware, handles, lock, asked, tries, got, reconnects>>

\* self.device.lock(), then the device is opened if it is not.
Lock(r) ==
  /\ lock = NoOne
  /\ lock' = r
  /\ Goto(r, "lock", IF device = Closed THEN "open" ELSE "read")
  /\ UNCHANGED <<mode, device, hardware, handles, asked, tries, got, reconnects>>

\* try_open reads the mode, under the mutex of mode only.
ReadMode(r) ==
  /\ asked' = [asked EXCEPT ![r] = mode]
  /\ \/ Goto(r, "open", "opening") /\ tries' = [tries EXCEPT ![r] = @ + 1]
     \/ Goto(r, "reopen", "reopening") /\ UNCHANGED tries
  /\ UNCHANGED <<mode, device, hardware, handles, lock, got, reconnects>>

\* The opener succeeds, even if set_postprocess inside it does not: "best-effort
\* mode set".
Opened(r) ==
  /\ Goto(r, "opening", "read") \/ Goto(r, "reopening", "retry")
  /\ device' = asked[r]
  /\ hardware' \in {asked[r], hardware}
  /\ handles' = handles + 1
  /\ asked' = [asked EXCEPT ![r] = Closed]
  /\ UNCHANGED <<mode, lock, tries, got, reconnects>>

\* The opener fails, maybe after it set the mode: a lazy open tries once more after a pause, a reconnection
\* gives up.
OpenFails(r) ==
  /\ \/ Goto(r, "opening", IF tries[r] < 2 THEN "settle" ELSE "unlock")
     \/ Goto(r, "reopening", "unlock")
  /\ hardware' \in {asked[r], hardware}
  /\ asked' = [asked EXCEPT ![r] = Closed]
  /\ UNCHANGED <<mode, device, handles, lock, tries, got, reconnects>>

Settle(r) ==
  /\ Goto(r, "settle", "open")
  /\ UNCHANGED <<mode, device, hardware, handles, lock, asked, tries, got, reconnects>>

\* Fault: the device is unlocked between two chunks.
ChunkUnlocking(r) ==
  /\ Len(got[r]) < Wanted
  /\ Goto(r, "read", "lock") \/ Goto(r, "retry", "lock")
  /\ got' = [got EXCEPT ![r] = Append(@, hardware)]
  /\ lock' = NoOne
  /\ UNCHANGED <<mode, device, hardware, handles, asked, tries, reconnects>>

\* A chunk arrives, at the first read or at the retry.
Chunk(r) ==
  /\ Len(got[r]) < Wanted
  /\ Goto(r, "read", "read") \/ Goto(r, "retry", "read")
  /\ got' = [got EXCEPT ![r] = Append(@, hardware)]
  /\ UNCHANGED <<mode, device, hardware, handles, lock, asked, tries, reconnects>>

\* Nothing remains to be read, or a read returned nothing.
Enough(r) ==
  /\ Goto(r, "read", "unlock") \/ Goto(r, "retry", "unlock")
  /\ UNCHANGED <<mode, device, hardware, handles, lock, asked, tries, got, reconnects>>

\* Fault: the reconnection does not stop the handle it replaces.
ReadFailsLeaking(r) ==
  /\ Len(got[r]) < Wanted
  /\ Goto(r, "read", "reopen")
  /\ device' = Closed
  /\ reconnects' = [reconnects EXCEPT ![r] = @ + 1]
  /\ UNCHANGED <<mode, hardware, handles, lock, asked, tries, got>>

\* A read fails: stop the device, then open it afresh.
ReadFails(r) ==
  /\ Len(got[r]) < Wanted
  /\ Goto(r, "read", "reopen")
  /\ device' = Closed
  /\ handles' = handles - 1
  /\ reconnects' = [reconnects EXCEPT ![r] = @ + 1]
  /\ UNCHANGED <<mode, hardware, lock, asked, tries, got>>

\* Fault: reconnect until a read succeeds.
RetryAgain(r) ==
  /\ Goto(r, "retry", "reopen")
  /\ device' = Closed
  /\ handles' = handles - 1
  /\ UNCHANGED <<mode, hardware, lock, asked, tries, got, reconnects>>

\* The retry fails too: the call ends with what it has, the handle stays open.
RetryFails(r) ==
  /\ Goto(r, "retry", "unlock")
  /\ UNCHANGED <<mode, device, hardware, handles, lock, asked, tries, got, reconnects>>

\* collect returns and drops the guard.
Return(r) ==
  /\ Goto(r, "unlock", "idle")
  /\ lock' = NoOne
  /\ got' = [got EXCEPT ![r] = <<>>]
  /\ tries' = [tries EXCEPT ![r] = 0]
  /\ reconnects' = [reconnects EXCEPT ![r] = 0]
  /\ UNCHANGED <<mode, device, hardware, handles, asked>>

-----------------------------------------------------------------------------
(* set_config                                                              *)

SetConfig(t, m) ==
  /\ Goto(t, "idle", "set")
  /\ asked' = [asked EXCEPT ![t] = m]
  /\ UNCHANGED <<mode, device, hardware, handles, lock, tries, got, reconnects>>

SetMode(t) ==
  /\ Goto(t, "set", "stop")
  /\ mode' = asked[t]
  /\ asked' = [asked EXCEPT ![t] = Closed]
  /\ UNCHANGED <<device, hardware, handles, lock, tries, got, reconnects>>

\* Fault: try_lock, leaving a busy device alone.
LockOrSkip(t) ==
  /\ IF lock = NoOne
     THEN lock' = t /\ Goto(t, "stop", "stopping")
     ELSE UNCHANGED lock /\ Goto(t, "stop", "idle")
  /\ UNCHANGED <<mode, device, hardware, handles, asked, tries, got, reconnects>>

\* Waits for a collect in progress to return.
LockToStop(t) ==
  /\ lock = NoOne
  /\ lock' = t
  /\ Goto(t, "stop", "stopping")
  /\ UNCHANGED <<mode, device, hardware, handles, asked, tries, got, reconnects>>

\* stop_device closes the handle, if there is one.
StopDevice(t) ==
  /\ Goto(t, "stopping", "idle")
  /\ device' = Closed
  /\ handles' = IF device = Closed THEN handles ELSE handles - 1
  /\ lock' = NoOne
  /\ UNCHANGED <<mode, hardware, asked, tries, got, reconnects>>

-----------------------------------------------------------------------------
\* The steps of the thread that holds the mutex of device.
HolderStep ==
  \/ \E r \in Readers :
       \/ ReadMode(r) \/ Opened(r) \/ OpenFails(r) \/ Settle(r) \/ Chunk(r)
       \/ Enough(r) \/ ReadFails(r) \/ RetryFails(r) \/ Return(r)
  \/ \E t \in Setters : StopDevice(t)

Next ==
  \/ HolderStep
  \/ \E r \in Readers : Collect(r) \/ Lock(r)
  \/ \E t \in Setters : SetMode(t) \/ LockToStop(t) \/ \E m \in Modes : SetConfig(t, m)

Spec == Init /\ [][Next]_vars

\* Every operation on the device has a timeout, so its holder keeps moving.
FairSpec == Spec /\ WF_vars(HolderStep)
-----------------------------------------------------------------------------
(* Properties                                                              *)

\* The process never holds two handles on the port, nor one it has lost track
\* of, through reconnections and mode changes.
OneHandle == handles = (IF device = Closed THEN 0 ELSE 1)

\* An open device that was not configured for the mode set last is about to be
\* stopped: once every set_config has returned, collect reads from a device it
\* restarted for the mode set last.
ConfiguredForMode ==
  device \notin {Closed, mode} => \E t \in Setters : pc[t] \in {"stop", "stopping"}

\* The bytes of one collect are all of one mode unless it reconnected, even if
\* the mode is set while it reads.
OneModePerConnection ==
  \A r \in Readers : reconnects[r] = 0 =>
    \A i, j \in 1..Len(got[r]) : got[r][i] = got[r][j]

\* Whoever holds the device lets go of it, however the device fails.
DeviceReleased == \A t \in Threads : lock = t ~> lock # t
=============================================================================
