--------------------------- MODULE PoolCollection ---------------------------
(***************************************************************************)
(* The collection rounds of EntropyPool (crates/openentropy-core/src/      *)
(* pool.rs).  Callers run one of three operations concurrently:            *)
(*                                                                         *)
(*   "all"      collect_all / collect_all_parallel(_n)                     *)
(*   "enabled"  collect_enabled(_n)                                        *)
(*   "raw"      collect_enabled_raw_n                                      *)
(*                                                                         *)
(* Each operation scans the registered sources, launches one detached      *)
(* thread per selected source in batches, waits for their messages with a  *)
(* timeout and backs off the sources that did not answer.  "all" and "raw" *)
(* coordinate through two shared structures, each behind its own mutex:    *)
(* in_flight (sources with a running worker) and backoff_until.            *)
(*                                                                         *)
(* A worker may hang in EntropySource::collect for ever, and outlives the  *)
(* call that launched it.  Time is abstract: a timeout or the end of a     *)
(* backoff window is an action that may happen at any point where the code *)
(* compares a deadline with the clock.  The bytes are abstracted away: the *)
(* shared buffer they reach is the subject of PoolOutput, the per-source   *)
(* statistics the workers update are left out.                             *)
(***************************************************************************)
EXTENDS Naturals, FiniteSets

CONSTANTS N,             \* number of registered sources, known by index 1..N
          Callers,       \* threads calling the pool
          CallerOps,     \* CallerOps[c]: the operations caller c uses
          MaxConcurrent  \* num_cpus().min(16), the size of a batch

Sources == 1..N
Ops == {"all", "enabled", "raw"}

ASSUME ConstantsAssumption ==
  /\ N \in Nat
  /\ CallerOps \in [Callers -> SUBSET Ops]
  /\ MaxConcurrent \in Nat \ {0}

VARIABLES
  inFlight,  \* in_flight: HashSet<usize>
  backedOff, \* sources whose backoff_until lies in the future
  job,       \* job[c][s]: the thread c launched for source s
  orphans,   \* orphans[s]: workers of s whose call has returned
  pc,        \* where caller c is in its operation, "idle" outside
  op,        \* the operation caller c runs
  todo,      \* sources the scan loop of c has yet to examine
  skip,      \* sources s with now < backoff_until[s], for the now of c
  claimed,   \* to_launch of c, less what it already launched
  batch,     \* chunk_indices of c
  scheduled, \* scheduled of c
  received,  \* received of c
  channel,   \* messages sent to c and not yet received
  expired,   \* sources of c whose batch's waiting window has elapsed
  leaked     \* claims dropped by a "raw" call without launching a worker

poolVars == <<inFlight, backedOff, leaked>>
callVars == <<pc, op, todo, skip, claimed, batch, scheduled, received, expired>>
workerVars == <<job, orphans>>
vars == <<inFlight, backedOff, job, orphans, pc, op, todo, skip, claimed, batch,
          scheduled, received, channel, expired, leaked>>

(* A worker thread is "running" until collect_one_n has returned and, in    *)
(* the coordinated operations, its source has left in_flight; then it is    *)
(* "released" until its message is sent.                                    *)
Stages == {"none", "running", "released"}

Locations == {"idle", "scan", "claim", "batch", "spawn", "wait", "drain", "mark"}

TypeOK ==
  /\ inFlight \subseteq Sources
  /\ backedOff \subseteq Sources
  /\ leaked \subseteq Sources
  /\ job \in [Callers -> [Sources -> Stages]]
  /\ orphans \in [Sources -> Nat]
  /\ pc \in [Callers -> Locations]
  /\ op \in [Callers -> Ops]
  /\ todo \in [Callers -> SUBSET Sources]
  /\ skip \in [Callers -> SUBSET Sources]
  /\ claimed \in [Callers -> SUBSET Sources]
  /\ batch \in [Callers -> SUBSET Sources]
  /\ scheduled \in [Callers -> SUBSET Sources]
  /\ received \in [Callers -> SUBSET Sources]
  /\ channel \in [Callers -> SUBSET Sources]
  /\ expired \in [Callers -> SUBSET Sources]

Init ==
  /\ inFlight = {}
  /\ backedOff = {}
  /\ leaked = {}
  /\ job = [c \in Callers |-> [s \in Sources |-> "none"]]
  /\ orphans = [s \in Sources |-> 0]
  /\ pc = [c \in Callers |-> "idle"]
  /\ op = [c \in Callers |-> "all"]
  /\ todo = [c \in Callers |-> {}]
  /\ skip = [c \in Callers |-> {}]
  /\ claimed = [c \in Callers |-> {}]
  /\ batch = [c \in Callers |-> {}]
  /\ scheduled = [c \in Callers |-> {}]
  /\ received = [c \in Callers |-> {}]
  /\ channel = [c \in Callers |-> {}]
  /\ expired = [c \in Callers |-> {}]

-----------------------------------------------------------------------------
(* Helpers                                                                 *)

\* x comes first in S in index order.
IsFirst(x, S) == x \in S /\ \A y \in S : x <= y

\* B is the first chunk of S: to_launch.chunks(max_concurrent).
IsFirstChunk(B, S) ==
  /\ B \subseteq S
  /\ \A x \in B, y \in S \ B : x < y
  /\ \/ Cardinality(B) = MaxConcurrent
     \/ B = S /\ Cardinality(S) < MaxConcurrent
  /\ B # {}

Coordinated(c) == op[c] # "enabled"

\* A worker of c is collecting from s and holds s in in_flight.
Holds(c, s) == Coordinated(c) /\ job[c][s] = "running"

-----------------------------------------------------------------------------
(* The caller                                                              *)

\* A call starts with names S to collect from; now is read once, here, so the
\* sources this call will treat as backed off are those backed off now.
Begin(c, o, S) ==
  /\ pc[c] = "idle"
  /\ o \in CallerOps[c]
  /\ o = "all" => S = Sources
  /\ pc' = [pc EXCEPT ![c] = "scan"]
  /\ op' = [op EXCEPT ![c] = o]
  /\ todo' = [todo EXCEPT ![c] = S]
  /\ skip' = [skip EXCEPT ![c] = IF o = "enabled" THEN {} ELSE backedOff]
  /\ UNCHANGED <<poolVars, workerVars, claimed, batch, scheduled, received,
                 channel, expired>>

\* The scan loop of collect_enabled_n launches without coordination.
ScanEnabled(c, s) ==
  /\ pc[c] = "scan"
  /\ ~Coordinated(c)
  /\ IsFirst(s, todo[c])
  /\ todo' = [todo EXCEPT ![c] = @ \ {s}]
  /\ claimed' = [claimed EXCEPT ![c] = @ \cup {s}]
  /\ UNCHANGED <<poolVars, workerVars, pc, op, skip, batch, scheduled, received,
                 channel, expired>>

\* First lock of an iteration: the backoff test.
CheckBackoff(c, s) ==
  /\ pc[c] = "scan"
  /\ Coordinated(c)
  /\ IsFirst(s, todo[c])
  /\ IF s \in skip[c]
     THEN /\ todo' = [todo EXCEPT ![c] = @ \ {s}]
          /\ UNCHANGED pc
     ELSE /\ pc' = [pc EXCEPT ![c] = "claim"]
          /\ UNCHANGED todo
  /\ UNCHANGED <<poolVars, workerVars, op, skip, claimed, batch, scheduled,
                 received, channel, expired>>

\* Second lock of the iteration: skip a source in flight, else claim it.
Claim(c, s) ==
  /\ pc[c] = "claim"
  /\ IsFirst(s, todo[c])
  /\ IF s \in inFlight
     THEN UNCHANGED <<inFlight, claimed>>
     ELSE /\ inFlight' = inFlight \cup {s}
          /\ claimed' = [claimed EXCEPT ![c] = @ \cup {s}]
  /\ todo' = [todo EXCEPT ![c] = @ \ {s}]
  /\ pc' = [pc EXCEPT ![c] = "scan"]
  /\ UNCHANGED <<backedOff, leaked, workerVars, op, skip, batch, scheduled,
                 received, channel, expired>>

\* The scan is over; with nothing to launch the call returns at once.
ScanDone(c) ==
  /\ pc[c] = "scan"
  /\ todo[c] = {}
  /\ pc' = [pc EXCEPT ![c] = IF claimed[c] = {} THEN "idle" ELSE "batch"]
  /\ skip' = [skip EXCEPT ![c] = {}]
  /\ op' = [op EXCEPT ![c] = IF claimed[c] = {} THEN "all" ELSE @]
  /\ UNCHANGED <<poolVars, workerVars, todo, claimed, batch, scheduled, received,
                 channel, expired>>

\* Take the next chunk of to_launch, or leave the batch loop.
NextBatch(c) ==
  /\ pc[c] = "batch"
  /\ IF claimed[c] = {}
     THEN /\ pc' = [pc EXCEPT ![c] = "drain"]
          /\ batch' = [batch EXCEPT ![c] = {}]
     ELSE /\ pc' = [pc EXCEPT ![c] = "spawn"]
          /\ \E B \in SUBSET claimed[c] :
               /\ IsFirstChunk(B, claimed[c])
               /\ batch' = [batch EXCEPT ![c] = B]
  /\ UNCHANGED <<poolVars, workerVars, op, todo, skip, claimed, scheduled,
                 received, channel, expired>>

\* break of the batch loop of collect_enabled_raw_n: what was claimed and not
\* launched stays in in_flight.
Abandon(c) ==
  /\ leaked' = leaked \cup claimed[c]
  /\ claimed' = [claimed EXCEPT ![c] = {}]

\* The sweep deadline has passed when a "raw" call reaches the next chunk.
SweepDeadlinePassed(c) ==
  /\ pc[c] = "batch"
  /\ op[c] = "raw"
  /\ claimed[c] # {}
  /\ Abandon(c)
  /\ pc' = [pc EXCEPT ![c] = "mark"]
  /\ batch' = [batch EXCEPT ![c] = {}]
  /\ UNCHANGED <<inFlight, backedOff, workerVars, op, todo, skip, scheduled,
                 received, channel, expired>>

\* thread::spawn for the next source s of the chunk.
Spawn(c, s) ==
  /\ pc[c] = "spawn"
  /\ IsFirst(s, batch[c] \cap claimed[c])
  /\ job' = [job EXCEPT ![c][s] = "running"]
  /\ scheduled' = [scheduled EXCEPT ![c] = @ \cup {s}]
  /\ claimed' = [claimed EXCEPT ![c] = @ \ {s}]
  /\ pc' = [pc EXCEPT ![c] =
              IF batch[c] \cap claimed[c] = {s} THEN "wait" ELSE @]
  /\ UNCHANGED <<poolVars, orphans, op, todo, skip, batch, received, channel,
                 expired>>

\* Fault: batch_done advances on any message, not only on this chunk's.
ReceiveCountsAny(c, s) ==
  /\ pc[c] = "wait"
  /\ s \in channel[c]
  /\ channel' = [channel EXCEPT ![c] = @ \ {s}]
  /\ received' = [received EXCEPT ![c] = @ \cup {s}]
  /\ pc' = [pc EXCEPT ![c] = "batch"]
  /\ UNCHANGED <<poolVars, workerVars, op, todo, skip, claimed, batch,
                 scheduled, expired>>

\* recv_timeout returns the message of s in time.  A message of an earlier
\* batch is kept but does not end this one.
Receive(c, s) ==
  /\ pc[c] = "wait"
  /\ s \in channel[c]
  /\ channel' = [channel EXCEPT ![c] = @ \ {s}]
  /\ received' = [received EXCEPT ![c] = @ \cup {s}]
  /\ pc' = [pc EXCEPT ![c] =
              IF batch[c] \subseteq received[c] \cup {s} THEN "batch" ELSE @]
  /\ UNCHANGED <<poolVars, workerVars, op, todo, skip, claimed, batch, scheduled,
                 expired>>

\* Fault: the deadline of a "raw" sweep only ends the current batch.
ExpireBatchOnly(c) ==
  /\ pc[c] = "wait"
  /\ expired' = [expired EXCEPT ![c] = @ \cup (batch[c] \ received[c])]
  /\ batch' = [batch EXCEPT ![c] = {}]
  /\ pc' = [pc EXCEPT ![c] = "batch"]
  /\ UNCHANGED <<poolVars, workerVars, op, todo, skip, claimed, scheduled,
                 received, channel>>

\* Fault: the clock is only read after a message, as with a blocking recv.
ExpireOnMessage(c) ==
  /\ channel[c] # {}
  /\ ExpireBatchOnly(c)

\* The window of the batch elapses.  For "all" and "enabled" each batch has a
\* window of its own; the window of a "raw" call is the whole sweep's, so its
\* end leaves the batch loop, and the drain loop after it ends at once.
WindowExpires(c) ==
  /\ pc[c] = "wait"
  /\ expired' = [expired EXCEPT ![c] = @ \cup (batch[c] \ received[c])]
  /\ batch' = [batch EXCEPT ![c] = {}]
  /\ IF op[c] = "raw"
     THEN /\ Abandon(c)
          /\ pc' = [pc EXCEPT ![c] = "mark"]
     ELSE /\ pc' = [pc EXCEPT ![c] = "batch"]
          /\ UNCHANGED <<leaked, claimed>>
  /\ UNCHANGED <<inFlight, backedOff, workerVars, op, todo, skip, scheduled,
                 received, channel>>

\* The 50 ms drain loop takes a late message.
DrainReceive(c, s) ==
  /\ pc[c] = "drain"
  /\ received[c] # scheduled[c]
  /\ s \in channel[c]
  /\ channel' = [channel EXCEPT ![c] = @ \ {s}]
  /\ received' = [received EXCEPT ![c] = @ \cup {s}]
  /\ UNCHANGED <<poolVars, workerVars, pc, op, todo, skip, claimed, batch,
                 scheduled, expired>>

\* The drain loop ends, everything received or its 50 ms over.
DrainEnds(c) ==
  /\ pc[c] = "drain"
  /\ pc' = [pc EXCEPT ![c] = "mark"]
  /\ UNCHANGED <<poolVars, workerVars, op, todo, skip, claimed, batch, scheduled,
                 received, channel, expired>>

\* Fault: giving up on a source also takes it out of in_flight.
MarkReleases(c, s) ==
  /\ pc[c] = "mark"
  /\ Coordinated(c)
  /\ IsFirst(s, scheduled[c] \ received[c])
  /\ backedOff' = backedOff \cup {s}
  /\ inFlight' = inFlight \ {s}
  /\ scheduled' = [scheduled EXCEPT ![c] = @ \ {s}]
  /\ UNCHANGED <<leaked, workerVars, pc, op, todo, skip, claimed, batch,
                 received, channel, expired>>

\* Fault: the backoff is recorded under the next index.
MarkNext(c, s) ==
  /\ pc[c] = "mark"
  /\ IsFirst(s, scheduled[c] \ received[c])
  /\ backedOff' = backedOff \cup {s + 1}
  /\ scheduled' = [scheduled EXCEPT ![c] = @ \ {s}]
  /\ UNCHANGED <<inFlight, leaked, workerVars, pc, op, todo, skip, claimed,
                 batch, received, channel, expired>>

\* One iteration of the loop over scheduled: the silent source s is backed off.
\* Every scan in progress sees the new deadline, which is later than its now.
Mark(c, s) ==
  /\ pc[c] = "mark"
  /\ Coordinated(c)
  /\ IsFirst(s, scheduled[c] \ received[c])
  /\ backedOff' = backedOff \cup {s}
  /\ skip' = [d \in Callers |->
                IF pc[d] \in {"scan", "claim"} /\ Coordinated(d)
                THEN skip[d] \cup {s} ELSE skip[d]]
  /\ scheduled' = [scheduled EXCEPT ![c] = @ \ {s}]
  /\ UNCHANGED <<inFlight, leaked, workerVars, pc, op, todo, claimed, batch,
                 received, channel, expired>>

\* Fault: the channel outlives the call, so late workers answer the next one.
ReturnKeepsChannel(c) ==
  /\ pc[c] = "mark"
  /\ Coordinated(c) => scheduled[c] \subseteq received[c]
  /\ pc' = [pc EXCEPT ![c] = "idle"]
  /\ op' = [op EXCEPT ![c] = "all"]
  /\ scheduled' = [scheduled EXCEPT ![c] = {}]
  /\ received' = [received EXCEPT ![c] = {}]
  /\ expired' = [expired EXCEPT ![c] = {}]
  /\ UNCHANGED <<poolVars, workerVars, channel, todo, skip, claimed, batch>>

\* The call returns and drops its receiver.  Its workers still running send to
\* nobody: all they will still do is leave in_flight, if they are in it.
Return(c) ==
  /\ pc[c] = "mark"
  /\ Coordinated(c) => scheduled[c] \subseteq received[c]
  /\ pc' = [pc EXCEPT ![c] = "idle"]
  /\ op' = [op EXCEPT ![c] = "all"]
  /\ scheduled' = [scheduled EXCEPT ![c] = {}]
  /\ received' = [received EXCEPT ![c] = {}]
  /\ channel' = [channel EXCEPT ![c] = {}]
  /\ expired' = [expired EXCEPT ![c] = {}]
  /\ job' = [job EXCEPT ![c] = [s \in Sources |-> "none"]]
  /\ orphans' = [s \in Sources |-> IF Holds(c, s) THEN orphans[s] + 1
                                    ELSE orphans[s]]
  /\ UNCHANGED <<poolVars, todo, skip, claimed, batch>>

-----------------------------------------------------------------------------
(* The worker thread                                                       *)

\* source.collect returns or panics, collect_one_n is over; a coordinated
\* worker takes its source out of in_flight before it sends.
Release(c, s) ==
  /\ job[c][s] = "running"
  /\ job' = [job EXCEPT ![c][s] = "released"]
  /\ inFlight' = IF Coordinated(c) THEN inFlight \ {s} ELSE inFlight
  /\ UNCHANGED <<backedOff, leaked, orphans, callVars, channel>>

\* tx.send to the call that launched the worker; the thread ends.
Send(c, s) ==
  /\ job[c][s] = "released"
  /\ job' = [job EXCEPT ![c][s] = "none"]
  /\ channel' = [channel EXCEPT ![c] = @ \cup {s}]
  /\ UNCHANGED <<poolVars, orphans, callVars>>

\* Fault: a worker nobody waits for any more ends without leaving in_flight.
OrphanKeepsClaim(s) ==
  /\ orphans[s] > 0
  /\ orphans' = [orphans EXCEPT ![s] = @ - 1]
  /\ UNCHANGED <<poolVars, job, callVars, channel>>

\* The same end for a worker whose call has returned: the send is ignored.
OrphanEnds(s) ==
  /\ orphans[s] > 0
  /\ orphans' = [orphans EXCEPT ![s] = @ - 1]
  /\ inFlight' = inFlight \ {s}
  /\ UNCHANGED <<backedOff, leaked, job, callVars, channel>>

\* The 30 s of SOURCE_TIMEOUT_BACKOFF_SECS have passed for s.
BackoffExpires(s) ==
  /\ s \in backedOff
  /\ backedOff' = backedOff \ {s}
  /\ UNCHANGED <<inFlight, leaked, workerVars, callVars, channel>>

-----------------------------------------------------------------------------
\* The steps caller c takes once its call has begun.
CallerStep(c) ==
  \/ \E s \in Sources : ScanEnabled(c, s) \/ CheckBackoff(c, s) \/ Claim(c, s)
  \/ ScanDone(c)
  \/ NextBatch(c)
  \/ SweepDeadlinePassed(c)
  \/ \E s \in Sources : Spawn(c, s) \/ Receive(c, s) \/ DrainReceive(c, s)
  \/ WindowExpires(c)
  \/ DrainEnds(c)
  \/ \E s \in Sources : Mark(c, s)
  \/ Return(c)

Next ==
  \/ \E c \in Callers, o \in Ops, S \in SUBSET Sources : Begin(c, o, S)
  \/ \E c \in Callers : CallerStep(c)
  \/ \E c \in Callers, s \in Sources : Release(c, s) \/ Send(c, s)
  \/ \E s \in Sources : OrphanEnds(s) \/ BackoffExpires(s)

Spec == Init /\ [][Next]_vars

(* Threads are scheduled and deadlines pass, but nothing obliges a source's *)
(* collect to return: Release and OrphanEnds are not fair.  A caller that   *)
(* only uses "all" keeps calling it.                                        *)
Fairness ==
  /\ \A c \in Callers : WF_vars(CallerStep(c))
  /\ \A c \in Callers : CallerOps[c] = {"all"} => WF_vars(Begin(c, "all", Sources))
  /\ \A s \in Sources : WF_vars(BackoffExpires(s))

FairSpec == Spec /\ Fairness
-----------------------------------------------------------------------------
(* Properties                                                              *)

\* A source hung in collect is not collected a second time: whatever callers
\* do, "all" and "raw" calls run at most one worker per source that has not
\* yet left in_flight ("avoid thread buildup on repeated calls").
OneWorkerPerSource ==
  \A s \in Sources :
    /\ orphans[s] <= 1
    /\ \A c \in Callers : Holds(c, s) => orphans[s] = 0
    /\ \A c, d \in Callers : Holds(c, s) /\ Holds(d, s) => c = d

\* The source s has a coordinated worker that has not left in_flight.
Busy(s) == orphans[s] > 0 \/ \E c \in Callers : Holds(c, s)

\* A call in progress is about to launch a coordinated worker for s.
Claims(c, s) == Coordinated(c) /\ s \in claimed[c]
ToLaunch(s) == \E c \in Callers : Claims(c, s)

\* A source is in in_flight exactly while a call is about to launch it, while
\* its worker runs, or for ever once a "raw" call dropped its claim.
InFlightAccounted ==
  inFlight = {s \in Sources : Busy(s) \/ ToLaunch(s) \/ s \in leaked}

\* in_flight means what the comment at its test says, "Skip sources with an
\* in-flight worker": a source is in it only if a worker runs or a call in
\* progress is about to launch one.
InFlightHasWorker == \A s \in inFlight : Busy(s) \/ ToLaunch(s)

\* Only the sources of a batch whose own waiting window elapsed can be left
\* unanswered when the next batch starts or the backoff marks are set: a
\* message of an earlier batch does not cut a later batch short.
OnlySilentSourcesMarked ==
  \A c \in Callers : pc[c] \in {"batch", "drain", "mark"} =>
    scheduled[c] \ received[c] \subseteq expired[c]

\* A call hears at most once of each source, and of those it launched only: a
\* worker that outlives its call never answers the caller's next call.
OneAnswerPerSource ==
  \A c \in Callers :
    /\ channel[c] \cap received[c] = {}
    /\ received[c] \subseteq scheduled[c]
    /\ \A s \in Sources : job[c][s] # "none" =>
         s \notin channel[c] \cup received[c]

\* The budget of a "raw" sweep is shared: once a batch of it has run into the
\* deadline the sweep launches nothing more.
SharedSweepBudget ==
  [][\A c \in Callers : op[c] = "raw" /\ expired[c] # {} =>
       scheduled'[c] \subseteq scheduled[c]]_vars

\* Every call returns, even when sources hang in collect for ever.
CallsReturn == \A c \in Callers : pc[c] # "idle" ~> pc[c] = "idle"

\* As long as one caller keeps calling collect_all, a source is collected
\* again and again whatever the other callers do, except one whose claim was
\* dropped: neither a timeout nor a backoff removes it for good.
SourcesCollectedAgain ==
  \A s \in Sources : []<>(s \in leaked \/ Busy(s))
=============================================================================
