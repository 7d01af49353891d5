------------------------ MODULE PoolCollectionProofs ------------------------
(***************************************************************************)
(* Proofs about PoolCollection for any number of sources and callers and   *)
(* any batch size.  in_flight is a lock per source whose holder changes    *)
(* hands: the scanning call claims it, the worker inherits it, an orphaned *)
(* worker keeps it.  The inductive invariant says that a source has at     *)
(* most one such holder (Exclusive) and that in_flight lists exactly the   *)
(* sources that have one (InFlightAccounted).                              *)
(***************************************************************************)
EXTENDS PoolCollection, TLAPS

\* A claim, a worker and a dropped claim of the same source exclude each other.
Exclusive ==
  /\ \A s \in Sources, c \in Callers :
       Claims(c, s) =>
         /\ ~Busy(s)
         /\ s \notin leaked
         /\ \A d \in Callers : Claims(d, s) => d = c
  /\ \A s \in leaked : ~Busy(s)

\* What is empty where: between calls nothing is claimed and no worker is
\* attached, so changing op[c] changes no holder.
LocalsClear ==
  \A c \in Callers :
    /\ pc[c] \in {"idle", "scan", "claim"} => \A s \in Sources : job[c][s] = "none"
    /\ pc[c] \in {"idle", "drain", "mark"} => claimed[c] = {}
    /\ pc[c] = "claim" => Coordinated(c)

IInv ==
  /\ TypeOK
  /\ InFlightAccounted
  /\ OneWorkerPerSource
  /\ Exclusive
  /\ LocalsClear

-----------------------------------------------------------------------------
(* Type correctness: every variable holds values of its Rust type's model. *)
THEOREM TypeCorrect == Spec => []TypeOK
<1> USE DEF TypeOK
<1>1. Init => TypeOK
  BY DEF Init, Ops, Locations, Stages
<1>2. TypeOK /\ [Next]_vars => TypeOK'
  <2> SUFFICES ASSUME TypeOK, [Next]_vars PROVE TypeOK'
    OBVIOUS
  <2> USE DEF poolVars, workerVars, callVars, vars
  <2>1. ASSUME NEW c \in Callers, NEW o \in Ops, NEW S \in SUBSET Sources,
               Begin(c, o, S) PROVE TypeOK'
    BY <2>1 DEF Begin, Locations
  <2>2. ASSUME NEW c \in Callers, NEW s \in Sources, ScanEnabled(c, s) PROVE TypeOK'
    BY <2>2 DEF ScanEnabled
  <2>3. ASSUME NEW c \in Callers, NEW s \in Sources, CheckBackoff(c, s) PROVE TypeOK'
    BY <2>3 DEF CheckBackoff, Locations
  <2>4. ASSUME NEW c \in Callers, NEW s \in Sources, Claim(c, s) PROVE TypeOK'
    BY <2>4 DEF Claim, Locations
  <2>5. ASSUME NEW c \in Callers, ScanDone(c) PROVE TypeOK'
    BY <2>5 DEF ScanDone, Locations, Ops
  <2>6. ASSUME NEW c \in Callers, NextBatch(c) PROVE TypeOK'
    <3>1. CASE claimed[c] = {}
      BY <2>6, <3>1 DEF NextBatch, Locations
    <3>2. CASE claimed[c] # {}
      <4>1. PICK B \in SUBSET claimed[c] : batch' = [batch EXCEPT ![c] = B]
        BY <2>6, <3>2 DEF NextBatch
      <4>2. B \in SUBSET Sources
        OBVIOUS
      <4> QED
        BY <2>6, <3>2, <4>1, <4>2 DEF NextBatch, Locations
    <3> QED
      BY <3>1, <3>2
  <2>7. ASSUME NEW c \in Callers, SweepDeadlinePassed(c) PROVE TypeOK'
    BY <2>7 DEF SweepDeadlinePassed, Abandon, Locations
  <2>8. ASSUME NEW c \in Callers, NEW s \in Sources, Spawn(c, s) PROVE TypeOK'
    BY <2>8 DEF Spawn, Locations, Stages
  <2>9. ASSUME NEW c \in Callers, NEW s \in Sources, Receive(c, s) PROVE TypeOK'
    BY <2>9 DEF Receive, Locations
  <2>10. ASSUME NEW c \in Callers, NEW s \in Sources, DrainReceive(c, s) PROVE TypeOK'
    BY <2>10 DEF DrainReceive
  <2>11. ASSUME NEW c \in Callers, WindowExpires(c) PROVE TypeOK'
    BY <2>11 DEF WindowExpires, Abandon, Locations
  <2>12. ASSUME NEW c \in Callers, DrainEnds(c) PROVE TypeOK'
    BY <2>12 DEF DrainEnds, Locations
  <2>13. ASSUME NEW c \in Callers, NEW s \in Sources, Mark(c, s) PROVE TypeOK'
    BY <2>13 DEF Mark
  <2>14. ASSUME NEW c \in Callers, Return(c) PROVE TypeOK'
    BY <2>14 DEF Return, Locations, Ops, Stages
  <2>15. ASSUME NEW c \in Callers, NEW s \in Sources, Release(c, s) PROVE TypeOK'
    BY <2>15 DEF Release, Stages
  <2>16. ASSUME NEW c \in Callers, NEW s \in Sources, Send(c, s) PROVE TypeOK'
    BY <2>16 DEF Send, Stages
  <2>17. ASSUME NEW s \in Sources, OrphanEnds(s) PROVE TypeOK'
    BY <2>17 DEF OrphanEnds
  <2>18. ASSUME NEW s \in Sources, BackoffExpires(s) PROVE TypeOK'
    BY <2>18 DEF BackoffExpires
  <2>19. CASE UNCHANGED vars
    BY <2>19
  <2> QED
    BY <2>1, <2>2, <2>3, <2>4, <2>5, <2>6, <2>7, <2>8, <2>9, <2>10, <2>11,
       <2>12, <2>13, <2>14, <2>15, <2>16, <2>17, <2>18, <2>19 DEF Next, CallerStep
<1>3. QED
  BY <1>1, <1>2, PTL DEF Spec

-----------------------------------------------------------------------------
(* The steps of the invariant proof.  Each lemma is about the holders of   *)
(* one source: HolderInv(s) is IInv's claim about s alone.                 *)
HolderInv(s) ==
  /\ s \in inFlight <=> Busy(s) \/ ToLaunch(s) \/ s \in leaked
  /\ orphans[s] <= 1
  /\ \A c \in Callers : Holds(c, s) => orphans[s] = 0
  /\ \A c, d \in Callers : Holds(c, s) /\ Holds(d, s) => c = d
  /\ \A c \in Callers : Claims(c, s) =>
       /\ ~Busy(s)
       /\ s \notin leaked
       /\ \A d \in Callers : Claims(d, s) => d = c
  /\ s \in leaked => ~Busy(s)

\* IInv is the conjunction of HolderInv over the sources.
LEMMA HolderInvIsIInv ==
  ASSUME TypeOK
  PROVE  InFlightAccounted /\ OneWorkerPerSource /\ Exclusive
           <=> \A s \in Sources : HolderInv(s)
  BY DEF TypeOK, InFlightAccounted, OneWorkerPerSource, Exclusive, HolderInv

LEMMA Locals ==
  ASSUME TypeOK, LocalsClear, [Next]_vars PROVE LocalsClear'
<1> USE DEF TypeOK, LocalsClear, poolVars, workerVars, callVars, vars
<1>1. ASSUME NEW c \in Callers, NEW o \in Ops, NEW S \in SUBSET Sources,
             Begin(c, o, S) PROVE LocalsClear'
  BY <1>1 DEF Begin, Coordinated
<1>2. ASSUME NEW c \in Callers, NEW s \in Sources, ScanEnabled(c, s) PROVE LocalsClear'
  BY <1>2 DEF ScanEnabled, Coordinated
<1>3. ASSUME NEW c \in Callers, NEW s \in Sources, CheckBackoff(c, s) PROVE LocalsClear'
  BY <1>3 DEF CheckBackoff, Coordinated
<1>4. ASSUME NEW c \in Callers, NEW s \in Sources, Claim(c, s) PROVE LocalsClear'
  BY <1>4 DEF Claim, Coordinated
<1>5. ASSUME NEW c \in Callers, ScanDone(c) PROVE LocalsClear'
  BY <1>5 DEF ScanDone, Coordinated
<1>6. ASSUME NEW c \in Callers, NextBatch(c) PROVE LocalsClear'
  BY <1>6 DEF NextBatch, Coordinated
<1>7. ASSUME NEW c \in Callers, SweepDeadlinePassed(c) PROVE LocalsClear'
  BY <1>7 DEF SweepDeadlinePassed, Abandon, Coordinated
<1>8. ASSUME NEW c \in Callers, NEW s \in Sources, Spawn(c, s) PROVE LocalsClear'
  BY <1>8 DEF Spawn, Coordinated
<1>9. ASSUME NEW c \in Callers, NEW s \in Sources, Receive(c, s) PROVE LocalsClear'
  BY <1>9 DEF Receive, Coordinated
<1>10. ASSUME NEW c \in Callers, NEW s \in Sources, DrainReceive(c, s) PROVE LocalsClear'
  BY <1>10 DEF DrainReceive, Coordinated
<1>11. ASSUME NEW c \in Callers, WindowExpires(c) PROVE LocalsClear'
  BY <1>11 DEF WindowExpires, Abandon, Coordinated
<1>12. ASSUME NEW c \in Callers, DrainEnds(c) PROVE LocalsClear'
  BY <1>12 DEF DrainEnds, Coordinated
<1>13. ASSUME NEW c \in Callers, NEW s \in Sources, Mark(c, s) PROVE LocalsClear'
  BY <1>13 DEF Mark, Coordinated
<1>14. ASSUME NEW c \in Callers, Return(c) PROVE LocalsClear'
  BY <1>14 DEF Return, Coordinated
<1>15. ASSUME NEW c \in Callers, NEW s \in Sources, Release(c, s) PROVE LocalsClear'
  BY <1>15 DEF Release, Coordinated
<1>16. ASSUME NEW c \in Callers, NEW s \in Sources, Send(c, s) PROVE LocalsClear'
  BY <1>16 DEF Send, Coordinated
<1>17. ASSUME NEW s \in Sources, OrphanEnds(s) PROVE LocalsClear'
  BY <1>17 DEF OrphanEnds, Coordinated
<1>18. ASSUME NEW s \in Sources, BackoffExpires(s) PROVE LocalsClear'
  BY <1>18 DEF BackoffExpires, Coordinated
<1>19. CASE UNCHANGED vars
  BY <1>19 DEF Coordinated
<1> QED
  BY <1>1, <1>2, <1>3, <1>4, <1>5, <1>6, <1>7, <1>8, <1>9, <1>10, <1>11,
     <1>12, <1>13, <1>14, <1>15, <1>16, <1>17, <1>18, <1>19 DEF Next, CallerStep

\* The invariant about r only depends on who holds r.
LEMMA SameHolders ==
  ASSUME NEW r \in Sources, HolderInv(r),
         r \in inFlight' <=> r \in inFlight,
         r \in leaked' <=> r \in leaked,
         orphans'[r] = orphans[r],
         \A d \in Callers : Holds(d, r)' <=> Holds(d, r),
         \A d \in Callers : Claims(d, r)' <=> Claims(d, r)
  PROVE  HolderInv(r)'
  BY DEF HolderInv, Busy, ToLaunch

LEMMA Holders ==
  ASSUME TypeOK, LocalsClear, [Next]_vars,
         NEW r \in Sources, HolderInv(r)
  PROVE  HolderInv(r)'
<1> USE DEF TypeOK, poolVars, workerVars, callVars, vars
<1>u. ASSUME UNCHANGED <<inFlight, leaked, job, orphans, claimed, op>>
      PROVE  HolderInv(r)'
  BY <1>u, SameHolders DEF Holds, Claims, Coordinated
<1>1. ASSUME NEW c \in Callers, NEW o \in Ops, NEW S \in SUBSET Sources,
             Begin(c, o, S) PROVE HolderInv(r)'
  BY <1>1, SameHolders DEF Begin, LocalsClear, Holds, Claims, Coordinated
<1>2. ASSUME NEW c \in Callers, NEW s \in Sources, ScanEnabled(c, s) PROVE HolderInv(r)'
  BY <1>2, SameHolders DEF ScanEnabled, Holds, Claims, Coordinated
<1>3. ASSUME NEW c \in Callers, NEW s \in Sources, CheckBackoff(c, s) PROVE HolderInv(r)'
  BY <1>3, <1>u DEF CheckBackoff
<1>4. ASSUME NEW c \in Callers, NEW s \in Sources, Claim(c, s) PROVE HolderInv(r)'
  <2>1. \A d \in Callers : Holds(d, r)' <=> Holds(d, r)
    BY <1>4 DEF Claim, Holds, Coordinated
  <2>2. CASE r # s \/ s \in inFlight
    <3>1. \A d \in Callers : r \in claimed'[d] <=> r \in claimed[d]
      <4>1. CASE s \in inFlight
        BY <1>4, <4>1 DEF Claim
      <4>2. CASE r # s /\ s \notin inFlight
        BY <1>4, <4>2 DEF Claim
      <4> QED
        BY <2>2, <4>1, <4>2
    <3>2. \A d \in Callers : Claims(d, r)' <=> Claims(d, r)
      BY <1>4, <3>1 DEF Claim, Claims, Coordinated
    <3> QED
      BY <1>4, <2>1, <2>2, <3>2, SameHolders DEF Claim
  <2>3. CASE r = s /\ s \notin inFlight
    <3>1. Claims(c, r)' /\ (\A d \in Callers \ {c} : Claims(d, r)' <=> Claims(d, r))
      BY <1>4, <2>3 DEF Claim, Claims, LocalsClear, Coordinated
    <3>2. r \in inFlight' /\ orphans' = orphans /\ leaked' = leaked
      BY <1>4, <2>3 DEF Claim
    <3>3. ~Busy(r) /\ ~ToLaunch(r) /\ r \notin leaked
      BY <2>3 DEF HolderInv
    <3>4. ~Busy(r)'
      BY <2>1, <3>2, <3>3 DEF Busy
    <3>5. \A d \in Callers : Claims(d, r)' => d = c
      BY <3>1, <3>3 DEF ToLaunch
    <3>6. ToLaunch(r)'
      BY <3>1 DEF ToLaunch
    <3> QED
      BY <2>1, <3>2, <3>3, <3>4, <3>5, <3>6 DEF HolderInv
  <2> QED
    BY <2>2, <2>3
<1>5. ASSUME NEW c \in Callers, ScanDone(c) PROVE HolderInv(r)'
  BY <1>5, SameHolders DEF ScanDone, LocalsClear, Holds, Claims, Coordinated
<1>6. ASSUME NEW c \in Callers, NextBatch(c) PROVE HolderInv(r)'
  BY <1>6, <1>u DEF NextBatch
<1>a. ASSUME NEW c \in Callers, Abandon(c), op[c] = "raw",
             UNCHANGED <<inFlight, job, orphans, op>>
      PROVE  HolderInv(r)'
  <2>1. \A d \in Callers : Holds(d, r)' <=> Holds(d, r)
    BY <1>a DEF Holds, Coordinated
  <2>2. ~Claims(c, r)' /\ (\A d \in Callers \ {c} : Claims(d, r)' <=> Claims(d, r))
    BY <1>a DEF Abandon, Claims, Coordinated
  <2>3. r \in leaked' <=> r \in leaked \/ Claims(c, r)
    BY <1>a DEF Abandon, Claims, Coordinated
  <2> QED
    BY <1>a, <2>1, <2>2, <2>3 DEF HolderInv, Busy, ToLaunch
<1>7. ASSUME NEW c \in Callers, SweepDeadlinePassed(c) PROVE HolderInv(r)'
  BY <1>7, <1>a DEF SweepDeadlinePassed
<1>8. ASSUME NEW c \in Callers, NEW s \in Sources, Spawn(c, s) PROVE HolderInv(r)'
  <2>0. s \in claimed[c]
    BY <1>8 DEF Spawn, IsFirst
  <2>1. CASE r # s \/ ~Coordinated(c)
    <3>1. \A d \in Callers : Holds(d, r)' <=> Holds(d, r)
      BY <1>8, <2>1 DEF Spawn, Holds, Coordinated
    <3>2. \A d \in Callers : Claims(d, r)' <=> Claims(d, r)
      BY <1>8, <2>1 DEF Spawn, Claims, Coordinated
    <3> QED
      BY <1>8, <3>1, <3>2, SameHolders DEF Spawn
  <2>2. CASE r = s /\ Coordinated(c)
    <3>1. Claims(c, r)
      BY <2>0, <2>2 DEF Claims
    <3>2. Holds(c, r)' /\ (\A d \in Callers \ {c} : Holds(d, r)' <=> Holds(d, r))
      BY <1>8, <2>2 DEF Spawn, Holds, Coordinated
    <3>3. ~Claims(c, r)' /\ (\A d \in Callers \ {c} : Claims(d, r)' <=> Claims(d, r))
      BY <1>8, <2>2 DEF Spawn, Claims, Coordinated
    <3>4. UNCHANGED <<inFlight, leaked, orphans>>
      BY <1>8 DEF Spawn
    <3>5. ~Busy(r) /\ r \notin leaked /\ r \in inFlight
      BY <3>1 DEF HolderInv, ToLaunch
    <3>6. \A d \in Callers : ~Claims(d, r)'
      BY <3>1, <3>3 DEF HolderInv
    <3>7. \A d \in Callers : Holds(d, r)' => d = c
      BY <3>2, <3>5 DEF Busy
    <3>8. orphans[r] = 0
      BY <3>5 DEF Busy
    <3>9. Busy(r)'
      BY <3>2 DEF Busy
    <3> QED
      BY <3>4, <3>5, <3>6, <3>7, <3>8, <3>9 DEF HolderInv
  <2> QED
    BY <2>1, <2>2
<1>9. ASSUME NEW c \in Callers, NEW s \in Sources, Receive(c, s) PROVE HolderInv(r)'
  BY <1>9, <1>u DEF Receive
<1>10. ASSUME NEW c \in Callers, NEW s \in Sources, DrainReceive(c, s) PROVE HolderInv(r)'
  BY <1>10, <1>u DEF DrainReceive
<1>11. ASSUME NEW c \in Callers, WindowExpires(c) PROVE HolderInv(r)'
  BY <1>11, <1>a, <1>u DEF WindowExpires
<1>12. ASSUME NEW c \in Callers, DrainEnds(c) PROVE HolderInv(r)'
  BY <1>12, <1>u DEF DrainEnds
<1>13. ASSUME NEW c \in Callers, NEW s \in Sources, Mark(c, s) PROVE HolderInv(r)'
  BY <1>13, <1>u DEF Mark
<1>14. ASSUME NEW c \in Callers, Return(c) PROVE HolderInv(r)'
  <2>1. \A d \in Callers : Claims(d, r)' <=> Claims(d, r)
    BY <1>14 DEF Return, Claims, LocalsClear, Coordinated
  <2>2. ~Holds(c, r)' /\ (\A d \in Callers \ {c} : Holds(d, r)' <=> Holds(d, r))
    BY <1>14 DEF Return, Holds, Coordinated
  <2>3. orphans'[r] = IF Holds(c, r) THEN orphans[r] + 1 ELSE orphans[r]
    BY <1>14 DEF Return
  <2>4. UNCHANGED <<inFlight, leaked>>
    BY <1>14 DEF Return
  <2>5. orphans[r] \in Nat
    OBVIOUS
  <2>6. CASE ~Holds(c, r)
    BY <2>1, <2>2, <2>3, <2>4, <2>6, SameHolders
  <2>7. CASE Holds(c, r)
    <3>1. orphans'[r] = 1
      BY <2>3, <2>5, <2>7 DEF HolderInv
    <3>2. \A d \in Callers : ~Holds(d, r)'
      BY <2>2, <2>7 DEF HolderInv
    <3>3. Busy(r) /\ Busy(r)'
      BY <2>7, <3>1 DEF Busy
    <3>4. \A d \in Callers : ~Claims(d, r)'
      BY <2>1, <3>3 DEF HolderInv
    <3> QED
      BY <2>4, <3>1, <3>2, <3>3, <3>4 DEF HolderInv
  <2> QED
    BY <2>6, <2>7
<1>15. ASSUME NEW c \in Callers, NEW s \in Sources, Release(c, s) PROVE HolderInv(r)'
  <2>1. \A d \in Callers : Claims(d, r)' <=> Claims(d, r)
    BY <1>15 DEF Release, Claims, Coordinated
  <2>2. CASE r # s \/ ~Coordinated(c)
    <3>1. \A d \in Callers : Holds(d, r)' <=> Holds(d, r)
      BY <1>15, <2>2 DEF Release, Holds, Coordinated
    <3> QED
      BY <1>15, <2>1, <2>2, <3>1, SameHolders DEF Release
  <2>3. CASE r = s /\ Coordinated(c)
    <3>1. Holds(c, r)
      BY <1>15, <2>3 DEF Release, Holds
    <3>2. ~Holds(c, r)' /\ (\A d \in Callers \ {c} : Holds(d, r)' <=> Holds(d, r))
      BY <1>15, <2>3 DEF Release, Holds, Coordinated
    <3>3. r \notin inFlight' /\ UNCHANGED <<leaked, orphans>>
      BY <1>15, <2>3 DEF Release
    <3>4. orphans[r] \in Nat
      OBVIOUS
    <3>5. orphans[r] = 0 /\ Busy(r)
      BY <3>1 DEF HolderInv, Busy
    <3>6. \A d \in Callers : ~Holds(d, r)' /\ ~Claims(d, r)'
      BY <2>1, <3>1, <3>2, <3>5 DEF HolderInv
    <3>7. r \notin leaked
      BY <3>5 DEF HolderInv
    <3> QED
      BY <3>3, <3>5, <3>6, <3>7 DEF HolderInv, Busy, ToLaunch
  <2> QED
    BY <2>2, <2>3
<1>16. ASSUME NEW c \in Callers, NEW s \in Sources, Send(c, s) PROVE HolderInv(r)'
  BY <1>16, SameHolders DEF Send, Holds, Claims, Coordinated
<1>17. ASSUME NEW s \in Sources, OrphanEnds(s) PROVE HolderInv(r)'
  <2>1. \A d \in Callers : (Claims(d, r)' <=> Claims(d, r)) /\ (Holds(d, r)' <=> Holds(d, r))
    BY <1>17 DEF OrphanEnds, Claims, Holds, Coordinated
  <2>2. CASE r # s
    BY <1>17, <2>1, <2>2, SameHolders DEF OrphanEnds
  <2>3. CASE r = s
    <3>1. orphans[r] \in Nat /\ orphans[r] > 0 /\ orphans'[r] = orphans[r] - 1
      BY <1>17, <2>3 DEF OrphanEnds
    <3>2. r \notin inFlight' /\ leaked' = leaked
      BY <1>17, <2>3 DEF OrphanEnds
    <3> QED
      BY <2>1, <3>1, <3>2 DEF HolderInv, Busy, ToLaunch
  <2> QED
    BY <2>2, <2>3
<1>18. ASSUME NEW s \in Sources, BackoffExpires(s) PROVE HolderInv(r)'
  BY <1>18, <1>u DEF BackoffExpires
<1>19. CASE UNCHANGED vars
  BY <1>19, <1>u
<1> QED
  BY <1>1, <1>2, <1>3, <1>4, <1>5, <1>6, <1>7, <1>8, <1>9, <1>10, <1>11,
     <1>12, <1>13, <1>14, <1>15, <1>16, <1>17, <1>18, <1>19 DEF Next, CallerStep

-----------------------------------------------------------------------------
LEMMA InductiveInvariant == Spec => []IInv
<1>1. Init => IInv
  <2> SUFFICES ASSUME Init PROVE IInv
    OBVIOUS
  <2>1. TypeOK
    BY DEF Init, TypeOK, Ops, Locations, Stages
  <2>2. \A s \in Sources : HolderInv(s)
    BY DEF Init, HolderInv, Busy, ToLaunch, Holds, Claims
  <2>3. LocalsClear
    BY DEF Init, LocalsClear
  <2> QED
    BY <2>1, <2>2, <2>3, HolderInvIsIInv DEF IInv
<1>2. TypeOK /\ TypeOK' /\ IInv /\ [Next]_vars => IInv'
  <2> SUFFICES ASSUME TypeOK, TypeOK', IInv, [Next]_vars PROVE IInv'
    OBVIOUS
  <2>1. \A s \in Sources : HolderInv(s)
    BY HolderInvIsIInv DEF IInv
  <2>2. \A s \in Sources : HolderInv(s)'
    BY <2>1, Holders DEF IInv
  <2>3. LocalsClear'
    BY Locals DEF IInv
  <2>4. (InFlightAccounted /\ OneWorkerPerSource /\ Exclusive)'
    BY <2>2 DEF TypeOK, InFlightAccounted, OneWorkerPerSource, Exclusive, HolderInv
  <2> QED
    BY <2>3, <2>4 DEF IInv
<1> QED
  BY <1>1, <1>2, TypeCorrect, PTL DEF Spec

(* Whatever the number of sources and callers and the batch size, a source  *)
(* hung in collect keeps every other "all" or "raw" call away: at most one  *)
(* worker per source has not left in_flight.                                *)
THEOREM OneWorker == Spec => []OneWorkerPerSource
  BY InductiveInvariant, PTL DEF IInv

(* in_flight lists a source exactly while some call or worker answers for   *)
(* it, or for ever after a "raw" call dropped its claim on it.              *)
THEOREM InFlightExact == Spec => []InFlightAccounted
  BY InductiveInvariant, PTL DEF IInv

-----------------------------------------------------------------------------
(* What one call knows.  A source moves from claimed to scheduled with its  *)
(* worker, and its message goes through channel to received once; only the  *)
(* batch being waited for, or one whose window elapsed, can be unanswered.  *)
AnswerInv(c) ==
  /\ channel[c] \cap received[c] = {}
  /\ received[c] \subseteq scheduled[c]
  /\ claimed[c] \cap (channel[c] \cup received[c]) = {}
  /\ \A s \in Sources : job[c][s] # "none" =>
       s \notin channel[c] \cup received[c] \cup claimed[c]
  /\ pc[c] # "mark" => channel[c] \subseteq scheduled[c]
  /\ pc[c] # "mark" => \A s \in Sources : job[c][s] # "none" => s \in scheduled[c]

SilenceInv(c) ==
  /\ pc[c] \in {"batch", "drain", "mark"} =>
       scheduled[c] \ received[c] \subseteq expired[c]
  /\ pc[c] \in {"spawn", "wait"} =>
       scheduled[c] \ received[c] \subseteq expired[c] \cup batch[c]
  /\ op[c] = "raw" /\ expired[c] # {} => pc[c] = "mark"

CallInv ==
  /\ LocalsClear
  /\ \A c \in Callers : pc[c] \in {"idle", "scan", "claim"} =>
       /\ channel[c] = {}
       /\ received[c] = {}
       /\ scheduled[c] = {}
       /\ expired[c] = {}
  /\ \A c \in Callers : AnswerInv(c) /\ SilenceInv(c)

LEMMA CallInvInit == Init => CallInv
  BY DEF Init, CallInv, LocalsClear, AnswerInv, SilenceInv

LEMMA CallInvStep ==
  ASSUME TypeOK, CallInv, [Next]_vars PROVE CallInv'
<1> USE DEF TypeOK, poolVars, workerVars, callVars, vars
<1>0. LocalsClear'
  BY Locals DEF CallInv
<1> SUFFICES ASSUME NEW d \in Callers
             PROVE  /\ pc'[d] \in {"idle", "scan", "claim"} =>
                         /\ channel'[d] = {}
                         /\ received'[d] = {}
                         /\ scheduled'[d] = {}
                         /\ expired'[d] = {}
                    /\ AnswerInv(d)'
                    /\ SilenceInv(d)'
  BY <1>0 DEF CallInv
<1> DEFINE Goal == /\ pc'[d] \in {"idle", "scan", "claim"} =>
                         /\ channel'[d] = {}
                         /\ received'[d] = {}
                         /\ scheduled'[d] = {}
                         /\ expired'[d] = {}
                   /\ AnswerInv(d)'
                   /\ SilenceInv(d)'
<1> USE DEF CallInv, AnswerInv, SilenceInv
<1>1. ASSUME NEW c \in Callers, NEW o \in Ops, NEW S \in SUBSET Sources,
             Begin(c, o, S) PROVE Goal
  BY <1>1 DEF Begin
<1>2. ASSUME NEW c \in Callers, NEW s \in Sources, ScanEnabled(c, s) PROVE Goal
  BY <1>2 DEF ScanEnabled, LocalsClear
<1>3. ASSUME NEW c \in Callers, NEW s \in Sources, CheckBackoff(c, s) PROVE Goal
  BY <1>3 DEF CheckBackoff
<1>4. ASSUME NEW c \in Callers, NEW s \in Sources, Claim(c, s) PROVE Goal
  BY <1>4 DEF Claim, LocalsClear
<1>5. ASSUME NEW c \in Callers, ScanDone(c) PROVE Goal
  BY <1>5 DEF ScanDone
<1>6. ASSUME NEW c \in Callers, NextBatch(c) PROVE Goal
  <2>0. CASE d # c
    <3>1. pc'[d] = pc[d] /\ batch'[d] = batch[d]
      BY <1>6, <2>0 DEF NextBatch
    <3> QED
      BY <1>6, <3>1 DEF NextBatch
  <2>1. CASE d = c /\ claimed[c] = {}
    <3>1. pc[d] = "batch" /\ pc'[d] = "drain"
      BY <1>6, <2>1 DEF NextBatch
    <3> QED
      BY <1>6, <3>1 DEF NextBatch
  <2>2. CASE d = c /\ claimed[c] # {}
    <3>1. PICK B \in SUBSET claimed[c] : batch' = [batch EXCEPT ![c] = B]
      BY <1>6, <2>2 DEF NextBatch
    <3> QED
      BY <1>6, <2>2, <3>1 DEF NextBatch
  <2> QED
    BY <2>0, <2>1, <2>2
<1>7. ASSUME NEW c \in Callers, SweepDeadlinePassed(c) PROVE Goal
  BY <1>7 DEF SweepDeadlinePassed, Abandon
<1>8. ASSUME NEW c \in Callers, NEW s \in Sources, Spawn(c, s) PROVE Goal
  BY <1>8 DEF Spawn, IsFirst
<1>9. ASSUME NEW c \in Callers, NEW s \in Sources, Receive(c, s) PROVE Goal
  BY <1>9 DEF Receive
<1>10. ASSUME NEW c \in Callers, NEW s \in Sources, DrainReceive(c, s) PROVE Goal
  BY <1>10 DEF DrainReceive
<1>11. ASSUME NEW c \in Callers, WindowExpires(c) PROVE Goal
  BY <1>11 DEF WindowExpires, Abandon
<1>12. ASSUME NEW c \in Callers, DrainEnds(c) PROVE Goal
  BY <1>12 DEF DrainEnds
<1>13. ASSUME NEW c \in Callers, NEW s \in Sources, Mark(c, s) PROVE Goal
  BY <1>13 DEF Mark, IsFirst
<1>14. ASSUME NEW c \in Callers, Return(c) PROVE Goal
  BY <1>14 DEF Return
<1>15. ASSUME NEW c \in Callers, NEW s \in Sources, Release(c, s) PROVE Goal
  BY <1>15 DEF Release
<1>16. ASSUME NEW c \in Callers, NEW s \in Sources, Send(c, s) PROVE Goal
  BY <1>16 DEF Send, LocalsClear
<1>17. ASSUME NEW s \in Sources, OrphanEnds(s) PROVE Goal
  BY <1>17 DEF OrphanEnds
<1>18. ASSUME NEW s \in Sources, BackoffExpires(s) PROVE Goal
  BY <1>18 DEF BackoffExpires
<1>19. CASE UNCHANGED vars
  BY <1>19
<1> HIDE DEF TypeOK, CallInv, AnswerInv, SilenceInv, vars
<1> QED
  BY <1>1, <1>2, <1>3, <1>4, <1>5, <1>6, <1>7, <1>8, <1>9, <1>10, <1>11,
     <1>12, <1>13, <1>14, <1>15, <1>16, <1>17, <1>18, <1>19 DEF Next, CallerStep

LEMMA CallInvariant == Spec => []CallInv
  BY CallInvInit, CallInvStep, TypeCorrect, PTL DEF Spec

(* A call never hears twice from a source, nor from one it did not launch:  *)
(* a worker that outlives its call does not answer a later one.             *)
THEOREM AnswersOnce == Spec => []OneAnswerPerSource
<1>1. CallInv => OneAnswerPerSource
  BY DEF CallInv, AnswerInv, OneAnswerPerSource
<1> QED
  BY <1>1, CallInvariant, PTL

(* Only a source whose own batch ran out of its waiting window can be       *)
(* backed off.                                                              *)
THEOREM OnlySilentMarked == Spec => []OnlySilentSourcesMarked
<1>1. CallInv => OnlySilentSourcesMarked
  BY DEF CallInv, SilenceInv, OnlySilentSourcesMarked
<1> QED
  BY <1>1, CallInvariant, PTL

(* A "raw" sweep launches nothing once it has run into its deadline.        *)
THEOREM SweepBudget == Spec => SharedSweepBudget
<1>1. ASSUME TypeOK, CallInv, [Next]_vars, NEW d \in Callers,
             op[d] = "raw", expired[d] # {}
      PROVE  scheduled'[d] \subseteq scheduled[d]
  <2> USE <1>1 DEF TypeOK, poolVars, workerVars, callVars, vars
  <2>1. pc[d] = "mark"
    BY DEF CallInv, SilenceInv
  <2>2. ASSUME NEW c \in Callers, NEW s \in Sources, Spawn(c, s)
        PROVE  scheduled'[d] \subseteq scheduled[d]
    BY <2>1, <2>2 DEF Spawn
  <2>3. ASSUME NEW c \in Callers, NEW s \in Sources, Mark(c, s)
        PROVE  scheduled'[d] \subseteq scheduled[d]
    BY <2>3 DEF Mark
  <2>4. ASSUME NEW c \in Callers, Return(c)
        PROVE  scheduled'[d] \subseteq scheduled[d]
    BY <2>4 DEF Return
  <2>5. ASSUME UNCHANGED scheduled PROVE scheduled'[d] \subseteq scheduled[d]
    BY <2>5
  <2> QED
    BY <2>2, <2>3, <2>4, <2>5 DEF Next, CallerStep, Begin, ScanEnabled,
       CheckBackoff, Claim, ScanDone, NextBatch, SweepDeadlinePassed, Receive,
       DrainReceive, WindowExpires, DrainEnds, Release, Send, OrphanEnds,
       BackoffExpires
<1>2. TypeOK /\ CallInv /\ [Next]_vars =>
        [\A c \in Callers : op[c] = "raw" /\ expired[c] # {} =>
            scheduled'[c] \subseteq scheduled[c]]_vars
  BY <1>1
<1> QED
  BY <1>2, TypeCorrect, CallInvariant, PTL DEF Spec, SharedSweepBudget
=============================================================================
