--------------------------- MODULE QCicadaProofs ---------------------------
(***************************************************************************)
(* Proofs about QCicada for any number of readers, setters and modes.  The *)
(* mutex of device ties each location of a call to the state of device     *)
(* (Located), which makes the two properties inductive: a mode other than  *)
(* the current one is only ever on its way into the device, or in it,      *)
(* while some set_config still has to stop the device (Doomed).            *)
(***************************************************************************)
EXTENDS QCicada, TLAPS

Opening == {"open", "opening", "settle", "reopen", "reopening"}
Reading == {"read", "retry"}
Holding == Opening \cup Reading \cup {"unlock", "stopping"}

\* Who is where holds the mutex, and what the device then is.
Located ==
  /\ \A t \in Threads : pc[t] \in Holding <=> lock = t
  /\ \A r \in Readers :
       /\ pc[r] \notin {"set", "stop", "stopping"}
       /\ pc[r] \in Opening => device = Closed
       /\ pc[r] \in Reading => device # Closed
       /\ pc[r] \in {"opening", "reopening"} => asked[r] \in Modes
       /\ pc[r] \in {"idle", "lock"} => tries[r] = 0
       /\ pc[r] \in {"open", "settle"} => tries[r] <= 1
  /\ \A t \in Setters :
       /\ pc[t] \in {"idle", "set", "stop", "stopping"}
       /\ pc[t] = "set" => asked[t] \in Modes

StopPending == \E t \in Setters : pc[t] \in {"stop", "stopping"}

\* A superseded mode about to reach the device will be stopped too.
Doomed ==
  \A r \in Readers :
    pc[r] \in {"opening", "reopening"} /\ asked[r] # mode => StopPending

IInv == Located /\ OneHandle /\ ConfiguredForMode /\ Doomed

\* The invariant is inductive together with the types.
LEMMA InductiveInvariant == Spec => [](TypeOK /\ IInv)
<1> USE QCicadaConstants DEF Threads
<1>1. Init => TypeOK /\ IInv
  BY DEF Init, TypeOK, IInv, Locations, Located, OneHandle, ConfiguredForMode,
     Doomed, Holding, Opening, Reading
<1>2. TypeOK /\ IInv /\ [Next]_vars => TypeOK' /\ IInv'
  <2> SUFFICES ASSUME TypeOK, IInv, [Next]_vars PROVE TypeOK' /\ IInv'
    OBVIOUS
  <2> USE DEF TypeOK, IInv, Located, OneHandle, ConfiguredForMode, Doomed,
              StopPending, Locations, Holding, Opening, Reading, Goto
  <2>1. ASSUME NEW r \in Readers, Collect(r) PROVE TypeOK' /\ IInv'
    BY <2>1 DEF Collect
  <2>2. ASSUME NEW r \in Readers, Lock(r) PROVE TypeOK' /\ IInv'
    BY <2>2 DEF Lock
  <2>3. ASSUME NEW r \in Readers, ReadMode(r) PROVE TypeOK' /\ IInv'
    <3>1. asked' = [asked EXCEPT ![r] = mode]
          /\ UNCHANGED <<mode, device, hardware, handles, lock, got, reconnects>>
      BY <2>3 DEF ReadMode
    <3>2. CASE Goto(r, "open", "opening") /\ tries' = [tries EXCEPT ![r] = @ + 1]
      <4>1. tries[r] \in 0..1 /\ tries' \in [Readers -> 0..2]
        BY <3>2
      <4> QED
        BY <3>1, <3>2, <4>1
    <3>3. CASE Goto(r, "reopen", "reopening") /\ UNCHANGED tries
      BY <3>1, <3>3
    <3> QED
      BY <2>3, <3>2, <3>3 DEF ReadMode
  <2>4. ASSUME NEW r \in Readers, Opened(r) PROVE TypeOK' /\ IInv'
    <3>1. /\ pc[r] \in {"opening", "reopening"} /\ pc'[r] \in Reading
          /\ \A t \in Threads : t # r => pc'[t] = pc[t] /\ asked'[t] = asked[t]
          /\ lock = r /\ UNCHANGED <<mode, lock, tries, got, reconnects>>
          /\ device = Closed /\ device' = asked[r] /\ asked[r] \in Modes
          /\ handles' = 1 /\ hardware' \in Modes
      BY <2>4 DEF Opened
    <3>2. TypeOK'
      <4>1. pc' \in [Threads -> Locations]
        BY <2>4 DEF Opened
      <4>2. asked' \in [Threads -> Modes \cup {Closed}]
        BY <2>4 DEF Opened
      <4> QED
        BY <3>1, <4>1, <4>2
    <3>3. Located'
      BY <3>1
    <3>4. OneHandle' /\ ConfiguredForMode' /\ Doomed'
      BY <3>1
    <3> QED
      BY <3>2, <3>3, <3>4
  <2>5. ASSUME NEW r \in Readers, OpenFails(r) PROVE TypeOK' /\ IInv'
    <3>1. asked' = [asked EXCEPT ![r] = Closed]
          /\ UNCHANGED <<mode, device, handles, lock, tries, got, reconnects>>
      BY <2>5 DEF OpenFails
    <3> asked[r] \in Modes /\ hardware' \in Modes
      BY <2>5 DEF OpenFails
    <3>2. CASE Goto(r, "opening", "settle") /\ tries[r] < 2
      <4>1. tries[r] \in 0..1
        BY <3>2
      <4>2. TypeOK'
        BY <3>1, <3>2
      <4>3. Located'
        BY <3>1, <3>2, <4>1
      <4> QED
        BY <3>1, <3>2, <4>2, <4>3
    <3>3. CASE Goto(r, "opening", "unlock") \/ Goto(r, "reopening", "unlock")
      BY <3>1, <3>3
    <3> QED
      BY <2>5, <3>2, <3>3 DEF OpenFails
  <2>6. ASSUME NEW r \in Readers, Settle(r) PROVE TypeOK' /\ IInv'
    BY <2>6 DEF Settle
  <2>7. ASSUME NEW r \in Readers, Chunk(r) PROVE TypeOK' /\ IInv'
    <3>1. /\ hardware \in Modes /\ lock = r
          /\ got' = [got EXCEPT ![r] = Append(@, hardware)]
          /\ UNCHANGED <<mode, device, hardware, handles, lock, asked, tries, reconnects>>
          /\ pc' = [pc EXCEPT ![r] = "read"] /\ pc[r] \in Reading
      BY <2>7 DEF Chunk
    <3>2. got' \in [Readers -> Seq(Modes)]
      BY <3>1
    <3> QED
      BY <3>1, <3>2
  <2>8. ASSUME NEW r \in Readers, Enough(r) \/ RetryFails(r) PROVE TypeOK' /\ IInv'
    BY <2>8 DEF Enough, RetryFails
  <2>9. ASSUME NEW r \in Readers, ReadFails(r) PROVE TypeOK' /\ IInv'
    BY <2>9 DEF ReadFails
  <2>10. ASSUME NEW r \in Readers, Return(r) PROVE TypeOK' /\ IInv'
    BY <2>10 DEF Return
  <2>11. ASSUME NEW t \in Setters, NEW m \in Modes, SetConfig(t, m)
         PROVE  TypeOK' /\ IInv'
    BY <2>11 DEF SetConfig
  <2>12. ASSUME NEW t \in Setters, SetMode(t) PROVE TypeOK' /\ IInv'
    BY <2>12 DEF SetMode
  <2>13. ASSUME NEW t \in Setters, LockToStop(t) PROVE TypeOK' /\ IInv'
    BY <2>13 DEF LockToStop
  <2>14. ASSUME NEW t \in Setters, StopDevice(t) PROVE TypeOK' /\ IInv'
    BY <2>14 DEF StopDevice
  <2>15. CASE UNCHANGED vars
    BY <2>15 DEF vars
  <2> QED
    BY <2>1, <2>2, <2>3, <2>4, <2>5, <2>6, <2>7, <2>8, <2>9, <2>10, <2>11, <2>12,
       <2>13, <2>14, <2>15 DEF Next, HolderStep
<1> QED
  BY <1>1, <1>2, PTL DEF Spec

(* Every variable keeps its type; a lazy open tries at most twice.         *)
THEOREM QCicadaTypeCorrect == Spec => []TypeOK
  BY InductiveInvariant, PTL

(* No handle on the port is lost or doubled.                               *)
THEOREM OneHandleOnly == Spec => []OneHandle
  BY InductiveInvariant, PTL DEF IInv

(* Once no set_config is under way the open device is in the current mode. *)
THEOREM ModeApplied == Spec => []ConfiguredForMode
  BY InductiveInvariant, PTL DEF IInv

-----------------------------------------------------------------------------
(* One mode per connection: until its first reconnection a call has only    *)
(* read while it held the mutex, and only the holder's opener changes the   *)
(* mode of the device.                                                      *)

Fresh == {"idle", "lock", "open", "opening", "settle"}

ReadsHardware ==
  \A r \in Readers :
    /\ pc[r] \in Fresh => got[r] = <<>>
    /\ pc[r] \in {"reopen", "reopening"} => reconnects[r] > 0
    /\ pc[r] \in {"read", "retry", "unlock"} /\ reconnects[r] = 0 =>
         \A i \in 1..Len(got[r]) : got[r][i] = hardware

\* What a call has read is in the mode the device still is in.
LEMMA ReadsOneMode == Spec => []ReadsHardware
<1> USE QCicadaConstants DEF Threads
<1>1. Init => ReadsHardware
  BY DEF Init, ReadsHardware, Fresh
<1>2. TypeOK /\ IInv /\ ReadsHardware /\ [Next]_vars => ReadsHardware'
  <2> SUFFICES ASSUME TypeOK, IInv, ReadsHardware, [Next]_vars
               PROVE  ReadsHardware'
    OBVIOUS
  <2> USE DEF TypeOK, IInv, Located, ReadsHardware, Fresh, Locations, Holding,
              Opening, Reading, Goto
  <2>1. ASSUME NEW r \in Readers, Opened(r) \/ OpenFails(r) PROVE ReadsHardware'
    <3>1. lock = r /\ UNCHANGED <<got, reconnects>>
      BY <2>1 DEF Opened, OpenFails
    <3>2. ASSUME NEW q \in Readers, q # r
          PROVE  pc'[q] = pc[q] /\ pc[q] \notin Holding
      BY <2>1, <3>1, <3>2 DEF Opened, OpenFails
    <3>3. pc[r] = "opening" => got[r] = <<>>
      OBVIOUS
    <3>4. pc[r] \in {"opening", "reopening"}
          /\ (pc[r] = "opening" => pc'[r] \notin {"reopen", "reopening"})
          /\ (pc[r] = "reopening" => pc'[r] \in {"retry", "unlock"})
      BY <2>1 DEF Opened, OpenFails
    <3> QED
      BY <3>1, <3>2, <3>3, <3>4
  <2>2. ASSUME NEW r \in Readers, Chunk(r) PROVE ReadsHardware'
    <3>1. /\ pc[r] \in Reading /\ pc' = [pc EXCEPT ![r] = "read"]
          /\ got' = [got EXCEPT ![r] = Append(@, hardware)]
          /\ UNCHANGED <<hardware, reconnects>>
      BY <2>2 DEF Chunk
    <3>2. /\ Len(got'[r]) = Len(got[r]) + 1
          /\ \A i \in 1..Len(got[r]) : got'[r][i] = got[r][i]
          /\ got'[r][Len(got[r]) + 1] = hardware
      BY <3>1
    <3>3. \A i \in 1..Len(got'[r]) : i \in 1..Len(got[r]) \/ i = Len(got[r]) + 1
      BY <3>2
    <3>4. reconnects[r] = 0 => \A i \in 1..Len(got'[r]) : got'[r][i] = hardware
      BY <3>1, <3>2, <3>3
    <3> QED
      BY <3>1, <3>4
  <2>3. ASSUME NEW r \in Readers,
               \/ Collect(r) \/ Lock(r) \/ ReadMode(r) \/ Settle(r) \/ Enough(r)
               \/ RetryFails(r)
        PROVE  ReadsHardware'
    <3>1. UNCHANGED <<hardware, got, reconnects>>
      BY <2>3 DEF Collect, Lock, ReadMode, Settle, Enough, RetryFails
    <3>2. \A q \in Readers : q # r => pc'[q] = pc[q]
      BY <2>3 DEF Collect, Lock, ReadMode, Settle, Enough, RetryFails
    <3>3. \/ pc[r] \in Fresh /\ pc'[r] \in Fresh \cup {"read"}
          \/ pc[r] = "reopen" /\ pc'[r] = "reopening"
          \/ pc[r] \in Reading /\ pc'[r] = "unlock"
      BY <2>3 DEF Collect, Lock, ReadMode, Settle, Enough, RetryFails
    <3>4. pc[r] \in Fresh => Len(got[r]) = 0
      OBVIOUS
    <3> QED
      BY <3>1, <3>2, <3>3, <3>4
  <2>4. ASSUME NEW r \in Readers, ReadFails(r) \/ Return(r) PROVE ReadsHardware'
    BY <2>4 DEF ReadFails, Return
  <2>5. ASSUME NEW t \in Setters,
               \/ \E m \in Modes : SetConfig(t, m)
               \/ SetMode(t) \/ LockToStop(t) \/ StopDevice(t)
        PROVE  ReadsHardware'
    BY <2>5 DEF SetConfig, SetMode, LockToStop, StopDevice
  <2>6. CASE UNCHANGED vars
    BY <2>6 DEF vars
  <2> QED
    BY <2>1, <2>2, <2>3, <2>4, <2>5, <2>6 DEF Next, HolderStep
<1> QED
  BY <1>1, <1>2, InductiveInvariant, PTL DEF Spec

(* A call that did not reconnect returns bytes of one mode, however many   *)
(* threads set the mode meanwhile.                                         *)
THEOREM OneModeRead == Spec => []OneModePerConnection
<1>1. TypeOK /\ ReadsHardware /\ IInv => OneModePerConnection
  <2> SUFFICES ASSUME TypeOK, ReadsHardware, IInv, NEW r \in Readers,
                      reconnects[r] = 0, NEW i \in 1..Len(got[r]),
                      NEW j \in 1..Len(got[r])
               PROVE  got[r][i] = got[r][j]
    BY DEF OneModePerConnection
  <2>1. pc[r] \in {"read", "retry", "unlock"} \cup Fresh
    BY DEF TypeOK, Locations, ReadsHardware, Fresh, IInv, Located, Threads
  <2>2. pc[r] \notin Fresh
    BY DEF ReadsHardware, TypeOK
  <2> QED
    BY <2>1, <2>2 DEF ReadsHardware, Fresh
<1> QED
  BY <1>1, InductiveInvariant, ReadsOneMode, PTL
=============================================================================
