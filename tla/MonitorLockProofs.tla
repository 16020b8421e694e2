-------------------------- MODULE MonitorLockProofs --------------------------
(***************************************************************************)
(* The lease is exclusive, for any number of monitor processes and pids,   *)
(* as long as no step of the wall clock exceeds the tolerance of the       *)
(* start-time comparison.                                                  *)
(***************************************************************************)
EXTENDS MonitorLock, TLAPS

\* The gate serialises: the run inside is the one the gate file names.
GateOwned ==
    \A r \in Run : pc[r] \in GatePcs => gate # None /\ gate.owner = r

\* Two live processes never share a pid.
PidsUnique ==
    \A r, s \in Run : Live(r) /\ Live(s) /\ PidOf[r] = PidOf[s] => r = s

\* The lock belongs to the run that has the lease, or is about to undo it.
LockOwned ==
    \A r \in Run : pc[r] \in LeasePcs \cup {"undo"} => lock # None /\ lock.owner = r

\* A start time a run wrote down is its own, up to the clock steps.
NearStart(t, r) == startAt[r] <= t /\ t <= startAt[r] + MaxStep
OwnStartNear ==
    \A r \in Run : pc[r] \in GatePcs \cup {"openGate"} => NearStart(ownStart[r], r)
RecordOK(rec) ==
    /\ pc[rec.owner] # "off"
    /\ Live(rec.owner) => NearStart(rec.startedAt, rec.owner)
LockRecordOK == lock # None => RecordOK(lock)

\* What a run inspected is still there, or its owner has removed it.
SeenCurrent ==
    \A r \in Run : pc[r] \in {"compare", "rename"} =>
        /\ seen[r] # None
        /\ lock = None \/ lock = seen[r]
        /\ RecordOK(seen[r])

\* Only the record of a process that is gone is renamed away.
StaleIsDead ==
    \A r \in Run : pc[r] = "rename" => pc[seen[r].owner] = "gone"

IInv ==
    /\ TypeOK /\ GateOwned /\ PidsUnique /\ LockOwned
    /\ OwnStartNear /\ LockRecordOK /\ SeenCurrent /\ StaleIsDead

----------------------------------------------------------------------------
\* Nobody has run yet and neither file exists: the invariant holds.
LEMMA InitEstablishes == Init => IInv
BY MonitorLockAssumption
   DEF Init, IInv, TypeOK, GateOwned, PidsUnique, LockOwned, OwnStartNear, LockRecordOK,
       SeenCurrent, StaleIsDead, Live, LivePcs, GatePcs, LeasePcs, MaxAttempts, Results

\* Every step keeps the types.
LEMMA TypePreserved == TypeOK /\ [Next]_vars => TypeOK'
<1> SUFFICES ASSUME TypeOK, [Next]_vars PROVE TypeOK'
  OBVIOUS
<1> USE MonitorLockAssumption
    DEF TypeOK, LivePcs, Results, GateRecord, LockRecord, MaxAttempts, Goto, End, files, local, time
<1>1. ASSUME NEW r \in Run, Start(r) PROVE TypeOK'
  BY <1>1 DEF Start
<1>2. ASSUME NEW r \in Run, IdentifySelf(r) PROVE TypeOK'
  BY <1>2 DEF IdentifySelf, ProcessStart
<1>3. ASSUME NEW r \in Run, OpenGate(r) \/ WriteGate(r) PROVE TypeOK'
  BY <1>3 DEF OpenGate, WriteGate
<1>11. ASSUME NEW r \in Run, DiagnoseGate(r) PROVE TypeOK'
  BY <1>11 DEF DiagnoseGate
<1>4. ASSUME NEW r \in Run, LinkLock(r) PROVE TypeOK'
  BY <1>4 DEF LinkLock, Installed, Now
<1>5. ASSUME NEW r \in Run, InspectLock(r) \/ RenameStale(r) PROVE TypeOK'
  BY <1>5 DEF InspectLock, RenameStale, NextAttempt
<1>6. ASSUME NEW r \in Run, CompareIdentity(r) PROVE TypeOK'
  BY <1>6 DEF CompareIdentity
<1>7. ASSUME NEW r \in Run, ReleaseGate(r) \/ UndoInstall(r) \/ ReleaseGateOnError(r) PROVE TypeOK'
  BY <1>7 DEF ReleaseGate, UndoInstall, ReleaseGateOnError
<1>8. ASSUME NEW r \in Run, Stop(r) \/ CheckToken(r) \/ UnlinkLock(r) \/ Exit(r) PROVE TypeOK'
  BY <1>8 DEF Stop, CheckToken, UnlinkLock, Exit
<1>9. ASSUME ClearGate \/ Tick \/ StepWallClock PROVE TypeOK'
  BY <1>9 DEF ClearGate, Tick, StepWallClock
<1>10. CASE UNCHANGED vars
  BY <1>10 DEF vars
<1> QED
  BY <1>1, <1>2, <1>3, <1>4, <1>5, <1>6, <1>7, <1>8, <1>9, <1>10, <1>11 DEF Next, Acquire, Release

----------------------------------------------------------------------------
(* The steps of one run keep the rest of the invariant.                     *)

\* A file that is there is not "no file".
LEMMA NotNone == \A x \in GateRecord \cup LockRecord : x # None
BY MonitorLockAssumption

\* A run that starts owns nothing yet.
LEMMA StartPreserves ==
  ASSUME IInv, TypeOK', NEW r \in Run, Start(r)
  PROVE  IInv'
<1> USE MonitorLockAssumption
    DEF IInv, TypeOK, Live, LivePcs, GatePcs, LeasePcs, Goto, files, local, time, Start
<1>1. GateOwned' /\ LockOwned'
  BY DEF GateOwned, LockOwned
<1>2. PidsUnique'
  BY DEF PidsUnique, PidLive
<1>3. OwnStartNear'
  BY DEF OwnStartNear, NearStart
<1>4. LockRecordOK' /\ SeenCurrent' /\ StaleIsDead'
  BY DEF LockRecordOK, SeenCurrent, StaleIsDead, RecordOK, NearStart, LockRecord
<1> QED
  BY <1>1, <1>2, <1>3, <1>4

\* A run identifies itself; the gate is created exclusively, so at most one run is
\* inside it.
LEMMA OpenPreserves ==
  ASSUME IInv, TypeOK', NEW r \in Run,
         IdentifySelf(r) \/ OpenGate(r) \/ DiagnoseGate(r) \/ WriteGate(r)
  PROVE  IInv'
<1> USE MonitorLockAssumption
    DEF IInv, TypeOK, Live, LivePcs, GatePcs, LeasePcs, Goto, End, files, local, time,
        IdentifySelf, OpenGate, DiagnoseGate, WriteGate
<1>1. GateOwned'
  BY NotNone DEF GateOwned, GateRecord
<1>5. LockOwned'
  BY DEF LockOwned
<1>2. PidsUnique'
  BY DEF PidsUnique
<1>3. OwnStartNear'
  BY DEF OwnStartNear, NearStart, ProcessStart
<1>4. LockRecordOK' /\ SeenCurrent' /\ StaleIsDead'
  BY DEF LockRecordOK, SeenCurrent, StaleIsDead, RecordOK, NearStart, LockRecord
<1> QED
  BY <1>1, <1>2, <1>3, <1>4, <1>5

\* A record is linked only where there is none, so nobody else has the lease.
LEMMA LinkPreserves ==
  ASSUME IInv, TypeOK', NEW r \in Run, LinkLock(r)
  PROVE  IInv'
<1> USE MonitorLockAssumption
    DEF IInv, TypeOK, Live, LivePcs, GatePcs, LeasePcs, Goto, End, files, local, time,
        LinkLock, Installed
<1>1. GateOwned'
  BY DEF GateOwned
<1>2. LockOwned'
  <2>1. CASE lock = None /\ lock' = Installed(r)
    <3>1. lock' \in LockRecord /\ lock' # None /\ lock'.owner = r
      BY <2>1, NotNone DEF LockRecord, Now
    <3>2. \A s \in Run : pc[s] \notin LeasePcs \cup {"undo"}
      BY <2>1 DEF LockOwned
    <3> QED
      BY <3>1, <3>2 DEF LockOwned
  <2>2. CASE lock' = lock /\ pc'[r] \in {"inspect", "failing"}
    BY <2>2 DEF LockOwned
  <2> QED
    BY <2>1, <2>2
<1>3. PidsUnique'
  BY DEF PidsUnique
<1>4. OwnStartNear'
  BY DEF OwnStartNear, NearStart
<1>5. LockRecordOK'
  BY DEF LockRecordOK, RecordOK, NearStart, OwnStartNear, LockRecord
<1>6. SeenCurrent'
  <2> SUFFICES ASSUME NEW s \in Run, pc'[s] \in {"compare", "rename"}
               PROVE  /\ seen'[s] # None
                      /\ lock' = None \/ lock' = seen'[s]
                      /\ RecordOK(seen[s])'
    BY DEF SeenCurrent
  <2>1. s \in Run /\ pc[s] \in GatePcs /\ s = r
    BY DEF GateOwned
  <2> QED
    BY <2>1
<1>7. StaleIsDead'
  BY DEF StaleIsDead, SeenCurrent, LockRecord
<1> QED
  BY <1>1, <1>2, <1>3, <1>4, <1>5, <1>6, <1>7

\* A live owner's start time is recognised: only a dead owner's lock is judged stale.
LEMMA JudgePreserves ==
  ASSUME MaxStep <= Tolerance, IInv, TypeOK', NEW r \in Run,
         InspectLock(r) \/ CompareIdentity(r)
  PROVE  IInv'
<1> USE MonitorLockAssumption
    DEF IInv, TypeOK, Live, LivePcs, GatePcs, LeasePcs, Goto, End, files, local, time,
        InspectLock, CompareIdentity, NextAttempt
<1>1. GateOwned' /\ LockOwned'
  BY DEF GateOwned, LockOwned
<1>2. PidsUnique'
  BY DEF PidsUnique
<1>3. OwnStartNear' /\ LockRecordOK'
  BY DEF OwnStartNear, NearStart, LockRecordOK, RecordOK, LockRecord
<1>4. SeenCurrent'
  BY NotNone DEF SeenCurrent, RecordOK, NearStart, LockRecordOK, LockRecord
<1>5. StaleIsDead'
  <2>1. ASSUME NEW s \in Run, pc'[s] = "rename", s # r
        PROVE  pc'[seen'[s].owner] = "gone"
    BY <2>1 DEF StaleIsDead, SeenCurrent, LockRecord
  <2>2. CASE InspectLock(r) /\ pc'[r] = "rename"
    <3>1. lock # None /\ seen'[r] = lock /\ lock.owner \in Run /\ pc[lock.owner] # "off"
      BY <2>2 DEF LockRecordOK, RecordOK, LockRecord
    <3>2. ~PidLive(PidOf[lock.owner])
      BY <2>2
    <3>3. pc[lock.owner] = "gone"
      BY <3>1, <3>2 DEF PidLive
    <3> QED
      BY <2>1, <2>2, <3>1, <3>3 DEF StaleIsDead
  <2>3. CASE CompareIdentity(r) /\ pc'[r] = "rename"
    <3> DEFINE o == seen[r].owner
    <3>1. /\ seen[r] \in LockRecord /\ o \in Run /\ RecordOK(seen[r])
          /\ seen'[r] = seen[r]
      BY <2>3 DEF SeenCurrent, LockRecord
    <3>2. PICK s \in Run : /\ Live(s) /\ PidOf[s] = PidOf[o]
                           /\ ~SameIdentity(seen[r], s)
      BY <2>3
    <3>3. ~Live(o)
      <4> SUFFICES ASSUME Live(o) PROVE FALSE
        OBVIOUS
      <4>1. s = o
        BY <3>1, <3>2 DEF PidsUnique
      <4>2. NearStart(seen[r].startedAt, o)
        BY <3>1 DEF RecordOK
      <4>3. SameIdentity(seen[r], o)
        BY <3>1, <4>2 DEF SameIdentity, ProcessStart, Abs, NearStart, LockRecord
      <4> QED
        BY <3>2, <4>1, <4>3
    <3>4. pc[o] = "gone"
      BY <3>1, <3>3 DEF RecordOK
    <3> QED
      BY <2>1, <2>3, <3>1, <3>4 DEF StaleIsDead
  <2> QED
    BY <2>1, <2>2, <2>3 DEF StaleIsDead
<1> QED
  BY <1>1, <1>2, <1>3, <1>4, <1>5

\* The rename removes a dead owner's lock; the rollback, the run's own.
LEMMA RecoverPreserves ==
  ASSUME IInv, TypeOK', NEW r \in Run,
         RenameStale(r) \/ ReleaseGate(r) \/ UndoInstall(r) \/ ReleaseGateOnError(r)
  PROVE  IInv'
<1> USE MonitorLockAssumption
    DEF IInv, TypeOK, Live, LivePcs, GatePcs, LeasePcs, Goto, End, files, local, time,
        RenameStale, ReleaseGate, UndoInstall, ReleaseGateOnError, NextAttempt
<1>1. GateOwned'
  BY DEF GateOwned
<1>2. LockOwned'
  <2>1. CASE RenameStale(r)
    <3>1. lock = None \/ pc[lock.owner] = "gone"
      BY <2>1 DEF SeenCurrent, StaleIsDead
    <3>2. \A s \in Run : pc[s] \notin LeasePcs \cup {"undo"}
      BY <3>1 DEF LockOwned
    <3> QED
      BY <2>1, <3>2 DEF LockOwned
  <2>2. CASE ReleaseGate(r) \/ ReleaseGateOnError(r)
    BY <2>2 DEF LockOwned
  <2>3. CASE UndoInstall(r)
    <3>1. \A s \in Run \ {r} : pc[s] \notin LeasePcs \cup {"undo"}
      BY <2>3 DEF LockOwned
    <3> QED
      BY <2>3, <3>1 DEF LockOwned
  <2> QED
    BY <2>1, <2>2, <2>3
<1>3. PidsUnique'
  BY DEF PidsUnique
<1>4. OwnStartNear' /\ LockRecordOK'
  BY DEF OwnStartNear, NearStart, LockRecordOK, RecordOK, LockRecord
<1>5. SeenCurrent' /\ StaleIsDead'
  BY DEF SeenCurrent, StaleIsDead, RecordOK, NearStart, LockRecord
<1> QED
  BY <1>1, <1>2, <1>3, <1>4, <1>5

\* Only the owner of the lock gets to the unlink.
LEMMA ReleasePreserves ==
  ASSUME IInv, TypeOK', NEW r \in Run,
         Stop(r) \/ CheckToken(r) \/ UnlinkLock(r) \/ Exit(r)
  PROVE  IInv'
<1> USE MonitorLockAssumption
    DEF IInv, TypeOK, Live, LivePcs, GatePcs, LeasePcs, Goto, End, files, local, time,
        Stop, CheckToken, UnlinkLock, Exit
<1>1. GateOwned'
  BY DEF GateOwned
<1>2. LockOwned'
  <2>1. CASE UnlinkLock(r)
    <3>1. \A s \in Run \ {r} : pc[s] \notin LeasePcs \cup {"undo"}
      BY <2>1 DEF LockOwned
    <3> QED
      BY <2>1, <3>1 DEF LockOwned
  <2>2. CASE Stop(r) \/ CheckToken(r) \/ Exit(r)
    BY <2>2 DEF LockOwned
  <2> QED
    BY <2>1, <2>2
<1>3. PidsUnique'
  BY DEF PidsUnique
<1>4. OwnStartNear' /\ LockRecordOK'
  BY DEF OwnStartNear, NearStart, LockRecordOK, RecordOK, LockRecord
<1>5. SeenCurrent' /\ StaleIsDead'
  BY DEF SeenCurrent, StaleIsDead, RecordOK, NearStart, LockRecord
<1> QED
  BY <1>1, <1>2, <1>3, <1>4, <1>5

\* Exits, the operator, time and a wall clock that drifts within Tolerance.
LEMMA EnvironmentPreserves ==
  ASSUME IInv, TypeOK', ClearGate \/ Tick \/ StepWallClock \/ UNCHANGED vars
  PROVE  IInv'
<1> USE DEF IInv, TypeOK, Live, LivePcs, GatePcs, LeasePcs, files, local, time, vars,
            ClearGate, Tick, StepWallClock
<1>1. GateOwned' /\ LockOwned' /\ PidsUnique'
  BY DEF GateOwned, LockOwned, PidsUnique
<1>2. OwnStartNear' /\ LockRecordOK'
  BY DEF OwnStartNear, NearStart, LockRecordOK, RecordOK
<1>3. SeenCurrent' /\ StaleIsDead'
  BY DEF SeenCurrent, StaleIsDead, RecordOK, NearStart
<1> QED
  BY <1>1, <1>2, <1>3

----------------------------------------------------------------------------
\* The invariant holds in every reachable state when the wall clock is steady.
THEOREM Invariant == ASSUME MaxStep <= Tolerance PROVE Spec => []IInv
<1>1. IInv /\ [Next]_vars => IInv'
  <2> SUFFICES ASSUME IInv, [Next]_vars PROVE IInv'
    OBVIOUS
  <2>1. TypeOK'
    BY TypePreserved DEF IInv
  <2> QED
    BY <2>1, StartPreserves, OpenPreserves, LinkPreserves, JudgePreserves,
       RecoverPreserves, ReleasePreserves, EnvironmentPreserves
    DEF Next, Acquire, Release
<1> QED
  BY <1>1, InitEstablishes, PTL DEF Spec

\* The state of MonitorLock always has its type.
THEOREM TypeCorrect == Spec => []TypeOK
<1>1. Init => TypeOK
  BY InitEstablishes DEF IInv
<1> QED
  BY <1>1, TypePreserved, PTL DEF Spec

\* No two monitors hold the lease at once, whatever crashes, restarts, pid
\* reuse or file system error happens.
THEOREM LeaseExclusive == ASSUME MaxStep <= Tolerance PROVE Spec => []MutualExclusion
<1>1. IInv => MutualExclusion
  BY DEF IInv, LockOwned, MutualExclusion
<1> QED
  BY <1>1, Invariant, PTL

\* The lock file names the run that holds the lease until that run gives it up.
THEOREM LeaseOnDisk == ASSUME MaxStep <= Tolerance PROVE Spec => []LeaseIsOnDisk
<1>1. IInv => LeaseIsOnDisk
  BY DEF IInv, LockOwned, LeaseIsOnDisk
<1> QED
  BY <1>1, Invariant, PTL

\* "A live or unreadable owner is never displaced": its lock goes only by its
\* own unlink, at the end of the lease or in the rollback of its acquisition.
THEOREM NeverDisplaced ==
  ASSUME MaxStep <= Tolerance PROVE Spec => LiveOwnerNeverDisplaced
<1> DEFINE Keeps ==
      lock # None /\ Live(lock.owner) /\ lock' # lock
        => pc[lock.owner] \in {"undo", "unlink"} /\ pc'[lock.owner] # pc[lock.owner]
<1>1. ASSUME IInv, [Next]_vars PROVE Keeps
  <2> USE <1>1 DEF IInv, TypeOK, Live, LivePcs, GatePcs, LeasePcs, Goto, End, files, local, time
  <2>1. ASSUME NEW r \in Run, RenameStale(r) PROVE Keeps
    BY <2>1 DEF RenameStale, SeenCurrent, StaleIsDead
  <2>2. ASSUME NEW r \in Run, UndoInstall(r) \/ UnlinkLock(r) PROVE Keeps
    BY <2>2 DEF UndoInstall, UnlinkLock, LockOwned
  <2>3. ASSUME NEW r \in Run, LinkLock(r) PROVE Keeps
    BY <2>3 DEF LinkLock
  <2>4. ASSUME NEW r \in Run,
               \/ Start(r) \/ IdentifySelf(r) \/ OpenGate(r) \/ DiagnoseGate(r) \/ WriteGate(r)
               \/ InspectLock(r) \/ CompareIdentity(r) \/ ReleaseGate(r) \/ ReleaseGateOnError(r)
               \/ Stop(r) \/ CheckToken(r) \/ Exit(r)
        PROVE lock' = lock
    BY <2>4 DEF Start, IdentifySelf, OpenGate, DiagnoseGate, WriteGate, InspectLock,
       CompareIdentity, ReleaseGate, ReleaseGateOnError, Stop, CheckToken, Exit
  <2>5. ASSUME ClearGate \/ Tick \/ StepWallClock \/ UNCHANGED vars PROVE lock' = lock
    BY <2>5 DEF ClearGate, Tick, StepWallClock, vars
  <2> QED
    BY <2>1, <2>2, <2>3, <2>4, <2>5 DEF Next, Acquire, Release
<1>2. IInv /\ [Next]_vars => [Keeps]_vars
  BY <1>1
<1> QED
  BY <1>2, Invariant, PTL DEF Spec, LiveOwnerNeverDisplaced

\* No run reclaims a gate whose owner died: only the operator's procedure, with
\* every monitor stopped, removes it.
THEOREM OrphanStays ==
  ASSUME MaxStep <= Tolerance PROVE Spec => OrphanedGateStays
<1> DEFINE Stays ==
      gate # None /\ ~Live(gate.owner) /\ gate' # gate
        => \A r \in Run : ~Live(r) /\ ~Live(r)'
<1>1. ASSUME IInv, [Next]_vars PROVE Stays
  <2> USE <1>1 DEF IInv, TypeOK, Live, LivePcs, GatePcs, Goto, End, files, local, time
  <2>1. ASSUME NEW r \in Run, pc[r] \in GatePcs PROVE Stays
    BY <2>1 DEF GateOwned
  <2>2. ASSUME NEW r \in Run, OpenGate(r) PROVE Stays
    BY <2>2 DEF OpenGate
  <2>3. ASSUME NEW r \in Run, Start(r) \/ IdentifySelf(r) \/ DiagnoseGate(r) \/ Stop(r)
                               \/ CheckToken(r) \/ UnlinkLock(r) \/ Exit(r)
        PROVE gate' = gate
    BY <2>3 DEF Start, IdentifySelf, DiagnoseGate, Stop, CheckToken, UnlinkLock, Exit
  <2>4. ASSUME NEW r \in Run, \/ WriteGate(r) \/ LinkLock(r) \/ InspectLock(r) \/ CompareIdentity(r)
                               \/ RenameStale(r) \/ ReleaseGate(r) \/ UndoInstall(r)
                               \/ ReleaseGateOnError(r)
        PROVE pc[r] \in GatePcs
    BY <2>4 DEF WriteGate, LinkLock, InspectLock, CompareIdentity, RenameStale, ReleaseGate,
       UndoInstall, ReleaseGateOnError
  <2>5. ASSUME ClearGate PROVE Stays
    BY <2>5 DEF ClearGate
  <2>6. ASSUME Tick \/ StepWallClock \/ UNCHANGED vars PROVE gate' = gate
    BY <2>6 DEF Tick, StepWallClock, vars
  <2> QED
    BY <2>1, <2>2, <2>3, <2>4, <2>5, <2>6 DEF Next, Acquire, Release
<1>2. IInv /\ [Next]_vars => [Stays]_vars
  BY <1>1
<1> QED
  BY <1>2, Invariant, PTL DEF Spec, OrphanedGateStays
=============================================================================
