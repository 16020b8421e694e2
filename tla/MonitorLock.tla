---------------------------- MODULE MonitorLock ----------------------------
(***************************************************************************)
(* The lease on the usage monitor's outbox: acquirePendingMonitorPostLock  *)
(* of tools/codex-usage-monitor-persistence.ts.  Every entrypoint of the   *)
(* monitor (GUI host, CLI, monitor-host) takes it before it reads the      *)
(* queue.  Two files carry the protocol: the canonical lock                *)
(* (pending-posts.json.lock), installed whole by a hard link, and the      *)
(* recovery gate (.lock.recovery), created exclusively, under which a      *)
(* contender may inspect a lock, judge its owner dead and rename it away.  *)
(*                                                                         *)
(* One file system call is one action.  A run may crash between any two.   *)
(***************************************************************************)
EXTENDS Integers

CONSTANTS
    Run,        \* the monitor processes ever started; each starts once
    Pid,        \* operating-system process ids
    PidOf,      \* the pid each run gets: two runs may share one, not at once
    Tolerance,  \* PROCESS_START_TIME_TOLERANCE_MS, in clock ticks
    MaxClock,   \* bound on the ticks the clock makes
    MaxStep,    \* bound on how far the wall clock is stepped
    Faults,     \* whether file system calls may fail
    None        \* no file, no record

\* The two files.  A lock is complete as soon as it exists, a gate is not.
GateRecord == [owner: Run, content: {"empty", "record"}]
LockRecord == [owner: Run, startedAt: Nat, acquiredAt: Nat]

ASSUME MonitorLockAssumption ==
    /\ PidOf \in [Run -> Pid]
    /\ Tolerance \in Nat /\ MaxClock \in Nat /\ MaxStep \in Nat
    /\ Faults \in BOOLEAN
    /\ None \notin Run \cup GateRecord \cup LockRecord

MaxAttempts == 3        \* the for loop of acquirePendingMonitorPostLock

VARIABLES
    pc,         \* where each run is
    attempt,    \* the loop counter of each run
    result,     \* why a run's acquisition ended
    seen,       \* the lock record a run read
    ownStart,   \* processStartedAt as a run read it for itself
    gate,       \* the .lock.recovery file: [owner, content] or None
    lock,       \* the .lock file: [owner, startedAt, acquiredAt] or None
    startAt,    \* when each run really started
    clock,      \* elapsed time
    step        \* what was added to the wall clock

files == <<gate, lock>>
time  == <<startAt, clock, step>>
local == <<attempt, result, seen, ownStart>>
vars  == <<pc, attempt, result, seen, ownStart, gate, lock, startAt, clock, step>>

LivePcs == {"identify", "openGate", "diagnose", "writeGate", "link", "inspect",
            "compare", "rename", "installed", "undo", "held", "check", "unlink",
            "failing", "failed", "released"}
\* Between the exclusive creation of the gate and its release.
GatePcs == {"writeGate", "link", "inspect", "compare", "rename", "installed",
            "undo", "failing"}
\* From the hard link to the end of the lease.
LeasePcs == {"installed", "held", "check", "unlink"}
Results == {"none", "acquired", "owned", "busy", "orphaned", "corrupt",
            "unknown", "race", "ioError"}


\* The type invariant.
TypeOK ==
    /\ pc \in [Run -> LivePcs \cup {"off", "gone"}]
    /\ attempt \in [Run -> 1..MaxAttempts]
    /\ result \in [Run -> Results]
    /\ seen \in [Run -> LockRecord \cup {None}]
    /\ ownStart \in [Run -> Nat]
    /\ gate \in GateRecord \cup {None}
    /\ lock \in LockRecord \cup {None}
    /\ startAt \in [Run -> Nat]
    /\ clock \in 0..MaxClock
    /\ step \in 0..MaxStep

Init ==
    /\ pc = [r \in Run |-> "off"]
    /\ attempt = [r \in Run |-> 1]
    /\ result = [r \in Run |-> "none"]
    /\ seen = [r \in Run |-> None]
    /\ ownStart = [r \in Run |-> 0]
    /\ gate = None
    /\ lock = None
    /\ startAt = [r \in Run |-> 0]
    /\ clock = 0
    /\ step = 0

----------------------------------------------------------------------------
(* What a run can ask the operating system.                                *)

Live(r) == pc[r] \in LivePcs
PidLive(p) == \E r \in Run : Live(r) /\ PidOf[r] = p

\* readProcessStartTime: the start time of a live process on the wall clock.
\* On Linux it is btime plus the ticks since boot, and btime moves with every
\* step of the wall clock.
ProcessStart(r) == startAt[r] + step

Now == clock + step

Abs(n) == IF n >= 0 THEN n ELSE -n

\* isLockOwnedByLiveProcess for a lock record whose pid is that of live run s.
SameIdentity(rec, s) == Abs(ProcessStart(s) - rec.startedAt) <= Tolerance
StartedLater(rec, s) == ProcessStart(s) > rec.acquiredAt + Tolerance

Goto(r, label) == pc' = [pc EXCEPT ![r] = label]
End(r, label, why) == Goto(r, label) /\ result' = [result EXCEPT ![r] = why]

----------------------------------------------------------------------------
(* Starting: the run reads its own identity, then opens the gate.          *)

Start(r) ==
    /\ pc[r] = "off"
    /\ ~PidLive(PidOf[r])
    /\ Goto(r, "identify")
    /\ startAt' = [startAt EXCEPT ![r] = clock]
    /\ UNCHANGED <<local, files, clock, step>>

\* getCurrentProcessStartTime, cached for the life of the process.
IdentifySelf(r) ==
    /\ pc[r] = "identify"
    /\ \/ /\ Goto(r, "openGate")
          /\ ownStart' = [ownStart EXCEPT ![r] = ProcessStart(r)]
          /\ UNCHANGED result
       \/ /\ Faults
          /\ End(r, "failed", "unknown")
          /\ UNCHANGED ownStart
    /\ UNCHANGED <<attempt, seen, files, time>>

\* Mutant: the gate opened with "w", not "wx".
OpenGateNotExclusive(r) ==
    /\ pc[r] = "openGate"
    /\ gate' = [owner |-> r, content |-> "empty"]
    /\ Goto(r, "writeGate")
    /\ UNCHANGED <<local, lock, time>>

\* Mutant: a contender waits for the gate instead of reporting it.
OpenGateWaits(r) ==
    /\ pc[r] = "openGate"
    /\ gate = None
    /\ gate' = [owner |-> r, content |-> "empty"]
    /\ Goto(r, "writeGate")
    /\ UNCHANGED <<local, lock, time>>

\* openSync(gatePath, "wx").
OpenGate(r) ==
    /\ pc[r] = "openGate"
    /\ IF gate = None
       THEN /\ gate' = [owner |-> r, content |-> "empty"]
            /\ Goto(r, "writeGate")
       ELSE Goto(r, "diagnose") /\ UNCHANGED gate
    /\ UNCHANGED <<local, lock, time>>

\* Mutant: an orphaned gate is reclaimed.
DiagnoseGateReclaiming(r) ==
    /\ pc[r] = "diagnose"
    /\ IF gate # None /\ gate.content = "record" /\ ~PidLive(PidOf[gate.owner])
       THEN gate' = None /\ Goto(r, "openGate") /\ UNCHANGED result
       ELSE End(r, "failed", "busy") /\ UNCHANGED gate
    /\ UNCHANGED <<attempt, seen, ownStart, lock, time>>

\* diagnoseExistingPendingMonitorPostRecoveryGate: read only.
DiagnoseGate(r) ==
    /\ pc[r] = "diagnose"
    /\ End(r, "failed",
           IF gate = None THEN "busy"
           ELSE IF gate.content = "empty" THEN "corrupt"
           ELSE IF PidLive(PidOf[gate.owner]) THEN "busy" ELSE "orphaned")
    /\ UNCHANGED <<attempt, seen, ownStart, files, time>>

\* Write and fsync the gate's owner record; on an error unlink it, or leave it.
WriteGate(r) ==
    /\ pc[r] = "writeGate"
    /\ \/ /\ gate' = [owner |-> r, content |-> "record"]
          /\ Goto(r, "link")
          /\ UNCHANGED result
       \/ /\ Faults
          /\ gate' \in {None, gate}
          /\ End(r, "failed", "ioError")
    /\ UNCHANGED <<attempt, seen, ownStart, lock, time>>

----------------------------------------------------------------------------
(* Under the gate: install the lock, or judge the one that is there.       *)

\* The lock file as linkSync would leave it.
Installed(r) == [owner |-> r, startedAt |-> ownStart[r], acquiredAt |-> Now]

\* linkSync of a complete temporary record: create if absent.
LinkLock(r) ==
    /\ pc[r] = "link"
    /\ \/ /\ lock = None
          /\ lock' = Installed(r)
          /\ Goto(r, "installed")
          /\ UNCHANGED result
       \/ /\ lock # None
          /\ Goto(r, "inspect")
          /\ UNCHANGED <<lock, result>>
       \/ /\ Faults
          /\ End(r, "failing", "ioError")
          /\ UNCHANGED lock
    /\ UNCHANGED <<attempt, seen, ownStart, gate, time>>

\* Mutant: no turn is left after a stale lock is renamed away.
NextAttemptNever(r) == End(r, "failing", "race") /\ UNCHANGED attempt

\* "continue": the next turn of the loop, or pending_posts_lock_race.
NextAttempt(r) ==
    IF attempt[r] = MaxAttempts
    THEN End(r, "failing", "race") /\ UNCHANGED attempt
    ELSE Goto(r, "link") /\ attempt' = [attempt EXCEPT ![r] = @ + 1] /\ UNCHANGED result

\* Mutant: a pid that cannot be signalled (EPERM) counts as dead.
InspectLockAssumingDead(r) ==
    /\ pc[r] = "inspect"
    /\ \/ lock = None /\ NextAttempt(r) /\ UNCHANGED seen
       \/ /\ lock # None
          /\ seen' = [seen EXCEPT ![r] = lock]
          /\ Goto(r, "rename")
          /\ UNCHANGED <<attempt, result>>
    /\ UNCHANGED <<ownStart, files, time>>

\* readFileSync(lockPath) and isProcessAlive of the pid in it.
InspectLock(r) ==
    /\ pc[r] = "inspect"
    /\ \/ /\ lock = None
          /\ NextAttempt(r)
          /\ UNCHANGED seen
       \/ /\ lock # None
          /\ seen' = [seen EXCEPT ![r] = lock]
          /\ Goto(r, IF PidLive(PidOf[lock.owner]) THEN "compare" ELSE "rename")
          /\ UNCHANGED <<attempt, result>>
       \/ /\ Faults
          /\ End(r, "failing", "ioError")
          /\ UNCHANGED <<attempt, seen>>
    /\ UNCHANGED <<ownStart, files, time>>

\* Mutant: an owner whose start time cannot be read counts as stale.
CompareIdentityUnreadableIsStale(r) ==
    /\ pc[r] = "compare"
    /\ \/ \E s \in Run :
             /\ Live(s) /\ PidOf[s] = PidOf[seen[r].owner]
             /\ SameIdentity(seen[r], s) /\ End(r, "failing", "owned")
       \/ Faults /\ Goto(r, "rename") /\ UNCHANGED result
    /\ UNCHANGED <<attempt, seen, ownStart, files, time>>

\* The pid is alive: is it the process that wrote the record?
CompareIdentity(r) ==
    /\ pc[r] = "compare"
    /\ \/ \E s \in Run :
             /\ Live(s) /\ PidOf[s] = PidOf[seen[r].owner]
             /\ \/ SameIdentity(seen[r], s) /\ End(r, "failing", "owned")
                \/ /\ ~SameIdentity(seen[r], s)
                   /\ StartedLater(seen[r], s)
                   /\ Goto(r, "rename") /\ UNCHANGED result
                \/ /\ ~SameIdentity(seen[r], s)
                   /\ ~StartedLater(seen[r], s)
                   /\ End(r, "failing", "unknown")
       \/ /\ Faults \/ ~PidLive(PidOf[seen[r].owner])
          /\ End(r, "failing", "unknown")
    /\ UNCHANGED <<attempt, seen, ownStart, files, time>>

\* renameSync of whatever is at the lock's path to a stale name.
RenameStale(r) ==
    /\ pc[r] = "rename"
    /\ \/ lock' = None /\ NextAttempt(r)
       \/ Faults /\ End(r, "failing", "ioError") /\ UNCHANGED <<attempt, lock>>
    /\ UNCHANGED <<seen, ownStart, gate, time>>

\* The token check of the gate's release; a missing gate counts as released.
OwnGate(r) == gate # None => gate.owner = r

\* releaseRecoveryGate before the lease is returned; a failure undoes the lock.
ReleaseGate(r) ==
    /\ pc[r] = "installed"
    /\ \/ OwnGate(r) /\ gate' = None /\ End(r, "held", "acquired")
       \/ /\ Faults \/ ~OwnGate(r)
          /\ End(r, "undo", "ioError") /\ UNCHANGED gate
    /\ UNCHANGED <<attempt, seen, ownStart, lock, time>>

\* The best-effort lease.release() of that failure.
UndoInstall(r) ==
    /\ pc[r] = "undo"
    /\ Goto(r, "failing")
    /\ \/ lock' = None
       \/ Faults /\ UNCHANGED lock
    /\ UNCHANGED <<local, gate, time>>

\* The finally block of every error thrown under the gate.
ReleaseGateOnError(r) ==
    /\ pc[r] = "failing"
    /\ Goto(r, "failed")
    /\ \/ OwnGate(r) /\ gate' = None
       \/ (Faults \/ ~OwnGate(r)) /\ UNCHANGED gate
    /\ UNCHANGED <<local, lock, time>>

----------------------------------------------------------------------------
(* The end of the lease: read the token, then unlink.  No gate is taken.   *)

Stop(r) ==
    /\ pc[r] = "held"
    /\ Goto(r, "check")
    /\ UNCHANGED <<local, files, time>>

CheckToken(r) ==
    /\ pc[r] = "check"
    /\ \/ /\ lock # None /\ lock.owner = r
          /\ Goto(r, "unlink")
       \/ /\ Faults \/ lock = None \/ lock.owner # r
          /\ Goto(r, "released")
    /\ UNCHANGED <<local, files, time>>

UnlinkLock(r) ==
    /\ pc[r] = "unlink"
    /\ Goto(r, "released")
    /\ \/ lock' = None
       \/ Faults /\ UNCHANGED lock
    /\ UNCHANGED <<local, gate, time>>

----------------------------------------------------------------------------
(* The environment.                                                        *)

\* The process ends, or is killed, wherever it is: its memory goes, the files stay.
Exit(r) ==
    /\ Live(r)
    /\ End(r, "gone", "none")
    /\ attempt' = [attempt EXCEPT ![r] = 1]
    /\ seen' = [seen EXCEPT ![r] = None]
    /\ ownStart' = [ownStart EXCEPT ![r] = 0]
    /\ UNCHANGED <<files, time>>

\* The operator's procedure for an orphaned or corrupt gate: every monitor is
\* stopped first, and only the gate is removed.
ClearGate ==
    /\ gate # None
    /\ \A r \in Run : ~Live(r)
    /\ gate' = None
    /\ UNCHANGED <<pc, local, lock, time>>

Tick ==
    /\ clock < MaxClock
    /\ clock' = clock + 1
    /\ UNCHANGED <<pc, local, files, startAt, step>>

StepWallClock ==
    /\ step' \in 0..MaxStep
    /\ step' # step
    /\ UNCHANGED <<pc, local, files, startAt, clock>>

----------------------------------------------------------------------------
\* What a run's own code does once it is started.
Acquire(r) ==
    \/ IdentifySelf(r) \/ OpenGate(r) \/ DiagnoseGate(r) \/ WriteGate(r)
    \/ LinkLock(r) \/ InspectLock(r) \/ CompareIdentity(r) \/ RenameStale(r)
    \/ ReleaseGate(r) \/ UndoInstall(r) \/ ReleaseGateOnError(r)

Release(r) == CheckToken(r) \/ UnlinkLock(r)

Next ==
    \/ \E r \in Run : Start(r) \/ Acquire(r) \/ Stop(r) \/ Release(r) \/ Exit(r)
    \/ ClearGate \/ Tick \/ StepWallClock

Spec == Init /\ [][Next]_vars

\* The event loop runs a started acquisition to its end: none of it awaits.
FairSpec == Spec /\ \A r \in Run : WF_vars(Acquire(r)) /\ WF_vars(Release(r))

----------------------------------------------------------------------------
(* Properties.                                                             *)

\* At most one live run is between installing the lock and removing it, so at
\* most one monitor reads and writes the outbox.
MutualExclusion ==
    \A r, s \in Run : pc[r] \in LeasePcs /\ pc[s] \in LeasePcs => r = s

\* A run that holds the lease is the owner the lock file names: nobody took
\* it away between two of its steps ("a live owner is never displaced").
LeaseIsOnDisk ==
    \A r \in Run : pc[r] \in LeasePcs => lock # None /\ lock.owner = r

\* No step removes or replaces the lock of a live run other than that run's
\* own release, rollback or exit, and the rename never hits a newer lock.
LiveOwnerNeverDisplaced ==
    [][lock # None /\ Live(lock.owner) /\ lock' # lock
        => pc[lock.owner] \in {"undo", "unlink"} /\ pc'[lock.owner] # pc[lock.owner]]_vars

\* A gate whose owner died stays until an operator removes it with every
\* monitor stopped: no run reclaims it, so none races a recovery in flight.
OrphanedGateStays ==
    [][gate # None /\ ~Live(gate.owner) /\ gate' # gate
        => \A r \in Run : ~Live(r) /\ ~Live(r)']_vars

\* Acquisition never hangs: it ends with the lease or with a reported failure.
AcquisitionEnds ==
    \A r \in Run : pc[r] = "identify" ~> pc[r] \in {"held", "failed", "gone"}

\* A lock left by a dead process does not outlive the next start: alone, with
\* no gate on disk and a pid of its own, a run that starts gets the lease.
Alone(r) == Live(r) /\ \A s \in Run \ {r} : ~Live(s)
FreshStart(r) ==
    /\ pc[r] = "identify" /\ Alone(r) /\ gate = None
    /\ lock # None => PidOf[lock.owner] # PidOf[r]
StaleLockIsRecovered ==
    \A r \in Run :
        FreshStart(r) ~> \/ pc[r] = "held" \/ ~Alone(r) \/ result[r] \in {"ioError", "unknown"}
=============================================================================
