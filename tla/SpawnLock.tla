------------------------------- MODULE SpawnLock -------------------------------
(***************************************************************************)
(* SpawnLock (infra/spawn-lock.ts): the file spawn.lock and the processes  *)
(* that acquire and release it.  Each call is synchronous, so a process    *)
(* does nothing else meanwhile, but other processes run between any two of *)
(* its file operations: one action is one file operation.                  *)
(***************************************************************************)
CONSTANT Procs      \* client processes, named by their pid

VARIABLES
    lockFile,   \* spawn.lock: empty, or the one file at that path
    pc,         \* where each process is in acquire() or release()
    acquired,   \* processes whose #acquired is set
    alive,      \* processes that run
    judged,     \* history: the file a process read before it removes the lock
    robbed      \* history: processes whose lock file another one removed

lockVars == <<lockFile, pc, acquired, alive, judged, robbed>>

(* A file is created empty and written next; "old" says that its timestamp *)
(* is more than SPAWN_LOCK_STALE_THRESHOLD_MS ago.                         *)
LockFiles == [owner : Procs, written : BOOLEAN, old : BOOLEAN]
ControlPoints == {"out", "create", "judge", "unlink", "retry", "write", "held", "verify",
                  "delete"}

LockTypeOK ==
    /\ lockFile \in {{}} \cup {{f} : f \in LockFiles}
    /\ pc \in [Procs -> ControlPoints]
    /\ acquired \subseteq Procs
    /\ alive \subseteq Procs
    /\ judged \in [Procs -> {{}} \cup {{f} : f \in LockFiles}]
    /\ robbed \subseteq Procs

LockInit ==
    /\ lockFile = {}
    /\ pc = [p \in Procs |-> "out"]
    /\ acquired = {}
    /\ alive = Procs
    /\ judged = [p \in Procs |-> {}]
    /\ robbed = {}

GoTo(p, point) == pc' = [pc EXCEPT ![p] = point]

Owns(p) == \E f \in lockFile : f.owner = p

-----------------------------------------------------------------------------
(* acquire() *)

Acquire(p) ==
    /\ pc[p] = "out"
    /\ GoTo(p, "create")
    /\ UNCHANGED <<lockFile, acquired, alive, judged, robbed>>

MutTryExclusiveCreate(p) ==
    /\ pc[p] \in {"create", "retry"}
    /\ \/ /\ lockFile' = {[owner |-> p, written |-> FALSE, old |-> FALSE]}
          /\ GoTo(p, "write")
       \/ GoTo(p, "out") /\ UNCHANGED lockFile
    /\ UNCHANGED <<acquired, alive, judged, robbed>>

\* openSync(path, 'wx'), before and after the removal of a stale lock.  It may
\* also fail for another reason, and the call returns 'write_failed'.
TryExclusiveCreate(p) ==
    /\ pc[p] \in {"create", "retry"}
    /\ \/ /\ lockFile = {}
          /\ lockFile' = {[owner |-> p, written |-> FALSE, old |-> FALSE]}
          /\ GoTo(p, "write")
       \/ /\ lockFile # {}
          /\ GoTo(p, IF pc[p] = "create" THEN "judge" ELSE "out")
          /\ UNCHANGED lockFile
       \/ GoTo(p, "out") /\ UNCHANGED lockFile
    /\ UNCHANGED <<acquired, alive, judged, robbed>>

\* writeSync: to the file p created, which may have been removed since.  If it
\* fails the empty file stays.
WriteLock(p) ==
    /\ pc[p] = "write"
    /\ \/ /\ lockFile' = {[f EXCEPT !.written = @ \/ f.owner = p] : f \in lockFile}
          /\ acquired' = acquired \cup {p}
          /\ GoTo(p, "held")
          /\ UNCHANGED robbed
       \/ /\ GoTo(p, "out")
          /\ robbed' = robbed \ {p}
          /\ UNCHANGED <<lockFile, acquired>>
    /\ UNCHANGED <<alive, judged>>

\* A lock without valid data, of a dead process or with an old timestamp is stale.
Held(f) == f.written /\ f.owner \in alive /\ ~f.old

IsLockHeld(p) ==
    /\ pc[p] = "judge"
    /\ IF \E f \in lockFile : Held(f)
       THEN GoTo(p, "out") /\ UNCHANGED judged
       ELSE GoTo(p, "unlink") /\ judged' = [judged EXCEPT ![p] = lockFile]
    /\ UNCHANGED <<lockFile, acquired, alive, robbed>>

\* unlinkSync(path), whichever file is there by now.
Unlink(p) ==
    /\ lockFile' = {}
    /\ robbed' = (robbed \cup {f.owner : f \in {g \in lockFile :
                     g.owner \in alive /\ pc[g.owner] \in {"write", "held", "verify", "delete"}}})
                  \ {p}

RemoveStaleLock(p) ==
    /\ pc[p] = "unlink"
    /\ Unlink(p)
    /\ GoTo(p, "retry")
    /\ judged' = [judged EXCEPT ![p] = {}]
    /\ UNCHANGED <<acquired, alive>>

-----------------------------------------------------------------------------
(* release() *)

Release(p) ==
    /\ pc[p] = "held"
    /\ GoTo(p, "verify")
    /\ UNCHANGED <<lockFile, acquired, alive, judged, robbed>>

MutVerifyOwnership(p) ==
    /\ pc[p] = "verify"
    /\ GoTo(p, "delete")
    /\ judged' = [judged EXCEPT ![p] = lockFile]
    /\ UNCHANGED <<lockFile, acquired, alive, robbed>>

VerifyOwnership(p) ==
    /\ pc[p] = "verify"
    /\ IF \E f \in lockFile : f.written /\ f.owner = p
       THEN /\ GoTo(p, "delete")
            /\ judged' = [judged EXCEPT ![p] = lockFile]
            /\ UNCHANGED <<acquired, robbed>>
       ELSE /\ GoTo(p, "out")
            /\ acquired' = acquired \ {p}
            /\ robbed' = robbed \ {p}
            /\ UNCHANGED judged
    /\ UNCHANGED <<lockFile, alive>>

DeleteLock(p) ==
    /\ pc[p] = "delete"
    /\ Unlink(p)
    /\ GoTo(p, "out")
    /\ acquired' = acquired \ {p}
    /\ judged' = [judged EXCEPT ![p] = {}]
    /\ UNCHANGED alive

-----------------------------------------------------------------------------
(* Time and failures.  A holder outlives the threshold if it is suspended. *)

LockAges ==
    /\ \E f \in lockFile : f.written /\ ~f.old
    /\ lockFile' = {[f EXCEPT !.old = TRUE] : f \in lockFile}
    /\ UNCHANGED <<pc, acquired, alive, judged, robbed>>

Crash(p) ==
    /\ p \in alive
    /\ alive' = alive \ {p}
    /\ acquired' = acquired \ {p}
    /\ robbed' = robbed \ {p}
    /\ judged' = [judged EXCEPT ![p] = {}]
    /\ GoTo(p, "out")
    /\ UNCHANGED lockFile

\* A process with a pid that no lock file names, nor one that a process judged
\* and is about to remove: a pid is not used again that soon.
Start(p) ==
    /\ p \notin alive
    /\ ~Owns(p)
    /\ \A q \in Procs : \A f \in judged[q] : f.owner # p
    /\ alive' = alive \cup {p}
    /\ UNCHANGED <<lockFile, pc, acquired, judged, robbed>>

LockStep(p) ==
    /\ p \in alive
    /\ \/ TryExclusiveCreate(p) \/ WriteLock(p) \/ IsLockHeld(p) \/ RemoveStaleLock(p)
       \/ VerifyOwnership(p) \/ DeleteLock(p)

=============================================================================
