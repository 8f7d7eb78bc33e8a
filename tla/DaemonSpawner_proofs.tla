-------------------------- MODULE DaemonSpawner_proofs --------------------------
(***************************************************************************)
(* Proofs about DaemonSpawner, for every set of client processes, of       *)
(* daemons and of versions.                                                *)
(*                                                                         *)
(* One daemon at most holds daemon.json because whoever starts one holds   *)
(* the lock and found none, and keeps the lock until the daemon serves.    *)
(* The invariant says so of every point between those two.                 *)
(***************************************************************************)
EXTENDS DaemonSpawner, SpawnLock_proofs, WellFoundedInduction

UnderLock == {"look", "recheck", "judge", "stop", "stopping", "clean", "sweep", "spawn"}

\* Where a process is in SpawnLock while it is in ensureDaemonRunning, and the
\* local variables it has there.
PhaseMatches ==
    \A p \in Procs :
        /\ phase[p] = "idle" => pc[p] \in {"out", "verify", "delete"}
        /\ phase[p] = "locking" => pc[p] \in {"create", "judge", "unlink", "retry", "write"}
        /\ phase[p] \in UnderLock => pc[p] = "held"
        /\ phase[p] = "poll" => pc[p] \in {"held", "out"}
        /\ phase[p] \in {"judge", "stop", "stopping"} => target[p] \in Daemons
        /\ child[p] # NoDaemon => phase[p] = "poll" /\ pc[p] = "held"

\* The version that was read is still that of the pid: no daemon gets a pid that
\* a process refers to.
JudgedCurrent ==
    \A p \in Procs : phase[p] = "judge" /\ Running(target[p]) => ~Outdated(p, target[p])

\* A daemon has its name in daemon.json from the rename until it deletes the file,
\* and there is none before; until its first beat its spawner waits for it under
\* the lock.
DaemonIsNamed ==
    \A d \in Daemons :
        /\ In(d, {"named", "serving", "leaving", "releasing"}) => instance = d
        /\ In(d, {"starting", "checked"}) => instance = NoDaemon
        /\ In(d, ComingUp) => heartbeat = "stale" /\ \E p \in Procs : child[p] = d

AtMostOne == \A d, e \in Daemons : Unreleased(d) /\ Unreleased(e) => d = e

\* What a process under the lock knows of the daemon that may still hold
\* daemon.json, and of the files it removed.
SpawnerKnows ==
    \A p \in Procs :
        /\ \A d \in Daemons : Unreleased(d) =>
              /\ phase[p] \in {"recheck", "judge", "stop", "stopping"} => target[p] = d
              /\ phase[p] \notin {"clean", "sweep", "spawn"}
        /\ phase[p] \in {"sweep", "spawn"} => instance = NoDaemon
        /\ phase[p] = "spawn" => heartbeat = "stale"

Guarded == robbed = {} /\ AtMostOne /\ DaemonIsNamed /\ SpawnerKnows

Inv ==
    /\ SpawnerTypeOK
    /\ LockInv
    /\ PhaseMatches
    /\ JudgedCurrent
    /\ ~unguarded => Guarded

-----------------------------------------------------------------------------
(* Lemmas about daemons and their stages *)

DaemonStates == {Gone} \cup [stage : Stages, version : {Version[p] : p \in Procs}]

Holding == Stages \ {"released"}

\* A daemon that is not gone is in a stage, and "gone" is none.
LEMMA StageOfRunning ==
    ASSUME SpawnerTypeOK, NEW d \in Daemons
    PROVE  /\ Running(d) <=> daemon[d].stage \in Stages
           /\ Unreleased(d) <=> daemon[d].stage \in Holding
BY DEF SpawnerTypeOK, Running, Unreleased, In, Holding, Gone, Stages

\* The same of a later state, whose daemons are typed.
LEMMA StageOfRunningNext ==
    ASSUME daemon' \in [Daemons -> DaemonStates], NEW d \in Daemons
    PROVE  Unreleased(d)' <=> daemon'[d].stage \in Holding
BY DEF DaemonStates, Running, Unreleased, In, Holding, Gone, Stages

\* Daemons keep the version they have.
VersionsKept ==
    \A d \in Daemons : Running(d)' => Running(d) /\ daemon'[d].version = daemon[d].version

LEMMA SetStageEffect ==
    ASSUME SpawnerTypeOK, NEW d \in Daemons, Running(d), NEW next \in Stages, SetStage(d, next)
    PROVE  /\ daemon' \in [Daemons -> DaemonStates]
           /\ daemon'[d] # Gone
           /\ daemon'[d].stage = next
           /\ \A e \in Daemons : e # d => daemon'[e] = daemon[e]
           /\ VersionsKept
BY DEF SpawnerTypeOK, Running, Gone, Stages, SetStage, DaemonStates, VersionsKept

LEMMA ExitsEffect ==
    ASSUME SpawnerTypeOK, NEW d \in Daemons, Exits(d)
    PROVE  /\ daemon' \in [Daemons -> DaemonStates]
           /\ daemon'[d] = Gone
           /\ \A e \in Daemons : e # d => daemon'[e] = daemon[e]
           /\ VersionsKept
BY DEF SpawnerTypeOK, Exits, DaemonStates, VersionsKept, Running

LEMMA JudgedKept ==
    ASSUME Inv, VersionsKept,
           \A q \in Procs : phase'[q] = "judge" => phase[q] = "judge" /\ target'[q] = target[q]
    PROVE  JudgedCurrent'
<1> SUFFICES ASSUME NEW q \in Procs, phase'[q] = "judge", Running(target[q])'
             PROVE  ~Outdated(q, target[q])'
  BY DEF JudgedCurrent
<1> DEFINE d == target[q]
<1>1. phase[q] = "judge" /\ target'[q] = d /\ d \in Daemons
  BY DEF Inv, PhaseMatches
<1>2. Running(d) /\ daemon'[d].version = daemon[d].version
  BY <1>1 DEF VersionsKept
<1> QED
  BY <1>1, <1>2 DEF Inv, JudgedCurrent, Outdated

LEMMA UnchangedVersions ==
    ASSUME UNCHANGED daemon
    PROVE  VersionsKept
BY DEF VersionsKept, Running

\* Nobody else is under the lock with a process that has it.
LEMMA AloneUnderLock ==
    ASSUME Inv, ~unguarded, NEW p \in Procs, phase[p] \in UnderLock,
           NEW q \in Procs, phase[q] \in UnderLock \/ child[q] # NoDaemon
    PROVE  q = p
<1>1. pc[p] = "held" /\ pc[q] = "held"
  BY DEF Inv, PhaseMatches
<1> QED
  BY <1>1, OneHolder DEF Inv, Guarded, Locking

\* Under the lock no daemon is coming up, and daemon.json names the one there is.
LEMMA NoneComingUp ==
    ASSUME Inv, ~unguarded, NEW p \in Procs, phase[p] \in UnderLock
    PROVE  \A d \in Daemons : /\ ~In(d, ComingUp)
                              /\ Unreleased(d) => instance = d
<1> TAKE d \in Daemons
<1>1. ~In(d, ComingUp)
  <2> SUFFICES ASSUME In(d, ComingUp) PROVE FALSE
    OBVIOUS
  <2>1. PICK q \in Procs : child[q] = d
    BY DEF Inv, Guarded, DaemonIsNamed
  <2>2. q = p /\ phase[q] = "poll"
    BY <2>1, AloneUnderLock, NoDaemonAssumption DEF Inv, PhaseMatches
  <2> QED
    BY <2>2 DEF UnderLock
<1>2. Unreleased(d) => In(d, {"serving", "leaving", "releasing"})
  BY <1>1, StageOfRunning DEF Inv, In, ComingUp, Stages, Holding
<1> QED
  BY <1>1, <1>2 DEF Inv, Guarded, DaemonIsNamed, In

-----------------------------------------------------------------------------
(* ensureDaemonRunning keeps the invariant *)

LEMMA InitInv == Init => Inv
<1> SUFFICES ASSUME Init PROVE Inv
  OBVIOUS
<1>1. SpawnerTypeOK /\ LockInv
  BY LockInitInv DEF Init, SpawnerTypeOK, LockInv, Phases, NoDaemon
<1>2. PhaseMatches /\ JudgedCurrent
  BY DEF Init, LockInit, PhaseMatches, JudgedCurrent, UnderLock
<1>3. \A d \in Daemons : daemon[d].stage \notin Stages
  BY DEF Init, Gone, Stages
<1>4. \A d \in Daemons : ~Unreleased(d)
  BY <1>1, <1>3, StageOfRunning DEF Unreleased
<1>5. Guarded
  BY <1>3, <1>4 DEF Init, LockInit, Guarded, AtMostOne, DaemonIsNamed, SpawnerKnows, In,
                    Stages, ComingUp
<1> QED
  BY <1>1, <1>2, <1>5 DEF Inv

LEMMA CallInv ==
    ASSUME Inv, NEW p \in Procs, Call(p)
    PROVE  Inv'
<1> USE DEF Call, Enter, fileVars
<1>1. LockInv'
  BY AcquireInv DEF Inv
<1>2. SpawnerTypeOK'
  BY <1>1 DEF Inv, SpawnerTypeOK, LockInv, Phases
<1>3. PhaseMatches'
  BY DEF Inv, SpawnerTypeOK, LockTypeOK, PhaseMatches, Acquire, GoTo, UnderLock
<1>4. JudgedCurrent'
  BY JudgedKept, UnchangedVersions DEF Inv, SpawnerTypeOK
<1>5. ~unguarded' => Guarded'
  BY DEF Inv, SpawnerTypeOK, Guarded, AtMostOne, DaemonIsNamed, SpawnerKnows, In, Running,
         Unreleased, Acquire
<1> QED
  BY <1>1, <1>2, <1>3, <1>4, <1>5 DEF Inv

LEMMA LockOperationInv ==
    ASSUME Inv, NEW p \in Procs, LockOperation(p)
    PROVE  Inv'
<1> USE DEF Enter, fileVars
<1>0. PICK next \in ControlPoints :
          /\ pc' = [pc EXCEPT ![p] = next]
          /\ pc[p] \in {"create", "judge", "unlink", "retry", "write"} =>
                 next \in {"judge", "unlink", "retry", "write", "held", "out"}
          /\ pc[p] \in {"verify", "delete"} => next \in {"delete", "out"}
  BY LockStepMoves DEF Inv, LockOperation
<1>1. pc[p] \notin {"held", "out"}
  BY LockStepMoves DEF Inv, LockOperation
<1>2. /\ phase[p] \in {"idle", "locking"}
      /\ \/ phase[p] = "locking" /\ next = "held" /\ phase' = [phase EXCEPT ![p] = "look"]
         \/ phase[p] = "locking" /\ next = "out" /\ phase' = [phase EXCEPT ![p] = "poll"]
         \/ ~(phase[p] = "locking" /\ next \in {"held", "out"}) /\ UNCHANGED phase
  BY <1>0, <1>1 DEF LockOperation, Inv, PhaseMatches, SpawnerTypeOK, LockTypeOK, Phases, UnderLock
<1>3. LockInv'
  BY LockStepInv DEF Inv, LockOperation
<1>4. SpawnerTypeOK'
  BY <1>2, <1>3 DEF Inv, SpawnerTypeOK, LockInv, Phases, LockOperation
<1>5. PhaseMatches'
  BY <1>0, <1>1, <1>2
     DEF Inv, SpawnerTypeOK, LockTypeOK, PhaseMatches, LockOperation, UnderLock
<1>6. JudgedCurrent'
  BY <1>2, JudgedKept, UnchangedVersions DEF Inv, SpawnerTypeOK, LockOperation
<1>7. ~unguarded' => Guarded'
  <2> SUFFICES ASSUME ~unguarded' PROVE Guarded'
    OBVIOUS
  <2>1. ~unguarded /\ robbed' = {} /\ UNCHANGED <<instance, heartbeat, daemon, target, child>>
    BY DEF LockOperation, Inv, SpawnerTypeOK, Guarded
  <2>2. \A q \in Procs :
           phase'[q] \in {"recheck", "judge", "stop", "stopping", "clean", "sweep", "spawn"} =>
               phase[q] = phase'[q]
    BY <1>2 DEF Inv, SpawnerTypeOK
  <2>3. AtMostOne' /\ DaemonIsNamed'
    BY <2>1 DEF Inv, Guarded, AtMostOne, DaemonIsNamed, In, Running, Unreleased
  <2>4. SpawnerKnows'
    BY <2>1, <2>2 DEF Inv, Guarded, SpawnerKnows, In, Running, Unreleased
  <2> QED
    BY <2>1, <2>3, <2>4 DEF Guarded
<1> QED
  BY <1>3, <1>4, <1>5, <1>6, <1>7 DEF Inv

\* The end of a call changes the lock at most by the first step of release().
LEMMA ReturnEffect ==
    ASSUME Inv, NEW p \in Procs, phase[p] \in {"judge", "poll"}, Return(p),
           UNCHANGED <<fileVars, daemon>>, unguarded' \in BOOLEAN
    PROVE  /\ SpawnerTypeOK' /\ LockInv' /\ PhaseMatches' /\ JudgedCurrent'
           /\ UNCHANGED robbed
           /\ \A q \in Procs : q # p => /\ phase'[q] = phase[q]
                                       /\ target'[q] = target[q] /\ child'[q] = child[q]
           /\ phase'[p] = "idle"
<1> USE DEF Return, Enter, Target, fileVars
<1>1. LockInv' /\ UNCHANGED robbed
  BY ReleaseInv, UnchangedLockInv DEF Inv, lockVars, Release
<1>2. SpawnerTypeOK'
  BY <1>1 DEF Inv, SpawnerTypeOK, LockInv, Phases
<1>3. PhaseMatches'
  BY DEF Inv, SpawnerTypeOK, LockTypeOK, PhaseMatches, Release, lockVars, GoTo, UnderLock
<1>4. JudgedCurrent'
  BY JudgedKept, UnchangedVersions DEF Inv, SpawnerTypeOK
<1> QED
  BY <1>1, <1>2, <1>3, <1>4 DEF Inv, SpawnerTypeOK

\* What a call does under the lock: it goes on, and keeps the lock.
LEMMA UnderLockInv ==
    ASSUME Inv, NEW p \in Procs, phase[p] \in UnderLock, NEW next \in UnderLock,
           NEW found \in Daemons \cup {NoDaemon},
           next \in {"judge", "stop", "stopping"} => found \in Daemons,
           phase' = [phase EXCEPT ![p] = next], target' = [target EXCEPT ![p] = found],
           UNCHANGED <<lockVars, child, unguarded>>,
           daemon' \in [Daemons -> DaemonStates], VersionsKept,
           instance' \in {instance, NoDaemon}, heartbeat' \in {heartbeat, "stale"},
           next = "judge" => /\ UNCHANGED daemon
                             /\ Running(found) => ~Outdated(p, found),
           ~unguarded => AtMostOne' /\ DaemonIsNamed' /\ SpawnerKnows'
    PROVE  Inv'
<1>1. LockInv'
  BY UnchangedLockInv DEF Inv
<1>2. SpawnerTypeOK'
  BY <1>1 DEF Inv, SpawnerTypeOK, LockInv, Phases, DaemonStates, UnderLock
<1>3. PhaseMatches'
  BY DEF Inv, SpawnerTypeOK, PhaseMatches, lockVars, UnderLock
<1>4. JudgedCurrent'
  <2>1. CASE next = "judge"
    BY <2>1 DEF Inv, SpawnerTypeOK, JudgedCurrent, Running, Outdated
  <2>2. CASE next # "judge"
    BY <2>2, JudgedKept DEF Inv, SpawnerTypeOK
  <2> QED
    BY <2>1, <2>2
<1>5. ~unguarded' => Guarded'
  BY DEF Inv, Guarded, lockVars
<1> QED
  BY <1>1, <1>2, <1>3, <1>4, <1>5 DEF Inv

\* The same where neither the daemons nor the files change.
LEMMA GoesOnInv ==
    ASSUME Inv, NEW p \in Procs, phase[p] \in UnderLock, NEW next \in UnderLock,
           NEW found \in Daemons \cup {NoDaemon},
           next \in {"judge", "stop", "stopping"} => found \in Daemons,
           phase' = [phase EXCEPT ![p] = next], target' = [target EXCEPT ![p] = found],
           UNCHANGED <<lockVars, child, unguarded, daemon, fileVars>>,
           next = "judge" => (Running(found) => ~Outdated(p, found)),
           next \notin {"sweep", "spawn"},
           ~unguarded => \A d \in Daemons : Unreleased(d) =>
                            /\ next \in {"recheck", "judge", "stop", "stopping"} => found = d
                            /\ next # "clean"
    PROVE  Inv'
<1>1. daemon' \in [Daemons -> DaemonStates]
  BY DEF Inv, SpawnerTypeOK, DaemonStates
<1>2. ~unguarded => AtMostOne' /\ DaemonIsNamed' /\ SpawnerKnows'
  BY DEF Inv, SpawnerTypeOK, Guarded, AtMostOne, DaemonIsNamed, SpawnerKnows, In, Running,
         Unreleased, fileVars
<1> QED
  BY <1>1, <1>2, UnderLockInv, UnchangedVersions DEF fileVars

LEMMA LookAgainInv ==
    ASSUME Inv, NEW p \in Procs, LookAgain(p)
    PROVE  Inv'
<1>1. phase[p] \in UnderLock /\ instance \in Daemons \cup {NoDaemon}
  BY DEF LookAgain, UnderLock, Inv, SpawnerTypeOK
<1>2. ~unguarded => \A d \in Daemons : Unreleased(d) => instance = d
  BY <1>1, NoneComingUp
<1> QED
  BY <1>1, <1>2, GoesOnInv DEF LookAgain, Enter, Target, UnderLock

\* A process that finds its target dead knows that none is left.
LEMMA TargetDeadInv ==
    ASSUME Inv, NEW p \in Procs, phase[p] \in {"recheck", "stop"}, ~Running(target[p]),
           Enter(p, "clean"), Target(p, NoDaemon),
           UNCHANGED <<lockVars, child, unguarded, daemon, fileVars>>
    PROVE  Inv'
<1>1. ~unguarded => \A d \in Daemons : ~Unreleased(d)
  BY DEF Inv, Guarded, SpawnerKnows, Unreleased
<1> QED
  BY <1>1, GoesOnInv DEF Enter, Target, UnderLock

\* A process that goes on with the same target.
LEMMA SameTargetInv ==
    ASSUME Inv, NEW p \in Procs, phase[p] \in {"recheck", "judge", "stop"}, target[p] \in Daemons,
           NEW next \in {"judge", "stop", "stopping"}, Enter(p, next),
           next = "judge" => ~Outdated(p, target[p]),
           UNCHANGED <<lockVars, target, child, unguarded, daemon, fileVars>>
    PROVE  Inv'
<1>1. target' = [target EXCEPT ![p] = target[p]]
  BY DEF Inv, SpawnerTypeOK
<1>2. ~unguarded => \A d \in Daemons : Unreleased(d) => target[p] = d
  BY DEF Inv, Guarded, SpawnerKnows
<1> QED
  BY <1>1, <1>2, GoesOnInv DEF Enter, UnderLock

LEMMA RecheckInv ==
    ASSUME Inv, NEW p \in Procs, Recheck(p)
    PROVE  Inv'
<1>1. CASE ~Running(target[p]) /\ Enter(p, "clean") /\ Target(p, NoDaemon)
  BY <1>1, TargetDeadInv DEF Recheck
<1>2. CASE /\ Running(target[p])
           /\ Enter(p, IF Outdated(p, target[p]) THEN "stop" ELSE "judge")
           /\ UNCHANGED target
  BY <1>2, SameTargetInv DEF Recheck, Running
<1> QED
  BY <1>1, <1>2 DEF Recheck

LEMMA JudgeInv ==
    ASSUME Inv, NEW p \in Procs, Judge(p)
    PROVE  Inv'
<1>1. CASE HeartbeatStale /\ Enter(p, "stop") /\ UNCHANGED <<lockVars, target, child>>
  BY <1>1, SameTargetInv DEF Judge, Inv, PhaseMatches
<1>2. CASE Return(p)
  <2>0. unguarded' \in BOOLEAN /\ child[p] = NoDaemon
    BY DEF Judge, Inv, SpawnerTypeOK, PhaseMatches
  <2>1. /\ SpawnerTypeOK' /\ LockInv' /\ PhaseMatches' /\ JudgedCurrent'
        /\ UNCHANGED robbed
        /\ \A q \in Procs : q # p => /\ phase'[q] = phase[q]
                                    /\ target'[q] = target[q] /\ child'[q] = child[q]
        /\ phase'[p] = "idle"
    BY <1>2, <2>0, ReturnEffect DEF Judge
  <2>2. ~unguarded' => Guarded'
    BY <2>0, <2>1, NoDaemonAssumption
       DEF Judge, Inv, Guarded, AtMostOne, DaemonIsNamed, SpawnerKnows, In, Running, Unreleased,
           fileVars
  <2> QED
    BY <2>1, <2>2 DEF Inv
<1> QED
  BY <1>1, <1>2 DEF Judge

LEMMA TerminateInv ==
    ASSUME Inv, NEW p \in Procs, Terminate(p)
    PROVE  Inv'
<1> DEFINE d == target[p]
<1>0. phase[p] = "stop" /\ d \in Daemons /\ UNCHANGED <<lockVars, fileVars, child, unguarded>>
  BY DEF Terminate, Inv, PhaseMatches
<1>1. CASE ~Running(d) /\ Enter(p, "clean") /\ Target(p, NoDaemon) /\ UNCHANGED daemon
  BY <1>0, <1>1, TargetDeadInv
<1>2. CASE UNCHANGED <<daemon, target>> /\ Enter(p, "stopping")
  BY <1>0, <1>2, SameTargetInv
<1>3. CASE /\ Running(d) /\ ~In(d, ShuttingDown) /\ SetStage(d, "leaving")
           /\ Enter(p, "stopping") /\ UNCHANGED target
  <2>1. /\ daemon' \in [Daemons -> DaemonStates]
        /\ daemon'[d].stage = "leaving"
        /\ \A e \in Daemons : e # d => daemon'[e] = daemon[e]
        /\ VersionsKept
    BY <1>0, <1>3, SetStageEffect DEF Inv, Stages
  <2>2. Unreleased(d)
    BY <1>0, <1>3 DEF Unreleased, In, ShuttingDown
  <2>3. target' = [target EXCEPT ![p] = d] /\ phase' = [phase EXCEPT ![p] = "stopping"]
    BY <1>3 DEF Inv, SpawnerTypeOK, Enter
  <2>4. ASSUME ~unguarded PROVE AtMostOne' /\ DaemonIsNamed' /\ SpawnerKnows'
    <3>1. instance = d /\ \A e \in Daemons : Unreleased(e) => e = d
      BY <1>0, <2>2, <2>4, NoneComingUp DEF Inv, Guarded, AtMostOne, UnderLock
    <3>2. \A e \in Daemons : Unreleased(e)' => e = d
      BY <2>1, <3>1 DEF Unreleased, Running, In
    <3>3. \A e \in Daemons : e # d => daemon'[e].stage \notin Holding
      BY <2>1, <3>2, StageOfRunningNext
    <3>4. DaemonIsNamed'
      BY <1>0, <2>1, <3>1, <3>3 DEF DaemonIsNamed, In, Holding, Stages, ComingUp, fileVars
    <3>5. SpawnerKnows'
      BY <1>0, <2>2, <2>3, <2>4, <3>1, <3>2
         DEF Inv, SpawnerTypeOK, Guarded, SpawnerKnows, fileVars
    <3> QED
      BY <3>2, <3>4, <3>5 DEF AtMostOne
  <2> QED
    BY <1>0, <2>1, <2>3, <2>4, UnderLockInv DEF UnderLock, fileVars
<1> QED
  BY <1>1, <1>2, <1>3 DEF Terminate

\* Without a daemon that holds daemon.json there is nothing to hold of one.
LEMMA NoneHolds ==
    ASSUME Inv, daemon' \in [Daemons -> DaemonStates], \A d \in Daemons : ~Unreleased(d)',
           \A q \in Procs : /\ phase'[q] \in {"sweep", "spawn"} => instance' = NoDaemon
                            /\ phase'[q] = "spawn" => heartbeat' = "stale"
    PROVE  AtMostOne' /\ DaemonIsNamed' /\ SpawnerKnows'
<1>1. \A d \in Daemons : daemon'[d].stage \notin Holding
  BY StageOfRunningNext
<1> QED
  BY <1>1 DEF AtMostOne, DaemonIsNamed, SpawnerKnows, In, Holding, Stages, ComingUp

LEMMA StopEndsInv ==
    ASSUME Inv, NEW p \in Procs, StopEnds(p)
    PROVE  Inv'
<1> DEFINE d == target[p]
<1>0. phase[p] = "stopping" /\ d \in Daemons
  BY DEF StopEnds, Inv, PhaseMatches
<1>1. /\ daemon' \in [Daemons -> DaemonStates]
      /\ daemon'[d] = Gone
      /\ \A e \in Daemons : e # d => daemon'[e] = daemon[e]
      /\ VersionsKept
  BY <1>0, ExitsEffect DEF Inv, StopEnds
<1>2. ASSUME ~unguarded PROVE AtMostOne' /\ DaemonIsNamed' /\ SpawnerKnows'
  <2>1. \A e \in Daemons : Unreleased(e) => e = d
    BY <1>0, <1>2 DEF Inv, Guarded, SpawnerKnows
  <2>2. \A e \in Daemons : ~Unreleased(e)'
    BY <1>1, <2>1 DEF Unreleased, Running, In
  <2>3. \A q \in Procs : phase'[q] \in {"sweep", "spawn"} => phase[q] = phase'[q]
    BY DEF StopEnds, Enter, Inv, SpawnerTypeOK
  <2> QED
    BY <1>1, <1>2, <2>2, <2>3, NoneHolds DEF Inv, Guarded, SpawnerKnows, StopEnds, fileVars
<1> QED
  BY <1>0, <1>1, <1>2, UnderLockInv DEF StopEnds, Enter, Target, UnderLock, fileVars

\* The files are removed while no daemon holds daemon.json.
LEMMA CleanupInv ==
    ASSUME Inv, NEW p \in Procs, RemoveInstance(p) \/ RemoveHeartbeat(p)
    PROVE  Inv'
<1>1. PICK next \in {"sweep", "spawn"} :
          /\ phase' = [phase EXCEPT ![p] = next]
          /\ next = "sweep" => phase[p] = "clean" /\ instance' = NoDaemon /\ UNCHANGED heartbeat
          /\ next = "spawn" => phase[p] = "sweep" /\ heartbeat' = "stale" /\ UNCHANGED instance
  BY DEF RemoveInstance, RemoveHeartbeat, Enter
<1>2. UNCHANGED <<lockVars, daemon, target, child, unguarded>>
  BY DEF RemoveInstance, RemoveHeartbeat
<1>3. /\ daemon' \in [Daemons -> DaemonStates]
      /\ target' = [target EXCEPT ![p] = target[p]] /\ target[p] \in Daemons \cup {NoDaemon}
  BY <1>2 DEF Inv, SpawnerTypeOK, DaemonStates
<1>4. ASSUME ~unguarded PROVE AtMostOne' /\ DaemonIsNamed' /\ SpawnerKnows'
  <2>1. \A d \in Daemons : ~Unreleased(d)
    BY <1>1, <1>4 DEF Inv, Guarded, SpawnerKnows
  <2>2. \A d \in Daemons : ~Unreleased(d)'
    BY <1>2, <2>1 DEF Unreleased, Running, In
  <2>3. \A q \in Procs : /\ phase'[q] \in {"sweep", "spawn"} => instance' = NoDaemon
                         /\ phase'[q] = "spawn" => heartbeat' = "stale"
    BY <1>1, <1>4 DEF Inv, SpawnerTypeOK, Guarded, SpawnerKnows
  <2> QED
    BY <1>3, <2>2, <2>3, NoneHolds
<1> QED
  BY <1>1, <1>2, <1>3, <1>4, UnderLockInv, UnchangedVersions DEF UnderLock

LEMMA SpawnInv ==
    ASSUME Inv, NEW p \in Procs, Spawn(p)
    PROVE  Inv'
<1> DEFINE new == [stage |-> "starting", version |-> Version[p]]
<1>0. /\ phase[p] = "spawn" /\ pc[p] = "held" /\ child[p] = NoDaemon
      /\ phase' = [phase EXCEPT ![p] = "poll"]
      /\ UNCHANGED <<lockVars, fileVars, target, unguarded>>
  BY DEF Spawn, Inv, PhaseMatches, Enter, UnderLock
<1>1. \/ UNCHANGED <<daemon, child>>
      \/ \E d \in Daemons : /\ \A q \in Procs : target[q] # d
                            /\ daemon' = [daemon EXCEPT ![d] = new]
                            /\ child' = [child EXCEPT ![p] = d]
  BY DEF Spawn, SpawnDaemonProcess, Unused
<1>2. LockInv'
  BY <1>0, UnchangedLockInv DEF Inv
<1>3. SpawnerTypeOK'
  BY <1>0, <1>1, <1>2 DEF Inv, SpawnerTypeOK, LockInv, Phases, Stages, fileVars
<1>4. PhaseMatches'
  BY <1>0, <1>1 DEF Inv, SpawnerTypeOK, PhaseMatches, lockVars, UnderLock
<1>5. JudgedCurrent'
  <2> SUFFICES ASSUME NEW q \in Procs, phase'[q] = "judge", Running(target[q])'
               PROVE  ~Outdated(q, target[q])'
    BY DEF JudgedCurrent
  <2>1. phase[q] = "judge" /\ target'[q] = target[q] /\ target[q] \in Daemons
    BY <1>0 DEF Inv, SpawnerTypeOK, PhaseMatches
  <2>2. daemon'[target[q]] = daemon[target[q]]
    BY <1>1, <2>1 DEF Inv, SpawnerTypeOK
  <2> QED
    BY <2>1, <2>2 DEF Inv, JudgedCurrent, Running, Outdated
<1>6. ~unguarded' => Guarded'
  <2> SUFFICES ASSUME ~unguarded PROVE Guarded'
    BY <1>0
  <2>1. /\ \A e \in Daemons : ~Unreleased(e)
        /\ instance = NoDaemon /\ heartbeat = "stale"
    BY <1>0 DEF Inv, Guarded, SpawnerKnows
  <2>2. \A q \in Procs : q # p => phase'[q] \notin UnderLock
    BY <1>0, AloneUnderLock DEF Inv, SpawnerTypeOK, UnderLock
  <2>3. \A q \in Procs : phase'[q] \notin UnderLock
    BY <1>0, <2>2 DEF Inv, SpawnerTypeOK, UnderLock
  <2>4. daemon' \in [Daemons -> DaemonStates]
    BY <1>3 DEF SpawnerTypeOK, DaemonStates
  <2>5. CASE UNCHANGED <<daemon, child>>
    <3>1. \A e \in Daemons : ~Unreleased(e)'
      BY <2>1, <2>5 DEF Unreleased, Running, In
    <3> QED
      BY <1>0, <2>3, <2>4, <3>1, NoneHolds DEF Inv, Guarded, UnderLock, lockVars
  <2>6. ASSUME NEW d \in Daemons,
               daemon' = [daemon EXCEPT ![d] = new], child' = [child EXCEPT ![p] = d]
        PROVE  Guarded'
    <3>1. daemon'[d].stage = "starting" /\ \A e \in Daemons : e # d => daemon'[e] = daemon[e]
      BY <2>6 DEF Inv, SpawnerTypeOK
    <3>2. \A e \in Daemons : Unreleased(e)' => e = d
      BY <2>1, <3>1 DEF Unreleased, Running, In
    <3>3. \A e \in Daemons : e # d => daemon'[e].stage \notin Holding
      BY <2>4, <3>2, StageOfRunningNext
    <3>4. child'[p] = d
      BY <2>6 DEF Inv, SpawnerTypeOK
    <3>5. DaemonIsNamed'
      BY <1>0, <2>1, <3>1, <3>3, <3>4
         DEF DaemonIsNamed, In, Holding, Stages, ComingUp, fileVars
    <3>6. SpawnerKnows'
      BY <2>3 DEF SpawnerKnows, UnderLock
    <3> QED
      BY <1>0, <3>2, <3>5, <3>6 DEF Inv, Guarded, AtMostOne, lockVars
  <2> QED
    BY <1>1, <2>5, <2>6
<1> QED
  BY <1>2, <1>3, <1>4, <1>5, <1>6 DEF Inv

\* What a health check tells of the pid it looked at.
LEMMA HealthOfPid ==
    ASSUME NEW p \in Procs, NEW d \in Daemons \cup {NoDaemon}, Health(p, d) = "running"
    PROVE  d \in Daemons /\ Running(d) /\ heartbeat # "stale" /\ ~Outdated(p, d)
BY NoDaemonAssumption DEF Health, Running, HeartbeatStale

LEMMA PollSucceedsInv ==
    ASSUME Inv, NEW p \in Procs, PollSucceeds(p)
    PROVE  Inv'
<1>0. /\ phase[p] = "poll" /\ Return(p) /\ UNCHANGED <<fileVars, daemon, unguarded>>
      /\ instance \in Daemons \cup {NoDaemon} /\ unguarded' \in BOOLEAN
  BY DEF PollSucceeds, Inv, SpawnerTypeOK
<1>1. Running(instance) /\ heartbeat # "stale"
  BY <1>0, HealthOfPid DEF PollSucceeds
<1>2. /\ SpawnerTypeOK' /\ LockInv' /\ PhaseMatches' /\ JudgedCurrent'
      /\ UNCHANGED robbed
      /\ \A q \in Procs : q # p => /\ phase'[q] = phase[q]
                                  /\ target'[q] = target[q] /\ child'[q] = child[q]
      /\ phase'[p] = "idle"
  BY <1>0, ReturnEffect
<1>3. ~unguarded' => Guarded'
  <2> SUFFICES ASSUME ~unguarded PROVE Guarded'
    BY <1>0
  <2>1. \A d \in Daemons : ~In(d, ComingUp)
    BY <1>1 DEF Inv, Guarded, DaemonIsNamed
  <2> QED
    BY <1>0, <1>2, <2>1
       DEF Inv, Guarded, AtMostOne, DaemonIsNamed, SpawnerKnows, In, Running, Unreleased, fileVars
<1> QED
  BY <1>2, <1>3 DEF Inv

\* A daemon that is coming up while it is not unguarded has its spawner still, so
\* no other process that leaves is the one it waits for.
LEMMA SpawnerStays ==
    ASSUME Inv, NEW p \in Procs, ~In(child[p], ComingUp), ~unguarded,
           NEW d \in Daemons, In(d, ComingUp)
    PROVE  \E q \in Procs : q # p /\ child[q] = d
BY DEF Inv, Guarded, DaemonIsNamed

LEMMA PollTimesOutInv ==
    ASSUME Inv, NEW p \in Procs, PollTimesOut(p)
    PROVE  Inv'
<1>0. /\ phase[p] = "poll" /\ Return(p) /\ UNCHANGED <<fileVars, daemon>>
      /\ unguarded' = (unguarded \/ In(child[p], ComingUp))
      /\ unguarded' \in BOOLEAN
  BY DEF PollTimesOut, Inv, SpawnerTypeOK, In
<1>1. /\ SpawnerTypeOK' /\ LockInv' /\ PhaseMatches' /\ JudgedCurrent'
      /\ UNCHANGED robbed
      /\ \A q \in Procs : q # p => /\ phase'[q] = phase[q]
                                  /\ target'[q] = target[q] /\ child'[q] = child[q]
      /\ phase'[p] = "idle"
  BY <1>0, ReturnEffect
<1>2. ~unguarded' => Guarded'
  <2> SUFFICES ASSUME ~unguarded, ~In(child[p], ComingUp) PROVE Guarded'
    BY <1>0
  <2>1. \A d \in Daemons : In(d, ComingUp)' => \E q \in Procs : child'[q] = d
    BY <1>0, <1>1, SpawnerStays DEF In
  <2> QED
    BY <1>0, <1>1, <2>1
       DEF Inv, Guarded, AtMostOne, DaemonIsNamed, SpawnerKnows, In, Running, Unreleased, fileVars
<1> QED
  BY <1>1, <1>2 DEF Inv

LEMMA ProcessCrashesInv ==
    ASSUME Inv, NEW p \in Procs, ProcessCrashes(p)
    PROVE  Inv'
<1> USE DEF ProcessCrashes, Enter, Target, fileVars
<1>1. LockInv'
  BY CrashInv DEF Inv
<1>2. SpawnerTypeOK'
  BY <1>1 DEF Inv, SpawnerTypeOK, LockInv, Phases, In
<1>3. PhaseMatches'
  BY DEF Inv, SpawnerTypeOK, LockTypeOK, PhaseMatches, Crash, GoTo, UnderLock
<1>4. JudgedCurrent'
  BY JudgedKept, UnchangedVersions DEF Inv, SpawnerTypeOK
<1>5. ~unguarded' => Guarded'
  <2> SUFFICES ASSUME ~unguarded, ~In(child[p], ComingUp) PROVE Guarded'
    OBVIOUS
  <2>1. \A q \in Procs : q # p => /\ phase'[q] = phase[q]
                                /\ target'[q] = target[q] /\ child'[q] = child[q]
    BY DEF Inv, SpawnerTypeOK
  <2>2. phase'[p] = "idle"
    BY DEF Inv, SpawnerTypeOK
  <2>3. \A d \in Daemons : In(d, ComingUp)' => \E q \in Procs : child'[q] = d
    BY <2>1, SpawnerStays DEF In
  <2>4. robbed' = {}
    BY DEF Inv, Guarded, Crash
  <2> QED
    BY <2>1, <2>2, <2>3, <2>4
       DEF Inv, Guarded, AtMostOne, DaemonIsNamed, SpawnerKnows, In, Running, Unreleased
<1> QED
  BY <1>1, <1>2, <1>3, <1>4, <1>5 DEF Inv

\* Steps that leave the calls and the daemons alone.
LEMMA FilesInv ==
    ASSUME Inv, LockInv', UNCHANGED <<pc, instance, daemon, callVars, unguarded, robbed>>,
           heartbeat' \in {heartbeat, "stale"}
    PROVE  Inv'
<1> USE DEF callVars
<1>1. SpawnerTypeOK'
  BY DEF Inv, SpawnerTypeOK, LockInv
<1>2. PhaseMatches'
  BY DEF Inv, PhaseMatches
<1>3. JudgedCurrent'
  BY JudgedKept, UnchangedVersions
<1>4. ~unguarded' => Guarded'
  BY DEF Inv, Guarded, AtMostOne, DaemonIsNamed, SpawnerKnows, In, Running, Unreleased
<1> QED
  BY <1>1, <1>2, <1>3, <1>4 DEF Inv

LEMMA EnvironmentInv ==
    ASSUME Inv,
           \/ \E p \in Procs : ProcessStarts(p)
           \/ HeartbeatAges \/ LockTimePasses \/ UNCHANGED vars
    PROVE  Inv'
<1>1. LockInv'
  BY StartInv, LockAgesInv, UnchangedLockInv
     DEF Inv, ProcessStarts, HeartbeatAges, LockTimePasses, vars
<1>2. /\ UNCHANGED <<pc, instance, daemon, callVars, unguarded, robbed>>
      /\ heartbeat' \in {heartbeat, "stale"}
  BY Zenon DEF ProcessStarts, HeartbeatAges, LockTimePasses, vars, Start, LockAges, lockVars, fileVars
<1> QED
  BY <1>1, <1>2, FilesInv

-----------------------------------------------------------------------------
(* The daemon's steps keep the invariant *)

\* What the steps of a daemon share: they leave the processes alone.
LEMMA DaemonsInv ==
    ASSUME Inv, UNCHANGED <<lockVars, callVars, unguarded>>,
           daemon' \in [Daemons -> DaemonStates], VersionsKept,
           instance' \in Daemons \cup {NoDaemon}, heartbeat' \in {"fresh", "stale"},
           ~unguarded /\ Guarded => AtMostOne' /\ DaemonIsNamed' /\ SpawnerKnows'
    PROVE  Inv'
<1>1. LockInv'
  BY UnchangedLockInv DEF Inv
<1>2. SpawnerTypeOK'
  BY <1>1 DEF Inv, SpawnerTypeOK, LockInv, DaemonStates, callVars
<1>3. PhaseMatches'
  BY DEF Inv, PhaseMatches, lockVars, callVars
<1>4. JudgedCurrent'
  BY JudgedKept DEF callVars
<1>5. ~unguarded' => Guarded'
  BY DEF Inv, Guarded, lockVars
<1> QED
  BY <1>1, <1>2, <1>3, <1>4, <1>5 DEF Inv

\* A daemon that exits, or is done with release(), leaves nothing to hold of it.
LEMMA DaemonGoesInv ==
    ASSUME Inv, UNCHANGED <<lockVars, callVars, unguarded, heartbeat>>,
           NEW d \in Daemons, Running(d), Exits(d) \/ SetStage(d, "released"),
           UNCHANGED instance \/ (instance' = NoDaemon /\ In(d, {"releasing"}))
    PROVE  Inv'
<1>1. /\ daemon' \in [Daemons -> DaemonStates]
      /\ \A e \in Daemons : e # d => daemon'[e] = daemon[e]
      /\ VersionsKept
      /\ ~Unreleased(d)'
  BY ExitsEffect, SetStageEffect DEF Inv, Stages, Unreleased, Running, In
<1>2. ASSUME ~unguarded, Guarded
      PROVE  AtMostOne' /\ DaemonIsNamed' /\ SpawnerKnows'
  <2>1. CASE Unreleased(d)
    <3>1. \A e \in Daemons : ~Unreleased(e)'
      BY <1>1, <1>2, <2>1 DEF Guarded, AtMostOne, Unreleased, Running, In
    <3> QED
      BY <1>1, <1>2, <3>1, NoneHolds DEF Guarded, SpawnerKnows, callVars
  <2>2. CASE ~Unreleased(d)
    <3>1. UNCHANGED instance
      BY <2>2 DEF Unreleased, In
    <3>2. \A e \in Daemons : Unreleased(e)' => Unreleased(e)
      BY <1>1 DEF Unreleased, Running, In
    <3>3. \A e \in Daemons : daemon'[e].stage \in Holding => daemon'[e] = daemon[e]
      BY <1>1, StageOfRunningNext
    <3>4. DaemonIsNamed'
      BY <1>2, <3>1, <3>3 DEF Guarded, DaemonIsNamed, In, Holding, Stages, ComingUp, callVars
    <3> QED
      BY <1>2, <3>1, <3>2, <3>4 DEF Guarded, AtMostOne, SpawnerKnows, callVars
  <2> QED
    BY <2>1, <2>2
<1>3. instance' \in Daemons \cup {NoDaemon} /\ heartbeat' \in {"fresh", "stale"}
  BY DEF Inv, SpawnerTypeOK
<1> QED
  BY <1>1, <1>2, <1>3, DaemonsInv

\* A daemon that goes from one stage to the next.
LEMMA DaemonMovesInv ==
    ASSUME Inv, UNCHANGED <<lockVars, callVars, unguarded>>,
           NEW d \in Daemons, Unreleased(d), NEW next \in Holding, SetStage(d, next),
           instance' \in {instance, d}, heartbeat' \in {"fresh", "stale"},
           next \in ComingUp => In(d, ComingUp) /\ UNCHANGED heartbeat,
           next = "checked" => In(d, {"starting"}) /\ UNCHANGED instance,
           next # "starting",
           next \in {"serving", "leaving", "releasing"} =>
               UNCHANGED instance /\ In(d, {"named", "serving", "leaving"}),
           next = "named" => instance' = d
    PROVE  Inv'
<1>1. /\ daemon' \in [Daemons -> DaemonStates]
      /\ daemon'[d].stage = next
      /\ \A e \in Daemons : e # d => daemon'[e] = daemon[e]
      /\ VersionsKept
  BY SetStageEffect DEF Inv, Holding, Unreleased
<1>2. ASSUME ~unguarded, Guarded
      PROVE  AtMostOne' /\ DaemonIsNamed' /\ SpawnerKnows'
  <2>1. \A e \in Daemons : Unreleased(e) => e = d
    BY <1>2 DEF Guarded, AtMostOne
  <2>2. \A e \in Daemons : Unreleased(e)' => e = d
    BY <1>1, <2>1 DEF Unreleased, Running, In
  <2>3. \A e \in Daemons : e # d => daemon'[e].stage \notin Holding
    BY <1>1, <2>2, StageOfRunningNext
  <2>4. DaemonIsNamed'
    <3>1. /\ next \in {"named", "serving", "leaving", "releasing"} => instance' = d
          /\ next \in {"starting", "checked"} => instance' = NoDaemon
          /\ next \in ComingUp => heartbeat' = "stale" /\ \E p \in Procs : child'[p] = d
      BY <1>2 DEF Guarded, DaemonIsNamed, In, ComingUp, callVars
    <3> QED
      BY <1>1, <2>3, <3>1 DEF DaemonIsNamed, In, Holding, Stages, ComingUp
  <2>5. SpawnerKnows'
    BY <1>2, <2>2 DEF Guarded, SpawnerKnows, callVars
  <2> QED
    BY <2>2, <2>4, <2>5 DEF AtMostOne
<1>3. instance' \in Daemons \cup {NoDaemon}
  BY DEF Inv, SpawnerTypeOK
<1> QED
  BY <1>1, <1>2, <1>3, DaemonsInv

LEMMA DaemonStepInv ==
    ASSUME Inv, NEW d \in Daemons, DaemonStep(d)
    PROVE  Inv'
<1> USE DEF fileVars
<1>0. UNCHANGED <<lockVars, callVars, unguarded>> /\ heartbeat \in {"fresh", "stale"}
  BY DEF DaemonStep, Inv, SpawnerTypeOK
<1>1. \A S \in SUBSET Holding : In(d, S) => Running(d) /\ Unreleased(d)
  BY StageOfRunning DEF Inv, In, Holding
<1> USE DEF In, Holding, Stages, ComingUp
<1>2. CASE CheckInstance(d)
  <2>1. Running(d) /\ Unreleased(d) /\ In(d, ComingUp)
    BY <1>1, <1>2 DEF CheckInstance
  <2>2. CASE Exits(d)
    BY <1>0, <1>2, <2>1, <2>2, DaemonGoesInv DEF CheckInstance
  <2>3. CASE SetStage(d, "checked")
    BY <1>0, <1>2, <2>1, <2>3, DaemonMovesInv DEF CheckInstance
  <2> QED
    BY <1>2, <2>2, <2>3 DEF CheckInstance
<1>3. CASE WriteInstance(d)
  <2>1. Unreleased(d) /\ In(d, ComingUp)
    BY <1>1, <1>3 DEF WriteInstance
  <2> QED
    BY <1>0, <1>3, <2>1, DaemonMovesInv DEF WriteInstance
<1>4. CASE Beat(d)
  <2>1. Unreleased(d) /\ In(d, {"named", "serving", "leaving"})
    BY <1>1, <1>4 DEF Beat
  <2> QED
    BY <1>0, <1>4, <2>1, DaemonMovesInv DEF Beat
<1>5. CASE Leave(d)
  <2>1. Unreleased(d) /\ In(d, {"named", "serving", "leaving"})
    BY <1>1, <1>5 DEF Leave
  <2> QED
    BY <1>0, <1>5, <2>1, DaemonMovesInv DEF Leave
<1>6. CASE CheckOwnInstance(d)
  <2>1. Running(d) /\ Unreleased(d) /\ In(d, {"named", "serving", "leaving"})
    BY <1>1, <1>6 DEF CheckOwnInstance
  <2>2. CASE SetStage(d, "released")
    BY <1>0, <1>6, <2>1, <2>2, DaemonGoesInv DEF CheckOwnInstance
  <2>3. CASE SetStage(d, "releasing")
    BY <1>0, <1>6, <2>1, <2>3, DaemonMovesInv DEF CheckOwnInstance
  <2> QED
    BY <1>6, <2>2, <2>3 DEF CheckOwnInstance
<1>7. CASE DeleteInstance(d)
  <2>1. Running(d)
    BY <1>1, <1>7 DEF DeleteInstance
  <2> QED
    BY <1>0, <1>7, <2>1, DaemonGoesInv DEF DeleteInstance
<1>8. CASE Ends(d)
  BY <1>0, <1>8, DaemonGoesInv DEF Ends
<1> QED
  BY <1>2, <1>3, <1>4, <1>5, <1>6, <1>7, <1>8 DEF DaemonStep

LEMMA NextInv ==
    ASSUME Inv, [Next]_vars
    PROVE  Inv'
BY CallInv, LockOperationInv, LookAgainInv, RecheckInv, JudgeInv, TerminateInv, StopEndsInv,
   CleanupInv, SpawnInv, PollSucceedsInv, PollTimesOutInv, ProcessCrashesInv, EnvironmentInv,
   DaemonStepInv
   DEF Next, ProcessStep

THEOREM Invariance == Spec => []Inv
<1>1. Init => Inv
  BY InitInv
<1>2. Inv /\ [Next]_vars => Inv'
  BY NextInv
<1> QED
  BY <1>1, <1>2, PTL DEF Spec

-----------------------------------------------------------------------------
(* What follows for every run of the program *)

\* Every variable of the spawners, the lock and the daemons stays in its range.
THEOREM SpawnerTypeCorrect == Spec => []SpawnerTypeOK
BY Invariance, PTL DEF Inv

\* As long as every spawner kept its lock until its daemon was up, one daemon at
\* most has not let go of daemon.json, and the file names the one that serves: no
\* shutdown that overlaps with a start deletes it.
THEOREM OneDaemonRuns == Spec => []OneDaemon
<1>1. Inv => OneDaemon
  BY DEF Inv, Guarded, AtMostOne, DaemonIsNamed, OneDaemon, In
<1> QED
  BY <1>1, Invariance, PTL

\* Only the removal of a lock file, stale or one's own, robs a process.
LEMMA RobbedByUnlink ==
    ASSUME Inv, [Next]_vars, ~(robbed' \subseteq robbed)
    PROVE  \E p \in Procs : RemoveStaleLock(p) \/ DeleteLock(p)
<1>1. PICK p \in Procs : LockOperation(p)
  BY DEF Next, ProcessStep, Call, LookAgain, Recheck, Judge, Terminate, StopEnds,
         RemoveInstance, RemoveHeartbeat, Spawn, PollSucceeds, PollTimesOut, ProcessCrashes,
         ProcessStarts, DaemonStep, HeartbeatAges, LockTimePasses, Return, Acquire, Release,
         Crash, Start, LockAges, lockVars, vars
<1>2. LockStep(p)
  BY <1>1 DEF LockOperation
<1> QED
  BY <1>2 DEF LockStep, TryExclusiveCreate, WriteLock, IsLockHeld, VerifyOwnership

LockTakenAction ==
    \A q \in robbed' \ robbed :
        \E p \in Procs, f \in lockFile :
            /\ f.owner = q
            /\ \/ pc[p] \in {"unlink", "delete"} /\ judged[p] # lockFile
               \/ pc[p] = "unlink" /\ (f.old \/ ~f.written)

\* A process loses its lock to another only if it kept it too long, or to one
\* that judged another file or this one before it had any data.
THEOREM LockLostOnlyFrom == Spec => LockTakenOnlyFrom
<1>1. Inv /\ [Next]_vars => LockTakenAction
  <2> SUFFICES ASSUME Inv, [Next]_vars, NEW q \in robbed' \ robbed
               PROVE  \E p \in Procs, f \in lockFile :
                         /\ f.owner = q
                         /\ \/ pc[p] \in {"unlink", "delete"} /\ judged[p] # lockFile
                            \/ pc[p] = "unlink" /\ (f.old \/ ~f.written)
    BY DEF LockTakenAction
  <2>1. PICK p \in Procs : RemoveStaleLock(p) \/ DeleteLock(p)
    BY RobbedByUnlink
  <2>2. PICK f \in lockFile : f.owner = q /\ q \in alive /\ q # p
    BY <2>1 DEF RemoveStaleLock, DeleteLock, Unlink
  <2>3. CASE pc[p] = "unlink"
    BY <2>2, <2>3 DEF Inv, LockInv, JudgedRightly
  <2>4. CASE pc[p] = "delete"
    <3>1. PICK g \in judged[p] : g.owner = p
      BY <2>4 DEF Inv, LockInv, JudgedRightly
    <3>2. judged[p] # lockFile
      BY <2>2, <3>1 DEF Inv, LockInv, LockTypeOK
    <3> QED
      BY <2>2, <2>4, <3>2
  <2> QED
    BY <2>1, <2>3, <2>4 DEF RemoveStaleLock, DeleteLock
<1> QED
  BY <1>1, Invariance, PTL DEF Spec, LockTakenOnlyFrom, LockTakenAction

\* No client stops a daemon that is coming up, as long as every spawner kept its
\* lock until its daemon was up.
THEOREM StartingDaemonsSpared == Spec => StartingDaemonSpared
<1>1. ASSUME Inv, [Next]_vars, NEW d \in Daemons, In(d, ComingUp), In(d, {"leaving"})'
      PROVE  unguarded
  <2> SUFFICES ASSUME ~unguarded PROVE FALSE
    BY DEF Inv, SpawnerTypeOK
  <2>0. daemon \in [Daemons -> DaemonStates]
    BY <1>1 DEF Inv, SpawnerTypeOK, DaemonStates
  <2>1. Running(d)
    BY <1>1, StageOfRunning DEF Inv, In, ComingUp, Stages
  <2>2. daemon'[d] # daemon[d]
    BY <1>1 DEF In, ComingUp
  <2>3. CASE \E p \in Procs : Terminate(p)
    <3>1. PICK p \in Procs : Terminate(p)
      BY <2>3
    <3>2. phase[p] \in UnderLock
      BY <3>1 DEF Terminate, UnderLock
    <3> QED
      BY <1>1, <3>2, NoneComingUp
  <2>4. CASE \E p \in Procs : StopEnds(p)
    <3>1. PICK p \in Procs : StopEnds(p)
      BY <2>4
    <3>2. daemon'[d] = Gone
      BY <2>2, <3>1 DEF StopEnds, Exits, Inv, SpawnerTypeOK
    <3> QED
      BY <1>1, <3>2 DEF In, Gone
  <2>5. CASE \E p \in Procs : Spawn(p)
    <3>1. PICK p \in Procs : Spawn(p)
      BY <2>5
    <3>2. \/ UNCHANGED daemon
          \/ \E e \in Daemons :
                daemon' = [daemon EXCEPT ![e] = [stage |-> "starting", version |-> Version[p]]]
      BY <3>1 DEF Spawn, SpawnDaemonProcess
    <3>3. daemon'[d] = [stage |-> "starting", version |-> Version[p]]
      BY <2>0, <2>2, <3>2
    <3> QED
      BY <1>1, <3>3 DEF In
  <2>6. CASE \E e \in Daemons : DaemonStep(e)
    <3>1. PICK e \in Daemons : DaemonStep(e)
      BY <2>6
    <3>2. e = d
      <4>1. Exits(e) \/ \E next \in Stages : SetStage(e, next)
        BY <3>1 DEF DaemonStep, CheckInstance, WriteInstance, Beat, Leave, CheckOwnInstance,
                    DeleteInstance, Ends, Stages
      <4> QED
        BY <2>0, <2>2, <4>1 DEF SetStage, Exits
    <3>3. \/ Exits(d)
          \/ \E next \in {"checked", "named", "serving"} : SetStage(d, next)
      BY <1>1, <3>1, <3>2 DEF DaemonStep, CheckInstance, WriteInstance, Beat, Leave,
                        CheckOwnInstance, DeleteInstance, Ends, In, ComingUp
    <3>4. CASE Exits(d)
      BY <1>1, <2>1, <3>4, ExitsEffect DEF Inv, In, Gone
    <3>5. CASE \E next \in {"checked", "named", "serving"} : SetStage(d, next)
      BY <1>1, <2>1, <3>5, SetStageEffect DEF Inv, In, Stages
    <3> QED
      BY <3>3, <3>4, <3>5
  <2>7. CASE UNCHANGED daemon
    BY <2>2, <2>7
  <2> QED
    BY <1>1, <2>3, <2>4, <2>5, <2>6, <2>7
       DEF Next, ProcessStep, Call, LockOperation, LookAgain, Recheck, Judge, RemoveInstance,
           RemoveHeartbeat, PollSucceeds, PollTimesOut, ProcessCrashes, ProcessStarts,
           HeartbeatAges, LockTimePasses, vars
<1>2. Inv /\ [Next]_vars =>
          [\A d \in Daemons : In(d, ComingUp) /\ (In(d, {"leaving"}))' => unguarded]_vars
  BY <1>1
<1> QED
  BY <1>2, Invariance, PTL DEF Spec, StartingDaemonSpared

-----------------------------------------------------------------------------
(* The lock implements Mutex *)

\* A process that has the lock, and was not robbed of it, is alone.
LEMMA InsideAlone ==
    ASSUME LockInv, NEW p \in acquired \ robbed, NEW q \in Procs, pc[q] \in Locking,
           q \notin robbed
    PROVE  p = q
BY OneHolder DEF LockInv, LockTypeOK, ControlMatches, Locking

\* Whoever leaves is the one inside.
LEMMA InsideShrinks ==
    ASSUME LockInv, (acquired \ robbed)' \subseteq acquired \ robbed
    PROVE  M!Next \/ UNCHANGED (acquired \ robbed)
<1> SUFFICES ASSUME NEW p \in acquired \ robbed, p \notin (acquired \ robbed)'
             PROVE  M!Leave(p) /\ p \in Procs
  BY DEF M!Next
<1>1. p \in Procs
  BY DEF LockInv, LockTypeOK
<1>2. \A q \in acquired \ robbed : q = p
  BY InsideAlone DEF LockInv, LockTypeOK, ControlMatches, Locking
<1> QED
  BY <1>1, <1>2 DEF M!Leave

LEMMA LockStepImplements ==
    ASSUME LockInv, NEW p \in Procs, LockStep(p)
    PROVE  M!Next \/ UNCHANGED (acquired \ robbed)
<1> USE DEF LockInv, ControlMatches
<1>1. CASE TryExclusiveCreate(p) \/ IsLockHeld(p)
  BY <1>1 DEF TryExclusiveCreate, IsLockHeld
<1>2. CASE WriteLock(p)
  <2>0. pc[p] = "write" /\ p \notin acquired
    BY <1>2 DEF WriteLock
  <2>1. CASE robbed' = robbed \ {p} /\ UNCHANGED acquired
    BY <2>0, <2>1
  <2>2. CASE acquired' = acquired \cup {p} /\ UNCHANGED robbed /\ p \in robbed
    BY <2>2
  <2>3. CASE acquired' = acquired \cup {p} /\ UNCHANGED robbed /\ p \notin robbed
    <3>1. acquired \ robbed = {}
      BY <2>0, <2>3, InsideAlone DEF Locking
    <3> QED
      BY <2>3, <3>1 DEF M!Next, M!Enter
  <2> QED
    BY <1>2, <2>1, <2>2, <2>3, Zenon DEF WriteLock
<1>3. CASE RemoveStaleLock(p)
  BY <1>3, InsideShrinks DEF RemoveStaleLock, Unlink
<1>4. CASE VerifyOwnership(p)
  <2>1. CASE UNCHANGED <<acquired, robbed>>
    BY <2>1
  <2>2. CASE acquired' = acquired \ {p} /\ robbed' = robbed \ {p}
             /\ ~\E f \in lockFile : f.written /\ f.owner = p
    <3>1. p \in robbed
      BY <1>4, <2>2 DEF VerifyOwnership, HolderOwnsFile, Locking
    <3> QED
      BY <2>2, <3>1
  <2> QED
    BY <1>4, <2>1, <2>2 DEF VerifyOwnership
<1>5. CASE DeleteLock(p)
  BY <1>5, InsideShrinks DEF DeleteLock, Unlink
<1> QED
  BY <1>1, <1>2, <1>3, <1>4, <1>5 DEF LockStep

\* The lock keeps the promise of Mutex: a process comes to have it only when no
\* other has it, those aside that it was taken from.
THEOREM LockImplementsMutex == Spec => MutexSpec
<1>1. Init => M!Init
  BY DEF Init, LockInit, M!Init
<1>2. ASSUME Inv, [Next]_vars
      PROVE  M!Next \/ UNCHANGED (acquired \ robbed)
  <2>1. CASE \E p \in Procs : LockStep(p)
    BY <1>2, <2>1, LockStepImplements DEF Inv
  <2>2. CASE \E p \in Procs : Crash(p)
    BY <1>2, <2>2, InsideShrinks DEF Inv, Crash
  <2>3. CASE UNCHANGED <<acquired, robbed>>
    BY <2>3
  <2> QED
    BY <1>2, <2>1, <2>2, <2>3
       DEF Next, ProcessStep, Call, LockOperation, LookAgain, Recheck, Judge, Terminate,
           StopEnds, RemoveInstance, RemoveHeartbeat, Spawn, PollSucceeds, PollTimesOut,
           ProcessCrashes, ProcessStarts, DaemonStep, HeartbeatAges, LockTimePasses, Return,
           Acquire, Release, Start, LockAges, lockVars, vars
<1>3. Inv /\ [Next]_vars => [M!Next]_(acquired \ robbed)
  BY <1>2
<1> QED
  BY <1>1, <1>3, Invariance, PTL DEF Spec, MutexSpec, M!Spec

-----------------------------------------------------------------------------
(* The order of versions *)

LEMMA LeastNumber ==
    ASSUME NEW S \in SUBSET Nat, S # {}
    PROVE  Min(S) \in S /\ \A n \in S : Min(S) <= n
<1> DEFINE LessThan == {ss \in Nat \X Nat : ss[1] < ss[2]}
<1>1. LessThan = OpToRel(<, Nat)
  BY Zenon DEF OpToRel
<1>2. IsWellFoundedOn(LessThan, Nat)
  BY <1>1, NatLessThanWellFounded, Zenon
<1>3. PICK k \in S : \A n \in S : ~ (<<n, k>> \in LessThan)
  <2> HIDE DEF LessThan
  <2> QED
    BY <1>2, WFMin
<1>4. ASSUME NEW n \in S PROVE k <= n
  <2>1. n \in Nat /\ k \in Nat /\ ~(<<n, k>> \in LessThan)
    BY <1>3
  <2>2. <<n, k>> \in LessThan <=> n < k
    BY <2>1
  <2> QED
    BY <2>1, <2>2
<1> QED
  BY <1>4 DEF Min

LEMMA GreaterNumber ==
    ASSUME NEW m \in Nat, NEW n \in Nat
    PROVE  Max({m, n}) \in Nat /\ m <= Max({m, n}) /\ n <= Max({m, n})
<1>1. \E k \in {m, n} : \A l \in {m, n} : k >= l
  OBVIOUS
<1>2. PICK k \in {m, n} : k = Max({m, n}) /\ \A l \in {m, n} : k >= l
  BY <1>1 DEF Max
<1> QED
  BY <1>2

LEMMA PartIsNatural ==
    ASSUME NEW a, NEW i
    PROVE  Part(a, i) \in Nat
BY DEF Part

LEMMA NoSuchPart ==
    ASSUME NEW a, a.segments \in Seq(Nat \cup {NotANumber}), NEW i \in Nat, Len(a.segments) < i
    PROVE  Part(a, i) = 0
BY DEF Part

\* compareSemver is positive exactly if its first argument is newer: greater in
\* the first segment the two differ in, whatever their lengths.
LEMMA CompareSemverOrders ==
    ASSUME NEW a, a.segments \in Seq(Nat \cup {NotANumber}),
           NEW b, b.segments \in Seq(Nat \cup {NotANumber})
    PROVE  CompareSemver(a, b) > 0 <=> Newer(a, b)
<1> DEFINE la == Len(a.segments)
           lb == Len(b.segments)
           last == Max({la, lb})
           differing == {i \in 1 .. last : Part(a, i) # Part(b, i)}
<1>1. la \in Nat /\ lb \in Nat /\ DOMAIN a.segments = 1 .. la /\ DOMAIN b.segments = 1 .. lb
  OBVIOUS
<1>2. last \in Nat /\ la <= last /\ lb <= last
  BY <1>1, GreaterNumber
<1>3. CompareSemver(a, b) = IF differing = {} THEN 0
                            ELSE Part(a, Min(differing)) - Part(b, Min(differing))
  BY DEF CompareSemver
<1>4. \A i : Part(a, i) \in Nat /\ Part(b, i) \in Nat
  BY PartIsNatural
<1>5. \A i \in Nat : Part(a, i) # Part(b, i) /\ i > 0 => i \in 1 .. last
  BY <1>1, <1>2, NoSuchPart
<1>6. Newer(a, b) <=> \E i \in 1 .. last : /\ Part(a, i) > Part(b, i)
                                          /\ \A j \in 1 .. i - 1 : Part(a, j) = Part(b, j)
  <2>1. Newer(a, b) => \E i \in 1 .. last : /\ Part(a, i) > Part(b, i)
                                           /\ \A j \in 1 .. i - 1 : Part(a, j) = Part(b, j)
    BY <1>1, <1>2 DEF Newer
  <2>2. \A i \in 1 .. last : Part(a, i) > Part(b, i) => i \in 1 .. la
    <3> SUFFICES ASSUME NEW i \in 1 .. last, Part(a, i) > Part(b, i), la < i PROVE FALSE
      BY <1>1, <1>2
    <3>1. Part(a, i) = 0
      BY <1>2, NoSuchPart
    <3> QED
      BY <1>4, <3>1
  <2> QED
    BY <1>1, <2>1, <2>2 DEF Newer
<1> HIDE DEF last
<1>7. CASE differing = {}
  BY <1>2, <1>3, <1>4, <1>6, <1>7
<1>8. CASE differing # {}
  <2> DEFINE m == Min(differing)
  <2>0. differing \in SUBSET Nat
    BY <1>2
  <2>1. m \in differing /\ \A i \in differing : m <= i
    <3> HIDE DEF differing
    <3> QED
      BY <1>8, <2>0, LeastNumber
  <2> HIDE DEF m
  <2>2. CompareSemver(a, b) > 0 <=> Part(a, m) > Part(b, m)
    BY <1>3, <1>4, <1>8 DEF m
  <2>3. \A j \in 1 .. m - 1 : Part(a, j) = Part(b, j)
    BY <1>2, <2>1
  <2>4. ASSUME NEW i \in 1 .. last, Part(a, i) > Part(b, i),
               \A j \in 1 .. i - 1 : Part(a, j) = Part(b, j)
        PROVE  i = m
    BY <1>2, <1>4, <2>1, <2>4
  <2> QED
    BY <1>2, <1>6, <2>1, <2>2, <2>3, <2>4
<1> QED
  BY <1>7, <1>8

\* "Newer" is a strict order: of two versions one is newer at most, and what is
\* newer than a newer one is newer.  So no two clients, and no circle of more,
\* replace each other's daemons in turn.
THEOREM NewerIsStrict ==
    ASSUME NEW a, a.segments \in Seq(Nat \cup {NotANumber}),
           NEW b, b.segments \in Seq(Nat \cup {NotANumber}),
           NEW c, c.segments \in Seq(Nat \cup {NotANumber}),
           Newer(a, b)
    PROVE  /\ ~Newer(b, a)
           /\ Newer(b, c) => Newer(a, c)
<1>1. PICK i \in Nat : i > 0 /\ Part(a, i) > Part(b, i)
                      /\ \A j \in 1 .. i - 1 : Part(a, j) = Part(b, j)
  BY DEF Newer
<1>2. \A n : Part(a, n) \in Nat /\ Part(b, n) \in Nat /\ Part(c, n) \in Nat
  BY PartIsNatural
<1>3. ASSUME Newer(b, a) PROVE FALSE
  <2>1. PICK k \in Nat : k > 0 /\ Part(b, k) > Part(a, k)
                        /\ \A j \in 1 .. k - 1 : Part(b, j) = Part(a, j)
    BY <1>3 DEF Newer
  <2> QED
    BY <1>1, <1>2, <2>1
<1>4. ASSUME Newer(b, c) PROVE Newer(a, c)
  <2>1. PICK k \in Nat : k > 0 /\ Part(b, k) > Part(c, k)
                        /\ \A j \in 1 .. k - 1 : Part(b, j) = Part(c, j)
    BY <1>4 DEF Newer
  <2> DEFINE m == IF i < k THEN i ELSE k
  <2>2. m \in Nat /\ m > 0 /\ m <= i /\ m <= k
    BY <1>1, <2>1
  <2>3. Part(a, m) > Part(c, m)
    <3>1. CASE i < k
      BY <1>1, <1>2, <2>1, <3>1
    <3>2. CASE k < i
      BY <1>1, <1>2, <2>1, <3>2
    <3>3. CASE i = k
      BY <1>1, <1>2, <2>1, <3>3
    <3> QED
      BY <1>1, <2>1, <3>1, <3>2, <3>3
  <2>4. \A j \in 1 .. m - 1 : Part(a, j) = Part(c, j)
    BY <1>1, <2>1, <2>2
  <2>5. m <= Len(a.segments)
    <3> SUFFICES ASSUME Len(a.segments) < m PROVE FALSE
      BY <2>2
    <3>1. Part(a, m) = 0
      BY <2>2, NoSuchPart
    <3> QED
      BY <1>2, <2>3, <3>1
  <2>6. m \in DOMAIN a.segments
    BY <2>2, <2>5
  <2> QED
    BY <2>3, <2>4, <2>6 DEF Newer
<1> QED
  BY <1>3, <1>4

\* The version of a daemon that runs is that of a client.
LEMMA DaemonVersion ==
    ASSUME SpawnerTypeOK, NEW d \in Daemons, Running(d)
    PROVE  daemon[d].version.segments \in Seq(Nat \cup {NotANumber})
BY VersionAssumption DEF SpawnerTypeOK, Running, Gone

VersionGateAction ==
    \A p \in Procs :
        /\ phase'[p] = "stop" /\ phase[p] # "stop" /\ ~HeartbeatStale =>
               Newer(Version[p], daemon[target[p]].version)
        /\ Judge(p) /\ phase'[p] = "idle" /\ Running(target[p]) =>
               ~Newer(Version[p], daemon[target[p]].version)
        /\ PollSucceeds(p) => ~Newer(Version[p], daemon[instance].version)

\* Only the two looks at a daemon end in the decision to stop it.
LEMMA WhoStops ==
    ASSUME Inv, [Next]_vars, NEW p \in Procs, phase'[p] = "stop", phase[p] # "stop"
    PROVE  \/ Recheck(p) /\ Running(target[p]) /\ Outdated(p, target[p])
           \/ Judge(p) /\ HeartbeatStale
<1>0. phase \in [Procs -> Phases]
  BY DEF Inv, SpawnerTypeOK
<1>1. CASE \E q \in Procs : Recheck(q) \/ Judge(q)
  <2>1. PICK q \in Procs : Recheck(q) \/ Judge(q)
    BY <1>1
  <2>2. q = p
    BY <1>0, <2>1 DEF Recheck, Judge, Enter, Return
  <2> QED
    BY <1>0, <2>1, <2>2 DEF Recheck, Judge, Enter, Return
<1>2. CASE UNCHANGED phase
  BY <1>2
<1>3. CASE \E q \in Procs, next \in Phases \ {"stop"} : Enter(q, next)
  BY <1>0, <1>3 DEF Enter
<1> QED
  BY <1>1, <1>2, <1>3
     DEF Next, ProcessStep, Call, LockOperation, LookAgain, Terminate, StopEnds, RemoveInstance,
         RemoveHeartbeat, Spawn, PollSucceeds, PollTimesOut, ProcessCrashes, ProcessStarts,
         DaemonStep, HeartbeatAges, LockTimePasses, Return, callVars, vars, Phases

\* A client decides to stop a daemon that beats only if its own version is newer,
\* and is served by none that is older.
THEOREM VersionGateHolds == Spec => VersionGate
<1>1. ASSUME Inv, [Next]_vars, NEW p \in Procs, phase'[p] = "stop", phase[p] # "stop",
             ~HeartbeatStale
      PROVE  Newer(Version[p], daemon[target[p]].version)
  <2>1. Running(target[p]) /\ Outdated(p, target[p]) /\ target[p] \in Daemons
    BY <1>1, WhoStops DEF Running
  <2> QED
    BY <1>1, <2>1, CompareSemverOrders, DaemonVersion, VersionAssumption DEF Outdated, Inv
<1>2. ASSUME Inv, NEW p \in Procs, Judge(p), Running(target[p])
      PROVE  ~Newer(Version[p], daemon[target[p]].version)
  <2>1. target[p] \in Daemons /\ ~Outdated(p, target[p])
    BY <1>2 DEF Judge, Running, Inv, JudgedCurrent
  <2> QED
    BY <1>2, <2>1, CompareSemverOrders, DaemonVersion, VersionAssumption DEF Outdated, Inv
<1>3. ASSUME Inv, NEW p \in Procs, PollSucceeds(p)
      PROVE  ~Newer(Version[p], daemon[instance].version)
  <2>1. Health(p, instance) = "running" /\ instance \in Daemons \cup {NoDaemon}
    BY <1>3 DEF PollSucceeds, Inv, SpawnerTypeOK
  <2>2. instance \in Daemons /\ Running(instance) /\ ~Outdated(p, instance)
    BY <2>1, HealthOfPid
  <2> QED
    BY <1>3, <2>2, CompareSemverOrders, DaemonVersion, VersionAssumption DEF Outdated, Inv
<1>4. Inv /\ [Next]_vars => [VersionGateAction]_vars
  BY <1>1, <1>2, <1>3 DEF VersionGateAction
<1> QED
  BY <1>4, Invariance, PTL DEF Spec, VersionGate, VersionGateAction

=============================================================================
