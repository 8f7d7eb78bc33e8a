----------------------------- MODULE DaemonSpawner -----------------------------
(***************************************************************************)
(* Client processes that call ensureDaemonRunning (infra/daemon-spawner.ts)*)
(* whenever they need a daemon, and the daemons they start and stop.  They *)
(* meet in three files: spawn.lock (SpawnLock), daemon.json, written by    *)
(* GlobalInstanceManager in the daemon, and the daemon's heartbeat.        *)
(*                                                                         *)
(* Under the lock, one action is one file operation, one look at a pid or  *)
(* one signal.  The discoveries before the lock and while a process polls  *)
(* are one step each: they decide whether the call returns, and no more.   *)
(* Deadlines may pass at any moment a process looks at the clock.          *)
(***************************************************************************)
EXTENDS SpawnLock, Versions

CONSTANTS
    Daemons,        \* pids of daemons
    Version         \* the version of each client, and of the daemon it ships

NoDaemon == "no daemon"

ASSUME NoDaemonAssumption == NoDaemon \notin Daemons
ASSUME VersionAssumption ==
    \A p \in Procs : Version[p].segments \in Seq(Nat \cup {NotANumber})

VARIABLES
    instance,       \* daemon.json: the daemon it names, or NoDaemon
    heartbeat,      \* the heartbeat file: fresh, or missing, invalid or old
    daemon,         \* what each daemon does, and its version
    phase,          \* where each process is in ensureDaemonRunning
    target,         \* the pid a process found when it looked again, and stops
    child,          \* the daemon a process started and waits for
    unguarded       \* history: a lock was lost, or a spawner left before its
                    \*   daemon was up

fileVars == <<instance, heartbeat>>
callVars == <<phase, target, child>>
vars == <<lockVars, fileVars, daemon, callVars, unguarded>>

Phases == {"idle", "locking", "look", "recheck", "judge", "stop", "stopping", "clean",
           "sweep", "spawn", "poll"}

(* "starting": started by a client; "checked": acquire() found no live        *)
(* instance; "named": daemon.json written, no heartbeat yet; "serving": with *)
(* heartbeats; "leaving": after SIGTERM or on its own; "releasing": release() *)
(* found no daemon.json of another; "released": release() is done with it.    *)
Stages == {"starting", "checked", "named", "serving", "leaving", "releasing", "released"}

Gone == [stage |-> "gone"]

SpawnerTypeOK ==
    /\ LockTypeOK
    /\ instance \in Daemons \cup {NoDaemon}
    /\ heartbeat \in {"fresh", "stale"}
    /\ daemon \in [Daemons -> {Gone} \cup [stage : Stages, version : {Version[p] : p \in Procs}]]
    /\ phase \in [Procs -> Phases]
    /\ target \in [Procs -> Daemons \cup {NoDaemon}]
    /\ child \in [Procs -> Daemons \cup {NoDaemon}]
    /\ unguarded \in BOOLEAN

Init ==
    /\ LockInit
    /\ instance = NoDaemon
    /\ heartbeat = "stale"
    /\ daemon = [d \in Daemons |-> Gone]
    /\ phase = [p \in Procs |-> "idle"]
    /\ target = [p \in Procs |-> NoDaemon]
    /\ child = [p \in Procs |-> NoDaemon]
    /\ unguarded = FALSE

Running(d) == d \in Daemons /\ daemon[d] # Gone
In(d, stages) == d \in Daemons /\ daemon[d].stage \in stages
ComingUp == {"starting", "checked", "named"}
ShuttingDown == {"leaving", "releasing", "released"}

Enter(p, next) == phase' = [phase EXCEPT ![p] = next]
Target(p, d) == target' = [target EXCEPT ![p] = d]
SetStage(d, next) == daemon' = [daemon EXCEPT ![d].stage = next]
Exits(d) == daemon' = [daemon EXCEPT ![d] = Gone]

-----------------------------------------------------------------------------
(* discoverDaemon *)

MutOutdated(p, d) == CompareSemver(Version[p], daemon[d].version) # 0

Outdated(p, d) == CompareSemver(Version[p], daemon[d].version) > 0

HeartbeatStale == heartbeat = "stale"

\* checkDaemonHealth of the daemon that daemon.json names.
Health(p, d) ==
    CASE d = NoDaemon -> "no_instance"
      [] d # NoDaemon /\ ~Running(d) -> "pid_dead"
      [] Running(d) /\ HeartbeatStale -> "heartbeat_stale"
      [] Running(d) /\ ~HeartbeatStale /\ Outdated(p, d) -> "daemon_outdated"
      [] OTHER -> "running"

-----------------------------------------------------------------------------
(* ensureDaemonRunning *)

\* A call that finds no healthy daemon goes for the lock; one that finds a
\* healthy daemon returns at once and changes nothing.
Call(p) ==
    /\ p \in alive
    /\ phase[p] = "idle"
    /\ Health(p, instance) # "running"
    /\ Acquire(p)
    /\ Enter(p, "locking")
    /\ UNCHANGED <<fileVars, daemon, target, child, unguarded>>

\* acquire() and release(), one file operation at a time.  A process that does
\* not get the lock waits for a daemon to appear.
LockOperation(p) ==
    /\ LockStep(p)
    /\ CASE phase[p] = "locking" /\ pc'[p] = "held" -> Enter(p, "look")
         [] phase[p] = "locking" /\ pc'[p] = "out" -> Enter(p, "poll")
         [] OTHER -> UNCHANGED phase
    /\ unguarded' = (unguarded \/ robbed' \ robbed # {})
    /\ UNCHANGED <<fileVars, daemon, target, child>>

\* The call returns; the finally block releases a lock it holds.
Return(p) ==
    /\ Enter(p, "idle")
    /\ Target(p, NoDaemon)
    /\ child' = [child EXCEPT ![p] = NoDaemon]
    /\ IF pc[p] = "held" THEN Release(p) ELSE UNCHANGED lockVars

\* Under the lock, discovery again: daemon.json is read ...
LookAgain(p) ==
    /\ phase[p] = "look"
    /\ Target(p, instance)
    /\ Enter(p, "recheck")
    /\ UNCHANGED <<lockVars, fileVars, daemon, child, unguarded>>

MutRecheck(p) ==
    /\ phase[p] = "recheck"
    /\ Enter(p, "clean") /\ Target(p, NoDaemon)
    /\ UNCHANGED <<lockVars, fileVars, daemon, child, unguarded>>

\* ... the pid it named is looked at, and so is the version it stated: an
\* outdated daemon is stopped whatever its heartbeat ...
Recheck(p) ==
    /\ phase[p] = "recheck"
    /\ \/ ~Running(target[p]) /\ Enter(p, "clean") /\ Target(p, NoDaemon)
       \/ /\ Running(target[p])
          /\ Enter(p, IF Outdated(p, target[p]) THEN "stop" ELSE "judge")
          /\ UNCHANGED target
    /\ UNCHANGED <<lockVars, fileVars, daemon, child, unguarded>>

\* ... and the heartbeat read.  A healthy daemon is returned.
Judge(p) ==
    /\ phase[p] = "judge"
    /\ \/ HeartbeatStale /\ Enter(p, "stop") /\ UNCHANGED <<lockVars, target, child>>
       \/ ~HeartbeatStale /\ Return(p)
    /\ UNCHANGED <<fileVars, daemon, unguarded>>

MutTerminate(p) ==
    /\ phase[p] = "stop"
    /\ SetStage(target[p], "leaving")
    /\ Enter(p, "stopping")
    /\ UNCHANGED <<lockVars, fileVars, target, child, unguarded>>

\* gracefullyStopDaemon: SIGTERM, unless the process is dead by now.  A daemon
\* that is shutting down goes on with it.
Terminate(p) ==
    /\ phase[p] = "stop"
    /\ \/ /\ Running(target[p])
          /\ IF In(target[p], ShuttingDown) THEN UNCHANGED daemon
                                             ELSE SetStage(target[p], "leaving")
          /\ Enter(p, "stopping") /\ UNCHANGED target
       \/ /\ ~Running(target[p])
          /\ Enter(p, "clean") /\ Target(p, NoDaemon)
          /\ UNCHANGED daemon
    /\ UNCHANGED <<lockVars, fileVars, child, unguarded>>

\* Its end: the daemon exited, or gets SIGKILL.
StopEnds(p) ==
    /\ phase[p] = "stopping"
    /\ Exits(target[p])
    /\ Enter(p, "clean")
    /\ Target(p, NoDaemon)
    /\ UNCHANGED <<lockVars, fileVars, child, unguarded>>

\* cleanupStaleDaemonFiles: daemon.json goes ...
RemoveInstance(p) ==
    /\ phase[p] = "clean"
    /\ instance' = NoDaemon
    /\ Enter(p, "sweep")
    /\ UNCHANGED <<lockVars, heartbeat, daemon, target, child, unguarded>>

\* ... and then the heartbeat.
RemoveHeartbeat(p) ==
    /\ phase[p] = "sweep"
    /\ heartbeat' = "stale"
    /\ Enter(p, "spawn")
    /\ UNCHANGED <<lockVars, instance, daemon, target, child, unguarded>>

\* A pid is not used again while a file or a process refers to it.
Unused(d) ==
    ~Running(d) /\ instance # d /\ \A p \in Procs : target[p] # d /\ child[p] # d

\* spawnDaemonProcess starts a daemon, or fails.
SpawnDaemonProcess(p) ==
    \/ \E d \in Daemons :
          /\ Unused(d)
          /\ daemon' = [daemon EXCEPT ![d] = [stage |-> "starting", version |-> Version[p]]]
          /\ child' = [child EXCEPT ![p] = d]
    \/ UNCHANGED <<daemon, child>>

MutSpawn(p) ==
    /\ phase[p] = "spawn"
    /\ SpawnDaemonProcess(p)
    /\ Enter(p, "poll")
    /\ Release(p)
    /\ UNCHANGED <<fileVars, target, unguarded>>

Spawn(p) ==
    /\ phase[p] = "spawn"
    /\ SpawnDaemonProcess(p)
    /\ Enter(p, "poll")
    /\ UNCHANGED <<lockVars, fileVars, target, unguarded>>

\* pollForDaemon finds a healthy daemon, whoever started it ...
PollSucceeds(p) ==
    /\ phase[p] = "poll"
    /\ Health(p, instance) = "running"
    /\ Return(p)
    /\ UNCHANGED <<fileVars, daemon, unguarded>>

\* ... or the overall deadline passes, and the lock is released all the same.
PollTimesOut(p) ==
    /\ phase[p] = "poll"
    /\ Return(p)
    /\ unguarded' = (unguarded \/ In(child[p], ComingUp))
    /\ UNCHANGED <<fileVars, daemon>>

ProcessCrashes(p) ==
    /\ phase[p] # "idle" \/ pc[p] # "out"
    /\ Crash(p)
    /\ Enter(p, "idle")
    /\ Target(p, NoDaemon)
    /\ child' = [child EXCEPT ![p] = NoDaemon]
    /\ unguarded' = (unguarded \/ In(child[p], ComingUp))
    /\ UNCHANGED <<fileVars, daemon>>

ProcessStarts(p) ==
    /\ Start(p)
    /\ UNCHANGED <<fileVars, daemon, callVars, unguarded>>

-----------------------------------------------------------------------------
(* The daemon: GlobalInstanceManager, its heartbeat, and its end *)

\* acquire(), first half: another live instance makes the daemon exit.
CheckInstance(d) ==
    /\ In(d, {"starting"})
    /\ IF Running(instance) THEN Exits(d) ELSE SetStage(d, "checked")
    /\ UNCHANGED fileVars

\* acquire(), second half: a temporary file, renamed to daemon.json.  (If that
\* fails the daemon ends, as it may at any time.)
WriteInstance(d) ==
    /\ In(d, {"checked"})
    /\ SetStage(d, "named")
    /\ instance' = d
    /\ UNCHANGED heartbeat

Beat(d) ==
    /\ In(d, {"named", "serving"})
    /\ SetStage(d, "serving")
    /\ heartbeat' = "fresh"
    /\ UNCHANGED instance

\* The daemon shuts down on its own: it is idle.
Leave(d) ==
    /\ In(d, {"serving"})
    /\ SetStage(d, "leaving")
    /\ UNCHANGED fileVars

\* release(), first half: another daemon's daemon.json is not deleted.
CheckOwnInstance(d) ==
    /\ In(d, {"leaving"})
    /\ SetStage(d, IF instance \in {d, NoDaemon} THEN "releasing" ELSE "released")
    /\ UNCHANGED fileVars

\* release(), second half: unlinkSync, whichever file is there by now.
DeleteInstance(d) ==
    /\ In(d, {"releasing"})
    /\ instance' = NoDaemon
    /\ SetStage(d, "released")
    /\ UNCHANGED heartbeat

\* The process ends: its shutdown is done, or it dies before that.
Ends(d) ==
    /\ Running(d)
    /\ Exits(d)
    /\ UNCHANGED fileVars

DaemonStep(d) ==
    /\ \/ CheckInstance(d) \/ WriteInstance(d) \/ Beat(d) \/ Leave(d)
       \/ CheckOwnInstance(d) \/ DeleteInstance(d) \/ Ends(d)
    /\ UNCHANGED <<lockVars, callVars, unguarded>>

\* No beat for HEARTBEAT_STALE_THRESHOLD_MS: no daemon serves, or it hangs.
HeartbeatAges ==
    /\ heartbeat = "fresh"
    /\ heartbeat' = "stale"
    /\ UNCHANGED <<lockVars, instance, daemon, callVars, unguarded>>

LockTimePasses ==
    /\ LockAges
    /\ UNCHANGED <<fileVars, daemon, callVars, unguarded>>

-----------------------------------------------------------------------------

\* The steps of a call, which a process takes without waiting for anybody.
ProcessStep(p) ==
    \/ LockOperation(p) \/ LookAgain(p) \/ Recheck(p) \/ Judge(p) \/ Terminate(p)
    \/ StopEnds(p) \/ RemoveInstance(p) \/ RemoveHeartbeat(p) \/ Spawn(p) \/ PollSucceeds(p)

Next ==
    \/ \E p \in Procs : Call(p) \/ ProcessStep(p) \/ PollTimesOut(p)
                           \/ ProcessCrashes(p) \/ ProcessStarts(p)
    \/ \E d \in Daemons : DaemonStep(d)
    \/ HeartbeatAges
    \/ LockTimePasses

Spec == Init /\ [][Next]_vars

-----------------------------------------------------------------------------
(* Safety *)

\* A daemon that has not let go of daemon.json.
Unreleased(d) == Running(d) /\ ~In(d, {"released"})

\* While every spawner kept its lock until its daemon was up, a new daemon may
\* overlap only with one that has let go of daemon.json and is about to exit
\* ("overlapping shutdown/startup sequences", GlobalInstanceManager.release): the
\* check and the rename of acquire(), the clean-up of files and the deletion in
\* release() do not get in each other's way, so daemon.json is never deleted from
\* under a daemon that serves.
OneDaemon ==
    ~unguarded =>
        /\ \A d, e \in Daemons : Unreleased(d) /\ Unreleased(e) => d = e
        /\ \A d \in Daemons : In(d, {"named", "serving"}) => instance = d

\* The lock excludes: a process gets it only when no other has it, except for
\* those that another process took it from.
M == INSTANCE Mutex WITH inside <- acquired \ robbed
MutexSpec == M!Spec

\* A process has its lock taken from it only if it kept it too long, or by a
\* process that judged another file, or this one before it had any data, or
\* that found its own lock there when it looked.
LockTakenOnlyFrom ==
    [][\A q \in robbed' \ robbed :
          \E p \in Procs, f \in lockFile :
             /\ f.owner = q
             /\ \/ pc[p] \in {"unlink", "delete"} /\ judged[p] # lockFile
                \/ pc[p] = "unlink" /\ (f.old \/ ~f.written)]_vars

\* A daemon that comes up is stopped only after a spawner left it or lost its
\* lock: no other client judges it stale for the heartbeat it has yet to write.
StartingDaemonSpared ==
    [][\A d \in Daemons :
          In(d, ComingUp) /\ (In(d, {"leaving"}))' => unguarded]_vars

\* a is newer than b: greater in the first segment they differ in.
Newer(a, b) ==
    \E i \in DOMAIN a.segments \cup DOMAIN b.segments :
        /\ Part(a, i) > Part(b, i)
        /\ \A j \in 1 .. i - 1 : Part(a, j) = Part(b, j)

\* No client decides to stop a daemon that beats unless its own version is newer,
\* or two clients would replace each other's daemons for ever; and none is served
\* by a daemon older than itself, although the version was read some steps before.
VersionGate ==
    [][\A p \in Procs :
          /\ phase'[p] = "stop" /\ phase[p] # "stop" /\ ~HeartbeatStale =>
                 Newer(Version[p], daemon[target[p]].version)
          /\ Judge(p) /\ phase'[p] = "idle" /\ Running(target[p]) =>
                 ~Newer(Version[p], daemon[target[p]].version)
          /\ PollSucceeds(p) => ~Newer(Version[p], daemon[instance].version)]_vars

\* "If two processes both remove the stale lock, only one will win the exclusive
\* create on retry" (SpawnLock.acquire): no two processes have the lock.
MutualExclusion == \A p, q \in acquired : p = q

=============================================================================
