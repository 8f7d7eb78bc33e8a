------------------------------- MODULE Discovery -------------------------------
(***************************************************************************)
(* How a program finds the daemon: the two readers of daemon.json and the  *)
(* health check they share (global-instance-manager, daemon-instance-      *)
(* discovery, daemon-discovery-sync, daemon-health, instance-info, the     *)
(* schema), and the URL check of connect().                                *)
(*                                                                         *)
(* A machine is a record: what reading daemon.json yields, what            *)
(* kill(pid, 0) does, and the age of the heartbeat's timestamp.            *)
(***************************************************************************)
EXTENDS Integers, Sequences

CONSTANTS
    DaemonPortMin, DaemonPortMax,       \* DAEMON_PORT_MIN, DAEMON_PORT_MAX
    HeartbeatStaleThreshold             \* HEARTBEAT_STALE_THRESHOLD_MS

MaxPort == 65535        \* the largest port of a URL

ASSUME DiscoveryAssumption ==
    DaemonPortMin \in Nat /\ DaemonPortMax \in Nat /\ DaemonPortMax <= MaxPort

(* A field of a JSON object; `n` is the integer part of a number.            *)
Number(n) == [type |-> "number", whole |-> TRUE, n |-> n]
Fraction(n) == [type |-> "number", whole |-> FALSE, n |-> n]
Text == [type |-> "string", whole |-> FALSE, n |-> 0]
Undefined == [type |-> "undefined", whole |-> FALSE, n |-> 0]

(* What a file may hold instead of an object.                                *)
Missing == [kind |-> "missing"]
Unreadable == [kind |-> "unreadable"]
NotJson == [kind |-> "not JSON"]
NotAnObject == [kind |-> "not an object"]
Object(fields) == [kind |-> "object", fields |-> fields]

-----------------------------------------------------------------------------
(* daemon.json *)

MutDaemonInstanceSchema(json) ==
    /\ json.kind = "object"
    /\ \A f \in {"pid", "port", "startedAt"} :
          json.fields[f].type = "number" /\ json.fields[f].whole
    /\ json.fields.pid.n > 0 /\ json.fields.startedAt.n > 0
    /\ json.fields.port.n <= DaemonPortMax
    /\ json.fields.version.type \in {"string", "undefined"}

\* The schema accepts unknown fields and strips them.
DaemonInstanceSchema(json) ==
    /\ json.kind = "object"
    /\ \A f \in {"pid", "port", "startedAt"} :
          json.fields[f].type = "number" /\ json.fields[f].whole
    /\ json.fields.pid.n > 0 /\ json.fields.startedAt.n > 0
    /\ json.fields.port.n >= DaemonPortMin
    /\ json.fields.port.n <= DaemonPortMax
    /\ json.fields.version.type \in {"string", "undefined"}

\* InstanceInfo.validateJson: what fromJson() does not throw at.
ValidateJson(json) ==
    LET PositiveInteger(v) == v.type = "number" /\ v.whole /\ v.n > 0
    IN  /\ json.kind = "object"
        /\ PositiveInteger(json.fields.pid)
        /\ PositiveInteger(json.fields.startedAt)
        /\ json.fields.port.type = "number" /\ json.fields.port.whole
        /\ json.fields.port.n \in DaemonPortMin .. DaemonPortMax

NoInstance == [found |-> FALSE]
Instance(json) == [found |-> TRUE, pid |-> json.fields.pid, port |-> json.fields.port,
                   version |-> json.fields.version]

\* GlobalInstanceManager.load: whatever goes wrong, there is no instance.
Load(file) == IF DaemonInstanceSchema(file) THEN Instance(file) ELSE NoInstance

\* DaemonInstanceDiscovery reads the same file; an error of fromJson() is one
\* more reason to find nothing.
ReadInstanceFile(file) ==
    IF DaemonInstanceSchema(file) /\ ValidateJson(file) THEN Instance(file) ELSE NoInstance

-----------------------------------------------------------------------------
(* Health *)

\* A process that may not be signalled exists.
IsProcessAlive(machine) == machine.kill \in {"done", "EPERM"}

\* Absent, unreadable and malformed timestamps count as stale, and so do those of
\* the future.
IsHeartbeatStale(machine) ==
    \/ machine.heartbeat.type # "number"
    \/ machine.heartbeat.n < 0
    \/ machine.heartbeat.n > HeartbeatStaleThreshold

\* The version gate asks both versions; only discoverDaemon() passes them.
CheckDaemonHealth(machine, outdated) ==
    CASE ~IsProcessAlive(machine) -> "pid_dead"
      [] IsProcessAlive(machine) /\ IsHeartbeatStale(machine) -> "heartbeat_stale"
      [] OTHER -> IF outdated THEN "daemon_outdated" ELSE "healthy"

\* discoverDaemon, for a client that is newer than the daemon's version or not.
DiscoverDaemon(machine, newer) ==
    LET instance == Load(machine.file)
    IN  IF ~instance.found THEN "no_instance"
        ELSE CheckDaemonHealth(machine, newer /\ instance.version.type = "string")

Reason(health) == IF health = "pid_dead" THEN "instance_crashed" ELSE "instance_stale"

\* DaemonInstanceDiscovery.discover, with the root that findProjectRoot finds.
Discover(machine, projectRoot) ==
    LET instance == ReadInstanceFile(machine.file)
        health == CheckDaemonHealth(machine, FALSE)
    IN  CASE ~instance.found -> [found |-> FALSE, reason |-> "no_instance"]
          [] instance.found /\ health # "healthy" ->
                 [found |-> FALSE, reason |-> Reason(health)]
          [] OTHER -> [found |-> TRUE, instance |-> instance,
                       projectRoot |-> projectRoot]

\* checkServerStatus renames the fields; the factory's connect() throws the error
\* of the reason, and the project it registers is the caller's or the one found.
ToServerStatus(result) ==
    IF result.found
    THEN [running |-> TRUE, projectRoot |-> result.projectRoot]
    ELSE [running |-> FALSE, reason |-> result.reason]

ConnectThrows(result) ==
    CASE result.found -> "nothing"
      [] ~result.found /\ result.reason = "instance_crashed" -> "InstanceCrashedError"
      [] ~result.found /\ result.reason = "instance_stale" -> "InstanceStaleError"
      [] OTHER -> "NoInstanceRunningError"

-----------------------------------------------------------------------------
(* URLs *)

ValidProtocols == {"http:", "https:", "ws:", "wss:"}

\* A URL as new URL() reads it once it is trimmed.
ValidateTransportUrl(url) ==
    /\ url.type = "string" /\ ~url.blank
    /\ url.parses
    /\ url.protocol \in ValidProtocols
    /\ url.hostname # ""

\* InstanceInfo.getTransportUrl with the default host; the parser rejects a port
\* that is not a number of 16 bits.
GetTransportUrl(instance) ==
    [type |-> "string", blank |-> FALSE, protocol |-> "http:", hostname |-> "127.0.0.1",
     parses |-> instance.port.whole /\ instance.port.n \in 0 .. MaxPort]

=============================================================================
