----------------------------- MODULE Helpers_proofs -----------------------------
(***************************************************************************)
(* Proofs about the client's timers and about the two readers of           *)
(* daemon.json, for every delay, budget, interval, threshold and sleep,    *)
(* and for every file, process and heartbeat.                              *)
(***************************************************************************)
EXTENDS Helpers, SequenceTheorems, TLAPS

(* The state of the timers.                                                *)
TimersTypes ==
    /\ now \in 1 .. MaxTime + 1
    /\ connection \in {"closed", "up", "down"}
    /\ startedAt \in {Unset} \cup Nat
    /\ attempt \in Nat
    /\ timer \in Nat
    /\ lastCheckTime \in Nat
    /\ checkDue \in Nat
    /\ slept \in Nat
    /\ dozed \in Nat

(* A client that is up asks for its first delay when it goes down; a timer *)
(* that is pending was set for it when the strategy's time began, and has  *)
(* been put off by no more than the sleep.                                 *)
TimeRuns ==
    /\ connection = "up" => attempt = 0 /\ startedAt = Unset
    /\ timer # Never =>
          /\ attempt = 0 /\ startedAt \in Nat
          /\ startedAt + GetDelay(0, 0) <= timer
          /\ timer <= startedAt + Delays[1] + dozed
          /\ now <= startedAt + Delays[1] + MaxLate + dozed

(* The time since the last check is at least the sleep and, while the      *)
(* detector runs, no more than it, the interval and the lateness together: *)
(* the interval was put off by no more than the sleep.                     *)
CheckOnTime ==
    /\ slept <= now - lastCheckTime
    /\ checkDue # Never =>
          /\ checkDue <= lastCheckTime + CheckInterval + slept
          /\ now <= lastCheckTime + CheckInterval + slept + MaxLate

TimersInv == TimersTypes /\ TimeRuns /\ CheckOnTime


-----------------------------------------------------------------------------
(* Operators of the timers *)

\* The strategy's first delay (getDelay): the jitter only shortens it, and by no
\* more than its factor.
LEMMA FirstDelay ==
    /\ Delays[1] \in Nat /\ GetDelay(0, 0) \in Nat /\ GetDelay(0, 0) <= Delays[1]
    /\ \A random \in Randoms :
          /\ GetDelay(0, random) \in Nat
          /\ GetDelay(0, 0) <= GetDelay(0, random) /\ GetDelay(0, random) <= Delays[1]
<1> DEFINE delay == Delays[1]
           share(random) == 10000 - 100 * Jitter + random * Jitter
<1>1. delay \in Nat /\ Len(Delays) \in Nat /\ Len(Delays) > 0 /\ Jitter \in 0 .. 100
  BY TimersAssumption DEF Positive
<1>2. \A random : GetDelay(0, random) = (delay * share(random)) \div 10000
  BY <1>1 DEF GetDelay
<1> HIDE DEF delay
<1>3. ASSUME NEW random \in 0 .. 99
      PROVE  /\ (delay * share(random)) \div 10000 \in Nat
             /\ (delay * share(0)) \div 10000 <= (delay * share(random)) \div 10000
             /\ (delay * share(random)) \div 10000 <= delay
  <2> DEFINE least == share(0)
             some == share(random)
  <2>1. least \in Nat /\ some \in Nat /\ least <= some /\ some <= 10000
    <3>1. /\ Jitter * random \in Nat /\ Jitter * (100 - random) \in Nat
          /\ Jitter * (100 - random) <= 100 * 100 /\ Jitter * 100 <= 100 * 100
      BY <1>1
    <3>2. random * Jitter = Jitter * random /\ Jitter * (100 - random) = 100 * Jitter - Jitter * random
      BY <1>1
    <3> QED BY <1>1, <3>1, <3>2
  <2> HIDE DEF least, some
  <2>2. delay * least \in Nat /\ delay * some \in Nat
    BY <1>1, <2>1
  <2>3. delay * least <= delay * some /\ delay * some <= delay * 10000
    BY <1>1, <2>1
  <2> DEFINE low == delay * least
             high == delay * some
  <2> HIDE DEF low, high
  <2>4. low \in Nat /\ high \in Nat /\ low <= high /\ high <= delay * 10000
    BY <2>2, <2>3 DEF low, high
  <2>5. high \div 10000 \in Nat /\ low \div 10000 <= high \div 10000 /\ high \div 10000 <= delay
    BY <1>1, <2>4
  <2> QED BY <2>5 DEF low, high, least, some
<1> HIDE DEF share
<1>4. ASSUME NEW random \in 0 .. 99
      PROVE  /\ GetDelay(0, random) \in Nat
             /\ GetDelay(0, 0) <= GetDelay(0, random) /\ GetDelay(0, random) <= delay
  <2>1. /\ GetDelay(0, random) = (delay * share(random)) \div 10000
        /\ GetDelay(0, 0) = (delay * share(0)) \div 10000
    BY <1>2
  <2> QED BY <1>3, <2>1
<1>5. GetDelay(0, 0) \in Nat /\ GetDelay(0, 0) <= delay
  BY <1>4
<1>6. \A random \in Randoms : random \in 0 .. 99
  BY TimersAssumption
<1> QED BY <1>1, <1>4, <1>5, <1>6 DEF delay

\* A timer that is set for the first delay when the strategy's time begins: by
\* schedule() of a client that was up, and by restart().
LEMMA FirstDelaySet ==
    ASSUME TimersTypes, UNCHANGED now,
           attempt' = 0, startedAt' = now, dozed' = 0,
           \E random \in Randoms : timer' = now + GetDelay(0, random)
    PROVE  /\ attempt' \in Nat /\ startedAt' \in Nat /\ timer' \in Nat /\ dozed' \in Nat
           /\ startedAt' + GetDelay(0, 0) <= timer'
           /\ timer' <= startedAt' + Delays[1] + dozed'
           /\ now' <= startedAt' + Delays[1] + MaxLate + dozed'
<1>1. now \in Nat /\ MaxLate \in Nat
  BY TimersAssumption DEF TimersTypes
<1>2. PICK random \in Randoms : timer' = now + GetDelay(0, random)
  OBVIOUS
<1> QED BY <1>1, <1>2, FirstDelay

LEMMA ScheduleSets ==
    ASSUME TimersTypes, startedAt = Unset, attempt = 0, Schedule(attempt)
    PROVE  /\ attempt' = 0 /\ startedAt' = now /\ dozed' = 0
           /\ \E random \in Randoms : timer' = now + GetDelay(0, random)
<1>1. now \in Nat /\ MaxAttempts \in Nat \ {0} /\ MaxTotalTime \in Nat \ {0}
  BY TimersAssumption DEF TimersTypes, Positive
<1>2. Started = now /\ ShouldContinue(attempt)
  BY <1>1 DEF Started, ShouldContinue
<1> QED BY <1>2 DEF Schedule

-----------------------------------------------------------------------------
(* The timers' invariant *)

\* stop() and start() of the detector leave a check that is on time.
LEMMA DetectorStarts ==
    ASSUME TimersTypes, Start, UNCHANGED now
    PROVE  /\ lastCheckTime' \in Nat /\ checkDue' \in Nat /\ slept' \in Nat
           /\ CheckOnTime'
BY TimersAssumption DEF TimersTypes, Start, CheckOnTime, Positive

LEMMA TimersKept ==
    ASSUME TimersInv, [TimersNext]_timerVars
    PROVE  TimersInv'
<1> USE DEF TimersInv
<1>0. /\ Never \in Nat /\ Unset \notin Nat /\ CheckInterval \in Nat
      /\ MaxSleep \in Nat /\ MaxLate \in Nat /\ MaxTime \in Nat
  BY TimersAssumption DEF Never, Unset, Positive
<1> DEFINE least == GetDelay(0, 0)
           longest == Delays[1]
<1>a. least \in Nat /\ longest \in Nat
  BY FirstDelay
<1>b. TimersTypes => now < Never
  BY <1>0 DEF TimersTypes, Never
<1>1. CASE Connect
  BY <1>0, <1>1, DetectorStarts DEF Connect, Reset, Start, TimersTypes, TimeRuns
<1>2. CASE Disconnect
  BY <1>0, <1>2 DEF Disconnect, Reset, Stop, TimersTypes, TimeRuns, CheckOnTime
<1>3. CASE ReconnectFailed
  <2>1. /\ Schedule(attempt) /\ attempt = 0 /\ startedAt = Unset /\ connection' = "down"
        /\ UNCHANGED <<now, detectorVars>>
    BY <1>3 DEF ReconnectFailed, TimeRuns
  <2>2. /\ attempt' = 0 /\ startedAt' = now /\ dozed' = 0
        /\ \E random \in Randoms : timer' = now + GetDelay(0, random)
    BY <2>1, ScheduleSets
  <2> QED BY <1>0, <2>1, <2>2, FirstDelaySet
          DEF TimersTypes, TimeRuns, CheckOnTime, detectorVars
<1>4. CASE AttemptFails
  <2>1. Restart /\ timer <= now /\ UNCHANGED <<now, connection, detectorVars>>
    BY <1>4 DEF AttemptFails
  <2>2. connection # "up"
    BY <1>0, <2>1 DEF TimersTypes, TimeRuns, Never
  <2>3. /\ attempt' = 0 /\ startedAt' = now /\ dozed' = 0
        /\ \E random \in Randoms : timer' = now + GetDelay(0, random)
    BY <2>1 DEF Restart
  <2> QED BY <1>0, <2>1, <2>2, <2>3, FirstDelaySet
          DEF TimersTypes, TimeRuns, CheckOnTime, detectorVars
<1>5. CASE AttemptSucceeds
  BY <1>0, <1>5, DetectorStarts DEF AttemptSucceeds, Reset, Start, TimersTypes, TimeRuns
<1>6. CASE GivesUp
  <2>1. timer' = Never /\ attempt' = attempt + 1 /\ dozed' = 0 /\ timer <= now
    BY <1>6 DEF GivesUp
  <2>2. UNCHANGED <<startedAt, now, connection, detectorVars>>
    BY <1>6 DEF GivesUp
  <2>3. connection # "up"
    BY <1>0, <1>b, <2>1 DEF TimersTypes, TimeRuns
  <2> QED BY <1>0, <2>1, <2>2, <2>3 DEF TimersTypes, TimeRuns, CheckOnTime, detectorVars
<1>7. CASE CheckForWake
  <2>1. /\ attempt' \in Nat /\ startedAt' \in {Unset} \cup Nat /\ timer' \in Nat /\ dozed' \in Nat
        /\ TimeRuns'
    <3>1. CASE Restart /\ connection = "down"
      <4>1. UNCHANGED <<now, connection>>
        BY <1>7 DEF CheckForWake
      <4>2. /\ attempt' = 0 /\ startedAt' = now /\ dozed' = 0
            /\ \E random \in Randoms : timer' = now + GetDelay(0, random)
        BY <3>1 DEF Restart
      <4> QED BY <1>0, <3>1, <4>1, <4>2, FirstDelaySet DEF TimeRuns
    <3>2. CASE UNCHANGED strategyVars
      BY <1>7, <3>2 DEF CheckForWake, TimersTypes, TimeRuns, strategyVars, Never, Unset
    <3> QED BY <1>7, <3>1, <3>2 DEF CheckForWake
  <2>2. /\ now' = now /\ connection' = connection
        /\ lastCheckTime' = now /\ checkDue' = now + CheckInterval /\ slept' = 0
    BY <1>7 DEF CheckForWake
  <2> QED BY <1>0, <2>1, <2>2 DEF TimersTypes, CheckOnTime
<1>8. CASE Tick
  <2>1. now < MaxTime /\ now < timer + MaxLate /\ now < checkDue + MaxLate /\ now' = now + 1
    BY <1>8 DEF Tick
  <2>2. UNCHANGED <<connection, strategyVars, detectorVars>>
    BY <1>8 DEF Tick
  <2>3. TimersTypes' /\ CheckOnTime'
    BY <1>0, <2>1, <2>2 DEF TimersTypes, CheckOnTime, strategyVars, detectorVars
  <2>4. TimeRuns'
    <3> HIDE DEF least, longest
    <3>1. timer # Never => timer <= startedAt + longest + dozed
      BY DEF TimeRuns, longest
    <3>2. timer # Never => now + 1 <= startedAt + longest + MaxLate + dozed
      BY <1>0, <1>a, <2>1, <3>1 DEF TimersTypes, TimeRuns
    <3> QED BY <2>1, <2>2, <3>2 DEF TimeRuns, longest, strategyVars
  <2> QED BY <2>3, <2>4
<1>9. CASE Sleep
  <2>1. PICK time \in 1 .. MaxSleep, shift \in Nat :
           /\ shift <= time
           /\ now' = now + time /\ now' <= MaxTime /\ slept' = slept + time
           /\ timer' = IF timer = Never THEN Never ELSE timer + shift
           /\ checkDue' = IF checkDue = Never THEN Never ELSE checkDue + shift
           /\ dozed' = IF timer = Never THEN 0 ELSE dozed + time
    BY <1>0, <1>9 DEF Sleep
  <2>2. UNCHANGED <<connection, startedAt, attempt, lastCheckTime, noticed>>
    BY <1>9 DEF Sleep
  <2>3. time \in Nat
    BY <1>0
  <2>4. TimersTypes' /\ CheckOnTime'
    BY <1>0, <2>1, <2>2, <2>3 DEF TimersTypes, CheckOnTime
  <2>5. TimeRuns'
    <3> HIDE DEF least, longest
    <3>1. timer # Never =>
             /\ attempt = 0 /\ startedAt \in Nat
             /\ startedAt + least <= timer /\ timer <= startedAt + longest + dozed
             /\ now <= startedAt + longest + MaxLate + dozed
      BY DEF TimeRuns, least, longest
    <3>2. timer # Never =>
             /\ startedAt + least <= timer + shift
             /\ timer + shift <= startedAt + longest + (dozed + time)
             /\ now + time <= startedAt + longest + MaxLate + (dozed + time)
      BY <1>0, <1>a, <2>1, <2>3, <3>1 DEF TimersTypes
    <3> QED BY <2>1, <2>2, <3>1, <3>2 DEF TimeRuns, least, longest
  <2> QED BY <2>4, <2>5
<1>10. CASE UNCHANGED timerVars
  BY <1>10 DEF timerVars, strategyVars, detectorVars, TimersTypes, TimeRuns, CheckOnTime
<1> QED BY <1>1, <1>2, <1>3, <1>4, <1>5, <1>6, <1>7, <1>8, <1>9, <1>10 DEF TimersNext

\* A step of the helpers is a step of one of the components, or leaves it alone.
LEMMA HelpersStep ==
    ASSUME [HelpersNext]_helpersVars
    PROVE  /\ [TimersNext]_timerVars
           /\ [FindProjectRoot \/ WalkUp \/ ResolveServerPath \/ TryEntry]_searchVars
           /\ [DeepFreeze \/ Visit \/ Freeze]_freezeVars
           /\ [MessageArrives \/ DeliveryNext]_deliveryVars
           /\ Discovers \/ call' = call \/ call'.of \in {"search", "freeze", "message"}
<1>1. ASSUME NEW what \in {"search", "freeze", "message"}, call' = Call(what)
      PROVE  call'.of \in {"search", "freeze", "message"}
  BY <1>1 DEF Call
<1>2. CASE Discovers
  BY <1>2, Zenon DEF Discovers
<1>3. CASE TimersStep
  BY <1>3, Zenon DEF TimersStep
<1>4. CASE SearchesStep
  BY <1>1, <1>4, Zenon DEF SearchesStep
<1>5. CASE FreezeStep
  BY <1>1, <1>5, Zenon DEF FreezeStep
<1>6. CASE DeliveryStep
  BY <1>1, <1>6, Zenon DEF DeliveryStep
<1>7. CASE UNCHANGED helpersVars
  BY <1>7, Zenon DEF helpersVars
<1> QED BY <1>2, <1>3, <1>4, <1>5, <1>6, <1>7 DEF HelpersNext

LEMMA TimersInvariant == HelpersSpec => []TimersInv
<1>1. HelpersInit => TimersInv
  BY TimersAssumption DEF HelpersInit, TimersInit, TimersInv, TimersTypes, TimeRuns,
                          CheckOnTime, Never, Unset
<1>2. TimersInv /\ [HelpersNext]_helpersVars => TimersInv'
  BY HelpersStep, TimersKept
<1> QED BY <1>1, <1>2, PTL DEF HelpersSpec

-----------------------------------------------------------------------------
(* What the timers promise *)

\* The wake detector (checkForWake in wake-detector.ts) misses no sleep longer than
\* its interval and threshold together and, up to the lateness of the event loop,
\* takes nothing for a sleep that was not longer than the threshold: for every
\* interval, threshold, lateness and moment of the sleep.
THEOREM WakesAreNoticed == HelpersSpec => WakesNoticed
<1> DEFINE Notices == CheckForWake =>
              /\ slept > CheckInterval + Threshold => noticed'
              /\ noticed' => slept + MaxLate > Threshold
<1>1. TimersInv => Notices
  <2> SUFFICES ASSUME TimersInv, CheckForWake
               PROVE  /\ slept > CheckInterval + Threshold => noticed'
                      /\ noticed' => slept + MaxLate > Threshold
    OBVIOUS
  <2>1. /\ now \in Nat /\ slept \in Nat /\ lastCheckTime \in Nat
        /\ CheckInterval \in Nat /\ Threshold \in Nat /\ MaxLate \in Nat /\ MaxTime \in Nat
        /\ MaxSleep \in Nat /\ checkDue \in Nat /\ now <= MaxTime + 1
    BY TimersAssumption DEF TimersInv, TimersTypes, Positive
  <2>2. checkDue # Never
    BY <2>1 DEF CheckForWake, Never
  <2>3. /\ slept <= now - lastCheckTime
        /\ now <= lastCheckTime + CheckInterval + slept + MaxLate
    BY <2>2 DEF TimersInv, CheckOnTime
  <2>4. noticed' <=> now - lastCheckTime > CheckInterval + Threshold
    BY Zenon DEF CheckForWake
  <2>5. /\ slept > CheckInterval + Threshold => now - lastCheckTime > CheckInterval + Threshold
        /\ now - lastCheckTime > CheckInterval + Threshold => slept + MaxLate > Threshold
    BY <2>1, <2>3
  <2> QED BY <2>4, <2>5, Zenon
<1>2. TimersInv /\ [HelpersNext]_helpersVars => [Notices]_timerVars
  BY <1>1, Zenon
<1> QED BY <1>2, TimersInvariant, PTL DEF HelpersSpec, WakesNoticed

\* The force attempts keep pace (executeAttempt and schedule in
\* force-reconnect-manager.ts, asking reconnection-strategy.ts), for every list of
\* delays, jitter and budget and however the machine sleeps: one begins its first
\* delay after the one before it, and the client gives up only if that wait alone
\* used up the total time.
THEOREM AttemptsArePaced == HelpersSpec => AttemptsPaced
<1> DEFINE longest == Delays[1] + MaxLate + dozed
           Paced == AttemptFails \/ AttemptSucceeds \/ GivesUp =>
              /\ now - startedAt \in GetDelay(0, 0) .. longest
              /\ GivesUp => longest >= MaxTotalTime
<1>1. TimersInv => Paced
  <2> SUFFICES ASSUME TimersInv, AttemptFails \/ AttemptSucceeds \/ GivesUp
               PROVE  /\ now - startedAt \in GetDelay(0, 0) .. longest
                      /\ GivesUp => longest >= MaxTotalTime
    OBVIOUS
  <2>1. timer <= now
    BY DEF AttemptFails, AttemptSucceeds, GivesUp
  <2>2. /\ now \in Nat /\ timer \in Nat /\ dozed \in Nat /\ now <= MaxTime + 1
        /\ MaxLate \in Nat /\ MaxTime \in Nat /\ MaxSleep \in Nat
        /\ MaxAttempts \in Nat \ {0} /\ MaxTotalTime \in Nat
    BY TimersAssumption DEF TimersInv, TimersTypes, Positive
  <2>3. timer # Never
    BY <2>1, <2>2 DEF Never
  <2>4. /\ attempt = 0 /\ startedAt \in Nat
        /\ startedAt + GetDelay(0, 0) <= timer
        /\ now <= startedAt + Delays[1] + MaxLate + dozed
    BY <2>3 DEF TimersInv, TimeRuns
  <2>5. now - startedAt \in GetDelay(0, 0) .. longest
    BY <2>1, <2>2, <2>4, FirstDelay
  <2>6. ASSUME GivesUp
        PROVE  now - startedAt >= MaxTotalTime
    <3>1. Started = startedAt
      BY <2>4 DEF Started, Unset
    <3> QED BY <2>2, <2>4, <2>6, <3>1 DEF GivesUp, ShouldContinue
  <2>7. GivesUp => longest >= MaxTotalTime
    BY <2>2, <2>4, <2>6, FirstDelay
  <2> QED BY <2>5, <2>7
<1>2. TimersInv /\ [HelpersNext]_helpersVars => [Paced]_timerVars
  BY <1>1, Zenon
<1> QED BY <1>2, TimersInvariant, PTL DEF HelpersSpec, AttemptsPaced

-----------------------------------------------------------------------------
(* The two readers of daemon.json *)

\* A port between the limits of the daemon's is one that a URL may have.
LEMMA PortsFit ==
    ASSUME NEW port \in Int, port >= DaemonPortMin, port <= DaemonPortMax
    PROVE  port \in DaemonPortMin .. DaemonPortMax /\ port \in 0 .. MaxPort
<1>1. MaxPort \in Nat
  BY DEF MaxPort
<1> QED BY <1>1, DiscoveryAssumption

\* A file of which the schema says that it is a daemon's: fromJson() accepts it as
\* well, and the port makes a URL that connect() accepts.
LEMMA SchemaIsEnough ==
    ASSUME NEW file \in Files, DaemonInstanceSchema(file)
    PROVE  /\ ValidateJson(file)
           /\ ValidateTransportUrl(GetTransportUrl(Instance(file)))
<1>1. /\ file.kind = "object"
      /\ \A f \in {"pid", "port", "startedAt"} :
            file.fields[f].type = "number" /\ file.fields[f].whole
      /\ file.fields.pid.n > 0 /\ file.fields.startedAt.n > 0
      /\ file.fields.port.n >= DaemonPortMin /\ file.fields.port.n <= DaemonPortMax
  BY Zenon DEF DaemonInstanceSchema
<1>2. file.fields.port.n \in Int
  BY <1>1, HelpersAssumption, Zenon
<1>3. /\ file.fields.port.n \in DaemonPortMin .. DaemonPortMax
      /\ file.fields.port.n \in 0 .. MaxPort
  BY <1>1, <1>2, PortsFit, Zenon
<1>4. /\ file.fields.pid.type = "number" /\ file.fields.pid.whole
      /\ file.fields.port.type = "number" /\ file.fields.port.whole
      /\ file.fields.startedAt.type = "number" /\ file.fields.startedAt.whole
  BY <1>1, Zenon
<1>5. ValidateJson(file)
  <2>1. file.kind = "object" /\ file.fields.pid.n > 0 /\ file.fields.startedAt.n > 0
    BY <1>1, Zenon
  <2> QED BY <1>3, <1>4, <2>1, Zenon DEF ValidateJson
<1>6. ValidateTransportUrl(GetTransportUrl(Instance(file)))
  <2> DEFINE url == GetTransportUrl(Instance(file))
  <2>1. Instance(file).port = file.fields.port
    BY Zenon DEF Instance
  <2>2. /\ url.type = "string" /\ url.blank = FALSE /\ url.protocol = "http:"
        /\ url.hostname = "127.0.0.1"
        /\ url.parses = (Instance(file).port.whole /\ Instance(file).port.n \in 0 .. MaxPort)
    BY Zenon DEF GetTransportUrl
  <2>3. url.parses
    BY <1>3, <1>4, <2>1, <2>2, Zenon
  <2>4. "127.0.0.1" # "" /\ "http:" \in ValidProtocols
    BY DEF ValidProtocols
  <2> HIDE DEF url
  <2>5. ValidateTransportUrl(url)
    BY <2>2, <2>3, <2>4, Zenon DEF ValidateTransportUrl
  <2> QED BY <2>5 DEF url
<1> QED BY <1>5, <1>6

\* The two readers read the same of every file (GlobalInstanceManager.load and
\* DaemonInstanceDiscovery.readInstanceFile).
LEMMA ReadersAgree ==
    ASSUME NEW file \in Files
    PROVE  \/ /\ Load(file) = Instance(file) /\ ReadInstanceFile(file) = Instance(file)
              /\ ValidateTransportUrl(GetTransportUrl(Instance(file)))
           \/ Load(file) = NoInstance /\ ReadInstanceFile(file) = NoInstance
<1>1. CASE DaemonInstanceSchema(file)
  BY <1>1, SchemaIsEnough, Zenon DEF Load, ReadInstanceFile
<1>2. CASE ~DaemonInstanceSchema(file)
  BY <1>2, Zenon DEF Load, ReadInstanceFile
<1> QED BY <1>1, <1>2

\* The version changes the health of a healthy daemon alone (checkDaemonHealth).
LEMMA VersionComesLast ==
    ASSUME NEW machine, NEW outdated \in BOOLEAN
    PROVE  LET asked == CheckDaemonHealth(machine, outdated)
               plain == CheckDaemonHealth(machine, FALSE)
           IN  \/ plain \in {"pid_dead", "heartbeat_stale"} /\ asked = plain
               \/ plain = "healthy" /\ asked \in {"healthy", "daemon_outdated"}
<1>1. CASE ~IsProcessAlive(machine)
  BY <1>1 DEF CheckDaemonHealth
<1>2. CASE IsProcessAlive(machine) /\ IsHeartbeatStale(machine)
  BY <1>2 DEF CheckDaemonHealth
<1>3. CASE IsProcessAlive(machine) /\ ~IsHeartbeatStale(machine)
  BY <1>3 DEF CheckDaemonHealth
<1> QED BY <1>1, <1>2, <1>3

\* What ensureDaemonRunning() and connect() say of one machine.
Agree(said, found) ==
    LET error == ConnectThrows(found)
    IN  /\ found.found <=> said \in {"healthy", "daemon_outdated"}
        /\ error = CASE said = "no_instance" -> "NoInstanceRunningError"
                     [] said = "pid_dead" -> "InstanceCrashedError"
                     [] said = "heartbeat_stale" -> "InstanceStaleError"
                     [] OTHER -> "nothing"
        /\ ToServerStatus(found).running <=> error = "nothing"
        /\ found.found => ValidateTransportUrl(GetTransportUrl(found.instance))

LEMMA AnswersAgree ==
    ASSUME NEW machine, machine.file \in Files, NEW newer \in BOOLEAN, NEW dir
    PROVE  Agree(DiscoverDaemon(machine, newer), Discover(machine, dir))
<1> DEFINE file == machine.file
           outdated == newer /\ Load(file).version.type = "string"
           plain == CheckDaemonHealth(machine, FALSE)
           asked == CheckDaemonHealth(machine, outdated)
           said == DiscoverDaemon(machine, newer)
           found == Discover(machine, dir)
<1>1. CASE Load(file) = NoInstance /\ ReadInstanceFile(file) = NoInstance
  <2>1. NoInstance.found = FALSE
    BY DEF NoInstance
  <2>2. said = "no_instance"
    BY <1>1, <2>1, Zenon DEF DiscoverDaemon
  <2>3. found = [found |-> FALSE, reason |-> "no_instance"]
    BY <1>1, <2>1 DEF Discover
  <2> HIDE DEF said, found
  <2>4. Agree(said, found)
    BY <2>2, <2>3 DEF Agree, ConnectThrows, ToServerStatus
  <2> QED BY <2>4 DEF said, found
<1>2. CASE /\ Load(file) = Instance(file) /\ ReadInstanceFile(file) = Instance(file)
           /\ ValidateTransportUrl(GetTransportUrl(Instance(file)))
  <2>1. Instance(file).found = TRUE
    BY Zenon DEF Instance
  <2>2. said = asked
    BY <1>2, <2>1, Zenon DEF DiscoverDaemon
  <2>3. \/ plain \in {"pid_dead", "heartbeat_stale"} /\ asked = plain
        \/ plain = "healthy" /\ asked \in {"healthy", "daemon_outdated"}
    BY VersionComesLast, outdated \in BOOLEAN, Zenon
  <2>4. CASE plain = "healthy" /\ asked \in {"healthy", "daemon_outdated"}
    <3>1. found = [found |-> TRUE, instance |-> Instance(file),
                   projectRoot |-> dir]
      BY <1>2, <2>1, <2>4, Zenon DEF Discover
    <3>2. /\ found.found = TRUE /\ found.instance = Instance(file)
          /\ ConnectThrows(found) = "nothing" /\ ToServerStatus(found).running = TRUE
      <4> HIDE DEF found
      <4> QED BY <3>1 DEF ConnectThrows, ToServerStatus
    <3>3. ValidateTransportUrl(GetTransportUrl(found.instance))
      BY <1>2, <3>2, Zenon
    <3> HIDE DEF said, found, asked, plain
    <3>4. Agree(said, found)
      BY <2>2, <2>4, <3>2, <3>3 DEF Agree
    <3> QED BY <3>4 DEF said, found
  <2>5. CASE plain \in {"pid_dead", "heartbeat_stale"} /\ asked = plain
    <3>1. found = [found |-> FALSE, reason |-> Reason(plain)]
      <4>1. ReadInstanceFile(machine.file).found /\ plain # "healthy"
        BY <1>2, <2>1, <2>5
      <4> QED BY <4>1, Zenon DEF Discover
    <3> HIDE DEF said, found, asked, plain
    <3>2. Agree(said, found)
      BY <2>2, <2>5, <3>1 DEF Agree, ConnectThrows, ToServerStatus, Reason
    <3> QED BY <3>2 DEF said, found
  <2> QED BY <2>3, <2>4, <2>5
<1> QED BY <1>1, <1>2, ReadersAgree

\* ensureDaemonRunning() and connect() agree about every file, process and heartbeat
\* (daemon-discovery-sync.ts with the schema, daemon-instance-discovery.ts with the
\* schema and InstanceInfo.fromJson, client-factory.ts): connect() finds the
\* instance that discoverDaemon() finds, throws the error of the reason it gives,
\* and accepts the URL of every instance it finds.
THEOREM ReadersOfDaemonAgree == HelpersSpec => []DiscoveriesAgree
<1>1. HelpersInit => DiscoveriesAgree
  BY DEF HelpersInit, NoCall, Call, DiscoveriesAgree
<1>2. DiscoveriesAgree /\ [HelpersNext]_helpersVars => DiscoveriesAgree'
  <2> SUFFICES ASSUME DiscoveriesAgree, [HelpersNext]_helpersVars
               PROVE  DiscoveriesAgree'
    OBVIOUS
  <2>1. CASE call' = call
    BY <2>1 DEF DiscoveriesAgree
  <2>2. CASE Discovers
    <3>1. PICK machine \in Machines, newer \in BOOLEAN :
             call' = [of |-> "daemon", machine |-> machine, newer |-> newer,
                      sync |-> DiscoverDaemon(machine, newer),
                      async |-> Discover(machine, "a directory")]
      BY <2>2, Zenon DEF Discovers
    <3>2. machine.file \in Files
      BY DEF Machines
    <3>3. Agree(DiscoverDaemon(machine, newer), Discover(machine, "a directory"))
      BY <3>2, AnswersAgree, Zenon
    <3>4. /\ call'.sync = DiscoverDaemon(machine, newer)
          /\ call'.async = Discover(machine, "a directory")
      BY <3>1, Zenon
    <3>5. Agree(call'.sync, call'.async)
      BY <3>3, <3>4, Zenon
    <3> QED BY <3>5, Zenon DEF DiscoveriesAgree, Agree
  <2>3. CASE call'.of \in {"search", "freeze", "message"}
    <3>1. call'.of # "daemon"
      BY <2>3
    <3> QED BY <3>1, Zenon DEF DiscoveriesAgree
  <2> QED BY HelpersStep, <2>1, <2>2, <2>3
<1> QED BY <1>1, <1>2, PTL DEF HelpersSpec

-----------------------------------------------------------------------------
(* The searches *)

(* What was passed by is not what is looked for, and where a search ended   *)
(* it looked.                                                              *)
WalkInv ==
    /\ places \in Seq(Levels) /\ place \in 1 .. Len(places)
    /\ \A level \in 1 .. Len(places) : level > place => places[level] # "config"
    /\ outcome = "found" => places[place] = "config"
    /\ outcome = "nothing" => \A level \in 1 .. Len(places) : places[level] # "config"

PathInv ==
    /\ places \in Seq(Entries) /\ place \in 1 .. Len(places) + 1
    /\ \A entry \in 1 .. Len(places) : entry < place => places[entry] # "server"
    /\ outcome = "found" => place <= Len(places) /\ places[place] = "server"
    /\ outcome = "nothing" => place = Len(places) + 1

SearchesInv ==
    /\ search = "root" => WalkInv
    /\ search = "entry" => PathInv

\* A function from 1 .. n is a sequence.
LEMMA PlacesAreSequence ==
    ASSUME NEW S, NEW n \in Nat, NEW s \in [1 .. n -> S]
    PROVE  s \in Seq(S) /\ DOMAIN s = 1 .. n /\ Len(s) = n
OBVIOUS

LEMMA SearchesKept ==
    ASSUME SearchesInv,
           [FindProjectRoot \/ WalkUp \/ ResolveServerPath \/ TryEntry]_searchVars
    PROVE  SearchesInv'
<1>1. CASE FindProjectRoot
  <2>1. PICK depth \in 1 .. MaxPlaces : places' \in [1 .. depth -> Levels] /\ place' = depth
    BY <1>1 DEF FindProjectRoot
  <2>2. depth \in Nat /\ depth > 0
    BY <2>1, SearchesAssumption
  <2>3. places' \in Seq(Levels) /\ Len(places') = depth
    BY <2>1, <2>2, PlacesAreSequence
  <2>4. WalkInv' /\ search' = "root"
    BY <1>1, <2>1, <2>2, <2>3 DEF FindProjectRoot, WalkInv
  <2> QED BY <2>4 DEF SearchesInv
<1>2. CASE WalkUp
  <2>1. WalkInv /\ search = "root" /\ Len(places) \in Nat
    BY <1>2, LenProperties DEF WalkUp, WalkInv, SearchesInv
  <2>2. WalkInv' /\ search' = search
    <3>1. CASE IsProjectRoot(place) /\ Ends("found")
      BY <2>1, <3>1 DEF IsProjectRoot, Ends, WalkInv
    <3>2. CASE ~IsProjectRoot(place) /\ place = 1 /\ Ends("nothing")
      BY <2>1, <3>2 DEF IsProjectRoot, Ends, WalkInv
    <3>3. CASE ~IsProjectRoot(place) /\ place > 1 /\ Goes(place - 1)
      BY <1>2, <2>1, <3>3 DEF WalkUp, IsProjectRoot, Goes, WalkInv
    <3> QED BY <1>2, <3>1, <3>2, <3>3 DEF WalkUp
  <2> QED BY <2>1, <2>2 DEF SearchesInv
<1>3. CASE ResolveServerPath
  <2>1. PICK entries \in 1 .. MaxPlaces : places' \in [1 .. entries -> Entries]
    BY <1>3 DEF ResolveServerPath
  <2>2. entries \in Nat /\ entries > 0
    BY <2>1, SearchesAssumption
  <2>3. places' \in Seq(Entries) /\ Len(places') = entries
    BY <2>1, <2>2, PlacesAreSequence
  <2>4. PathInv' /\ search' = "entry"
    BY <1>3, <2>2, <2>3 DEF ResolveServerPath, PathInv
  <2> QED BY <2>4 DEF SearchesInv
<1>4. CASE TryEntry
  <2>1. PathInv /\ search = "entry" /\ Len(places) \in Nat
    BY <1>4, LenProperties DEF TryEntry, PathInv, SearchesInv
  <2>2. PathInv' /\ search' = search
    <3>1. CASE place > Len(places) /\ Ends("nothing")
      BY <2>1, <3>1 DEF Ends, PathInv
    <3>2. CASE place <= Len(places) /\ places[place] = "server" /\ Ends("found")
      BY <2>1, <3>2 DEF Ends, PathInv
    <3>3. CASE place <= Len(places) /\ places[place] # "server" /\ Goes(place + 1)
      BY <1>4, <2>1, <3>3 DEF TryEntry, Goes, PathInv
    <3> QED BY <1>4, <3>1, <3>2, <3>3 DEF TryEntry
  <2> QED BY <2>1, <2>2 DEF SearchesInv
<1>5. CASE UNCHANGED searchVars
  BY <1>5 DEF searchVars, SearchesInv, WalkInv, PathInv
<1> QED BY <1>1, <1>2, <1>3, <1>4, <1>5

LEMMA SearchesEnd ==
    ASSUME SearchesInv
    PROVE  NearestFound
<1>1. CASE search = "root"
  <2>1. WalkInv /\ DOMAIN places = 1 .. Len(places) /\ Len(places) \in Nat
    BY <1>1, LenProperties DEF SearchesInv, WalkInv
  <2> QED BY <1>1, <2>1 DEF WalkInv, NearestFound
<1>2. CASE search = "entry"
  <2>1. PathInv /\ DOMAIN places = 1 .. Len(places) /\ Len(places) \in Nat
    BY <1>2, LenProperties DEF SearchesInv, PathInv
  <2> QED BY <1>2, <2>1 DEF PathInv, NearestFound
<1>3. CASE search \notin {"root", "entry"}
  BY <1>3 DEF NearestFound
<1> QED BY <1>1, <1>2, <1>3

-----------------------------------------------------------------------------
(* deepFreeze *)

Visiting(o) == \E i \in 1 .. Len(stack) : stack[i] = o

(* What the objects under way hold was seen or is still to visit, each of   *)
(* them is on the stack once, and the others that were seen are frozen.    *)
FreezeTypes ==
    /\ before \subseteq Objects
    /\ root \subseteq seen /\ seen \subseteq Objects
    /\ stack \in Seq(Objects) /\ todo \in [Objects -> SUBSET Objects]

FreezeInv ==
    /\ FreezeTypes
    /\ seen \subseteq Reachable
    /\ \A o \in Objects : todo[o] \subseteq Held(o)
    /\ \A o \in seen : Held(o) \subseteq seen \cup todo[o]
    /\ \A o \in Objects : todo[o] # {} => Visiting(o)
    /\ \A o \in Objects : Visiting(o) => o \in seen
    /\ \A i, j \in 1 .. Len(stack) : stack[i] = stack[j] => i = j
    /\ frozen = before \cup {o \in seen : ~Visiting(o)}

\* What an object holds that can be reached can be reached.
LEMMA HeldReachable ==
    ASSUME NEW o \in Reachable, NEW held \in Held(o)
    PROVE  held \in Reachable
BY DEF Reachable, Held, Closed

\* A stack without its last element.
LEMMA FrontOf ==
    ASSUME NEW S, NEW s \in Seq(S), Len(s) > 0
    PROVE  /\ SubSeq(s, 1, Len(s) - 1) \in Seq(S)
           /\ Len(SubSeq(s, 1, Len(s) - 1)) = Len(s) - 1
           /\ \A i \in 1 .. Len(s) - 1 : SubSeq(s, 1, Len(s) - 1)[i] = s[i]
<1> DEFINE n == Len(s) - 1
<1>1. Len(s) \in Nat /\ \A i \in 1 .. Len(s) : s[i] \in S
  BY LenProperties, ElementOfSeq
<1>2. n \in Nat /\ \A i \in 1 .. n : s[i] \in S
  BY <1>1
<1> HIDE DEF n
<1>3. SubSeq(s, 1, n) \in Seq(S)
  BY <1>2, SubSeqProperties
<1>4. Len(SubSeq(s, 1, n)) = n
  BY <1>2, SubSeqProperties
<1>5. \A i \in 1 .. n : SubSeq(s, 1, n)[i] = s[i]
  BY <1>2, SubSeqProperties
<1> QED BY <1>3, <1>4, <1>5 DEF n

\* What the steps of freezeRecursive do to the stack of its calls.
LEMMA StackSteps ==
    ASSUME stack \in Seq(Objects)
    PROVE  /\ Len(stack) \in Nat
           /\ stack # <<>> => Current \in Objects /\ Visiting(Current) /\ Len(stack) > 0
           /\ \A o \in Objects : stack' = Append(stack, o) =>
                 /\ stack' \in Seq(Objects) /\ Len(stack') = Len(stack) + 1
                 /\ stack'[Len(stack) + 1] = o
                 /\ \A i \in 1 .. Len(stack) : stack'[i] = stack[i]
           /\ stack # <<>> /\ stack' = SubSeq(stack, 1, Len(stack) - 1) =>
                 /\ stack' \in Seq(Objects) /\ Len(stack') = Len(stack) - 1
                 /\ \A i \in 1 .. Len(stack) - 1 : stack'[i] = stack[i]
<1>1. Len(stack) \in Nat /\ \A i \in 1 .. Len(stack) : stack[i] \in Objects
  BY LenProperties, ElementOfSeq
<1>2. stack # <<>> => Len(stack) > 0
  BY <1>1, EmptySeq
<1>3. stack # <<>> => Current \in Objects /\ Visiting(Current)
  BY <1>1, <1>2 DEF Current, Visiting
<1>4. ASSUME NEW o \in Objects, stack' = Append(stack, o)
      PROVE  /\ stack' \in Seq(Objects) /\ Len(stack') = Len(stack) + 1
             /\ stack'[Len(stack) + 1] = o
             /\ \A i \in 1 .. Len(stack) : stack'[i] = stack[i]
  BY <1>4, AppendProperties
<1>5. ASSUME stack # <<>>, stack' = SubSeq(stack, 1, Len(stack) - 1)
      PROVE  /\ stack' \in Seq(Objects) /\ Len(stack') = Len(stack) - 1
             /\ \A i \in 1 .. Len(stack) - 1 : stack'[i] = stack[i]
  BY <1>2, <1>5, FrontOf
<1> QED BY <1>1, <1>2, <1>3, <1>4, <1>5

\* A value that has not been seen is pushed, with all it holds still to visit.
LEMMA FreezeKept ==
    ASSUME FreezeInv, [DeepFreeze \/ Visit \/ Freeze]_freezeVars
    PROVE  FreezeInv'
<1>0. /\ FreezeTypes /\ Len(stack) \in Nat
      /\ stack # <<>> => Current \in Objects /\ Visiting(Current) /\ Len(stack) > 0
  BY StackSteps DEF FreezeInv, FreezeTypes
<1>1. CASE DeepFreeze
  <2>1. PICK o \in Objects :
           /\ root' = {o} /\ seen' = {o} /\ stack' = <<o>>
           /\ todo' = [p \in Objects |-> IF p = o THEN Held(o)' ELSE {}]
    BY <1>1 DEF DeepFreeze
  <2>2. /\ before' \subseteq Objects /\ frozen' = before'
    BY <1>1 DEF DeepFreeze
  <2>3. /\ stack' \in Seq(Objects) /\ Len(stack') = 1 /\ stack'[1] = o
    BY <2>1
  <2>4. \A p \in Objects : Visiting(p)' <=> p = o
    BY <2>3 DEF Visiting
  <2>5. /\ todo' \in [Objects -> SUBSET Objects] /\ todo'[o] = Held(o)'
        /\ \A p \in Objects : p # o => todo'[p] = {}
    BY <2>1 DEF Held
  <2>6. o \in Reachable'
    BY <2>1 DEF Reachable
  <2> QED BY <2>1, <2>2, <2>3, <2>4, <2>5, <2>6 DEF FreezeInv, FreezeTypes
<1>2. CASE Visit
  <2>1. PICK o \in todo[Current] :
          LET rest == [todo EXCEPT ![Current] = @ \ {o}]
          IN  \/ /\ o \notin seen
                 /\ seen' = seen \cup {o} /\ stack' = Append(stack, o)
                 /\ todo' = [rest EXCEPT ![o] = Held(o)]
              \/ o \in seen /\ todo' = rest /\ UNCHANGED <<seen, stack>>
    BY <1>2 DEF Visit
  <2>2. /\ Current \in Objects /\ Visiting(Current) /\ Current \in seen
        /\ o \in Objects /\ o \in Held(Current) /\ o \in Reachable
    <3>1. Current \in Objects /\ Visiting(Current) /\ Current \in seen
      BY <1>0, <1>2 DEF Visit, FreezeInv
    <3>2. o \in Objects /\ o \in Held(Current)
      BY <1>0, <2>1, <3>1 DEF FreezeInv, FreezeTypes
    <3> QED BY <3>1, <3>2, HeldReachable DEF FreezeInv
  <2>3. /\ Reachable' = Reachable /\ \A p : Held(p)' = Held(p)
        /\ UNCHANGED <<before, root, frozen>>
    BY <1>2 DEF Visit, heapVars, Reachable, Held, Closed
  <2>4. CASE /\ o \notin seen
             /\ seen' = seen \cup {o} /\ stack' = Append(stack, o)
             /\ todo' = [[todo EXCEPT ![Current] = @ \ {o}] EXCEPT ![o] = Held(o)]
    <3>1. /\ stack' \in Seq(Objects) /\ Len(stack') = Len(stack) + 1
          /\ stack'[Len(stack) + 1] = o /\ \A i \in 1 .. Len(stack) : stack'[i] = stack[i]
      BY <1>0, <2>2, <2>4, StackSteps DEF FreezeTypes
    <3>2. ~Visiting(o)
      BY <2>2, <2>4 DEF FreezeInv
    <3>3. \A p \in Objects : Visiting(p)' <=> Visiting(p) \/ p = o
      BY <1>0, <3>1 DEF Visiting
    <3>4. /\ todo' \in [Objects -> SUBSET Objects] /\ todo'[o] = Held(o)
          /\ todo'[Current] = todo[Current] \ {o}
          /\ \A p \in Objects : p \notin {o, Current} => todo'[p] = todo[p]
      BY <1>0, <2>2, <2>4 DEF FreezeTypes, Held
    <3>5. \A i, j \in 1 .. Len(stack') : stack'[i] = stack'[j] => i = j
      <4>1. \A i \in 1 .. Len(stack) : stack'[i] # o
        BY <3>1, <3>2 DEF Visiting
      <4> QED BY <1>0, <3>1, <4>1 DEF FreezeInv
    <3>6. FreezeTypes'
      BY <1>0, <2>2, <2>3, <2>4, <3>1, <3>4 DEF FreezeTypes
    <3>7. /\ \A p \in Objects : todo'[p] \subseteq Held(p)'
          /\ \A p \in seen' : Held(p)' \subseteq seen' \cup todo'[p]
      BY <1>0, <2>2, <2>3, <2>4, <3>4 DEF FreezeInv, FreezeTypes
    <3>8. /\ \A p \in Objects : todo'[p] # {} => Visiting(p)'
          /\ \A p \in Objects : Visiting(p)' => p \in seen'
      BY <2>2, <2>4, <3>3, <3>4 DEF FreezeInv
    <3>9. frozen' = before' \cup {p \in seen' : ~Visiting(p)'}
      BY <1>0, <2>2, <2>3, <2>4, <3>3 DEF FreezeInv, FreezeTypes
    <3> QED BY <2>2, <2>3, <2>4, <3>5, <3>6, <3>7, <3>8, <3>9 DEF FreezeInv
  <2>5. CASE /\ o \in seen /\ todo' = [todo EXCEPT ![Current] = @ \ {o}]
             /\ UNCHANGED <<seen, stack>>
    <3>1. /\ todo' \in [Objects -> SUBSET Objects]
          /\ todo'[Current] = todo[Current] \ {o}
          /\ \A p \in Objects : p # Current => todo'[p] = todo[p]
      BY <1>0, <2>2, <2>5 DEF FreezeTypes
    <3>2. \A p : Visiting(p)' <=> Visiting(p)
      BY <2>5 DEF Visiting
    <3>3. FreezeTypes'
      BY <1>0, <2>3, <2>5, <3>1 DEF FreezeTypes
    <3>4. /\ \A p \in Objects : todo'[p] \subseteq Held(p)'
          /\ \A p \in seen' : Held(p)' \subseteq seen' \cup todo'[p]
          /\ \A p \in Objects : todo'[p] # {} => Visiting(p)'
      BY <1>0, <2>2, <2>3, <2>5, <3>1, <3>2 DEF FreezeInv, FreezeTypes
    <3>5. frozen' = before' \cup {p \in seen' : ~Visiting(p)'}
      BY <2>3, <2>5, <3>2 DEF FreezeInv
    <3> QED BY <2>3, <2>5, <3>2, <3>3, <3>4, <3>5 DEF FreezeInv
  <2> QED BY <2>1, <2>4, <2>5
<1>3. CASE Freeze
  <2>1. /\ stack # <<>> /\ todo[Current] = {} /\ frozen' = frozen \cup {Current}
        /\ stack' = SubSeq(stack, 1, Len(stack) - 1) /\ UNCHANGED <<seen, todo>>
    BY <1>3 DEF Freeze
  <2>2. /\ Reachable' = Reachable /\ \A p : Held(p)' = Held(p) /\ UNCHANGED <<before, root>>
    BY <1>3 DEF Freeze, heapVars, Reachable, Held, Closed
  <2>3. /\ stack' \in Seq(Objects) /\ Len(stack') = Len(stack) - 1 /\ Len(stack) > 0
        /\ \A i \in 1 .. Len(stack) - 1 : stack'[i] = stack[i]
    BY <1>0, <2>1, StackSteps DEF FreezeTypes
  <2>4. \A p \in Objects : Visiting(p)' <=> Visiting(p) /\ p # Current
    BY <1>0, <2>3 DEF Visiting, Current, FreezeInv
  <2>5. Current \in Objects /\ Current \in seen
    BY <1>0, <2>1 DEF FreezeInv
  <2>6. FreezeTypes'
    BY <1>0, <2>1, <2>2, <2>3 DEF FreezeTypes
  <2>7. \A i, j \in 1 .. Len(stack') : stack'[i] = stack'[j] => i = j
    BY <1>0, <2>3 DEF FreezeInv
  <2>8. frozen' = before' \cup {p \in seen' : ~Visiting(p)'}
    BY <1>0, <2>1, <2>2, <2>4, <2>5 DEF FreezeInv, FreezeTypes
  <2>9. /\ \A p \in Objects : todo'[p] # {} => Visiting(p)'
        /\ \A p \in Objects : Visiting(p)' => p \in seen'
    BY <2>1, <2>4 DEF FreezeInv
  <2> QED BY <2>1, <2>2, <2>6, <2>7, <2>8, <2>9 DEF FreezeInv
<1>4. CASE UNCHANGED freezeVars
  <2>1. /\ Reachable' = Reachable /\ \A p : Held(p)' = Held(p)
        /\ \A p : Visiting(p)' <=> Visiting(p)
        /\ UNCHANGED <<before, root, frozen, seen, stack, todo>>
    BY <1>4 DEF freezeVars, heapVars, Reachable, Held, Closed, Visiting
  <2> QED BY <2>1 DEF FreezeInv, FreezeTypes
<1> QED BY <1>1, <1>2, <1>3, <1>4

\* When nothing is under way, what was seen is closed: it is what can be reached.
LEMMA FreezeEnds ==
    ASSUME FreezeInv
    PROVE  FrozenDeeply
<1> SUFFICES ASSUME stack = <<>>
             PROVE  frozen = before \cup Reachable
  BY DEF FrozenDeeply
<1>1. \A o \in Objects : ~Visiting(o)
  BY DEF Visiting
<1>2. Closed(seen) /\ root \subseteq seen /\ seen \in SUBSET Objects
  BY <1>1 DEF Closed, FreezeInv, FreezeTypes
<1>3. Reachable \subseteq seen
  BY <1>2 DEF Reachable
<1>4. frozen = before \cup seen
  BY <1>1, <1>2 DEF FreezeInv
<1> QED BY <1>3, <1>4 DEF FreezeInv

\* The searches of the library end at the nearest and the first place, and deepFreeze
\* with all that can be reached frozen and nothing else, for every directory, PATH
\* and heap of any size (find-project-root.ts, resolve-server-path.ts, deep-freeze.ts).
THEOREM SearchesAreRight == HelpersSpec => []SearchesEndRight
<1>1. HelpersInit => SearchesInv /\ FreezeInv
  <2>1. HelpersInit => SearchesInv
    BY DEF HelpersInit, SearchesInit, SearchesInv
  <2>2. HelpersInit => FreezeInv
    <3> SUFFICES ASSUME FreezeInit PROVE FreezeInv
      BY DEF HelpersInit
    <3>1. /\ seen = {} /\ before = {} /\ root = {} /\ frozen = {} /\ stack = <<>>
          /\ todo \in [Objects -> SUBSET Objects] /\ \A o \in Objects : todo[o] = {}
      BY DEF FreezeInit
    <3>2. stack \in Seq(Objects) /\ Len(stack) = 0 /\ \A o : ~Visiting(o)
      BY <3>1 DEF Visiting
    <3> QED BY <3>1, <3>2 DEF FreezeInv, FreezeTypes
  <2> QED BY <2>1, <2>2
<1>2. SearchesInv /\ FreezeInv /\ [HelpersNext]_helpersVars => SearchesInv' /\ FreezeInv'
  BY HelpersStep, SearchesKept, FreezeKept
<1>3. SearchesInv /\ FreezeInv => SearchesEndRight
  BY SearchesEnd, FreezeEnds DEF SearchesEndRight
<1> QED BY <1>1, <1>2, <1>3, PTL DEF HelpersSpec

-----------------------------------------------------------------------------
(* The delivery of a message *)

(* The loop has passed by no entry that was neither called nor deleted, it  *)
(* called none that it has not come to, and the errors of all that threw   *)
(* were told.                                                              *)
ToldToAll(who) ==
    ToldOf(who) \in callbacks =>
        \A entry \in Nat : <<ToldOf(who), entry>> \in called <=> <<who, entry>> \in thrown

DeliveryInv ==
    /\ subscribed \in Nat /\ at \in 0 .. subscribed
    /\ turn = "none" => at = 0 /\ called = {} /\ thrown = {}
    /\ \A entry \in 1 .. at : entry \in gone \/ <<"handler", entry>> \in called
    /\ \A entry \in Nat : <<"handler", entry>> \in called => entry <= at
    /\ ToldToAll("handler") /\ ToldToAll("onHandlerError")

\* The errors of handlers and callbacks go to different callbacks.
LEMMA ToldOfEach ==
    /\ ToldOf("handler") = "onHandlerError"
    /\ ToldOf("onHandlerError") = "onCallbackError"
    /\ ToldOf("onCallbackError") = "log"
    /\ "log" \notin Programs
BY DEF ToldOf, Programs, Callbacks

\* A program that throws is told of, or nobody asked to be.
LEMMA ThrowsAreTold ==
    ASSUME DeliveryInv, Throws, NEW who \in {"handler", "onHandlerError"}
    PROVE  ToldToAll(who)'
<1>1. /\ turn \in Programs /\ thrown' = thrown \cup {<<turn, at>>}
      /\ \/ ToldOf(turn) \in callbacks /\ called' = called \cup {<<ToldOf(turn), at>>}
         \/ ToldOf(turn) \notin callbacks /\ called' = called
      /\ callbacks' = callbacks
  BY DEF Throws, Calls
<1>2. ToldToAll(who)
  BY DEF DeliveryInv
<1>3. turn \in {"handler", "onHandlerError", "onCallbackError"}
  BY <1>1 DEF Programs, Callbacks
<1>4. \A one \in {"handler", "onHandlerError"}, other \in Programs :
         ToldOf(one) = ToldOf(other) <=> one = other
  BY ToldOfEach DEF Programs, Callbacks
<1>5. SUFFICES ASSUME ToldOf(who) \in callbacks, NEW entry \in Nat
               PROVE  <<ToldOf(who), entry>> \in called' <=> <<who, entry>> \in thrown'
  BY <1>1 DEF ToldToAll
<1>6. <<ToldOf(who), entry>> \in called <=> <<who, entry>> \in thrown
  BY <1>2, <1>5 DEF ToldToAll
<1>7. CASE who = turn
  BY <1>1, <1>5, <1>6, <1>7
<1>8. CASE who # turn
  <2>1. ToldOf(who) # ToldOf(turn)
    BY <1>1, <1>4, <1>8
  <2> QED BY <1>1, <1>6, <1>8, <2>1
<1> QED BY <1>7, <1>8

LEMMA DeliveryKept ==
    ASSUME DeliveryInv, [MessageArrives \/ DeliveryNext]_deliveryVars
    PROVE  DeliveryInv'
<1> USE DEF DeliveryInv
<1>1. CASE MessageArrives
  <2>1. subscribed' \in Nat
    BY <1>1, DeliveryAssumption DEF MessageArrives
  <2> QED BY <1>1, <2>1 DEF MessageArrives, ToldToAll
<1>2. CASE NextTurn
  <2>1. PICK entry \in Rest : /\ \A other \in Rest : entry <= other
                              /\ at' = entry /\ called' = called \cup {<<"handler", entry>>}
    BY <1>2 DEF NextTurn, Calls
  <2>2. /\ UNCHANGED <<subscribed, gone, callbacks, thrown>>
        /\ turn' = "handler"
    BY <1>2 DEF NextTurn, Calls, setVars
  <2>3. /\ entry \in at + 1 .. subscribed /\ entry \in Nat
        /\ \A other \in at + 1 .. entry - 1 : other \in gone
    BY <2>1 DEF Rest
  <2>4. \A passed \in 1 .. entry : passed \in gone' \/ <<"handler", passed>> \in called'
    <3> SUFFICES ASSUME NEW passed \in 1 .. entry
                 PROVE  passed \in gone' \/ <<"handler", passed>> \in called'
      OBVIOUS
    <3>1. passed \in 1 .. at \/ passed \in at + 1 .. entry - 1 \/ passed = entry
      BY <2>3
    <3> QED BY <2>1, <2>2, <2>3, <3>1
  <2>5. \A other \in Nat : <<"handler", other>> \in called' => other <= entry
    BY <2>1, <2>3
  <2>6. ToldToAll("handler")' /\ ToldToAll("onHandlerError")'
    BY <2>1, <2>2, ToldOfEach DEF ToldToAll
  <2> QED BY <2>1, <2>2, <2>3, <2>4, <2>5, <2>6
<1>3. CASE DispatchEnds
  BY <1>3 DEF DispatchEnds, setVars, ToldToAll
<1>4. CASE Subscribes
  BY <1>4 DEF Subscribes, Programs, Callbacks, ToldToAll
<1>5. CASE Unsubscribes
  <2>1. PICK entry : gone' = gone \cup {entry}
    BY <1>5 DEF Unsubscribes
  <2> QED BY <1>5, <2>1 DEF Unsubscribes, Programs, Callbacks, ToldToAll
<1>6. CASE ClearAllHandlers
  BY <1>6 DEF ClearAllHandlers, Programs, Callbacks, ToldToAll
<1>7. CASE Returns
  BY <1>7 DEF Returns, setVars, ToldToAll
<1>8. CASE Throws
  <2>1. ToldToAll("handler")' /\ ToldToAll("onHandlerError")'
    BY <1>8, ThrowsAreTold
  <2>2. /\ UNCHANGED <<subscribed, gone, at>> /\ called \subseteq called'
        /\ turn' # "none"
        /\ \A entry : <<"handler", entry>> \in called' => <<"handler", entry>> \in called
    BY <1>8, ToldOfEach DEF Throws, Calls, setVars, Programs, Callbacks
  <2> QED BY <2>1, <2>2
<1>9. CASE UNCHANGED deliveryVars
  BY <1>9 DEF deliveryVars, setVars, ToldToAll
<1> QED BY <1>1, <1>2, <1>3, <1>4, <1>5, <1>6, <1>7, <1>8, <1>9 DEF DeliveryNext

\* A message reaches its handlers once each (the dispatch listener and
\* wrapHandlerWithErrorHandling in event-dispatcher.ts), in the order they were
\* subscribed, whatever handlers and callbacks subscribe, unsubscribe, clear and
\* throw in their turns, for any number of subscriptions.
THEOREM MessagesAreDelivered == HelpersSpec => DeliveredOnce
<1> DEFINE Calling ==
              /\ at' \notin gone /\ <<"handler", at'>> \notin called
              /\ \A entry \in 1 .. at' - 1 : entry \in gone \/ <<"handler", entry>> \in called
           Ending ==
              /\ \A entry \in 1 .. subscribed :
                    entry \in gone \/ <<"handler", entry>> \in called
              /\ Told("handler") /\ Told("onHandlerError")
           Delivers == (at' # at => Calling) /\ (turn' = "ended" => Ending)
<1>1. HelpersInit => DeliveryInv
  BY DEF HelpersInit, DeliveryInit, DeliveryInv, ToldToAll
<1>2. DeliveryInv /\ [HelpersNext]_helpersVars => DeliveryInv'
  BY HelpersStep, DeliveryKept
<1>3. ASSUME DeliveryInv, MessageArrives \/ DeliveryNext
      PROVE  at' # at => Calling
  <2>1. CASE NextTurn
    <3>1. PICK next \in Rest : at' = next /\ \A other \in Rest : next <= other
      BY <2>1 DEF NextTurn
    <3>2. at \in Nat /\ subscribed \in Nat
      BY <1>3 DEF DeliveryInv
    <3>3. /\ next \in at + 1 .. subscribed /\ next \in Nat /\ next \notin gone
          /\ \A other \in at + 1 .. next - 1 : other \in gone
      BY <3>1, <3>2 DEF Rest
    <3>4. <<"handler", next>> \notin called
      BY <1>3, <3>2, <3>3 DEF DeliveryInv
    <3>5. ASSUME NEW entry \in 1 .. next - 1
          PROVE  entry \in gone \/ <<"handler", entry>> \in called
      <4>1. entry \in 1 .. at \/ entry \in at + 1 .. next - 1
        BY <3>2, <3>3
      <4> QED BY <1>3, <3>3, <4>1 DEF DeliveryInv
    <3> QED BY <3>1, <3>3, <3>4, <3>5
  <2>2. CASE ~NextTurn
    BY <1>3, <2>2 DEF MessageArrives, DeliveryNext, DispatchEnds, Subscribes, Unsubscribes,
                      ClearAllHandlers, Returns, Throws
  <2> QED BY <2>1, <2>2
<1>4. ASSUME DeliveryInv, MessageArrives \/ DeliveryNext
      PROVE  turn' = "ended" => Ending
  <2>1. CASE DispatchEnds
    <3>1. Rest = {} /\ at \in Nat /\ subscribed \in Nat
      BY <1>4, <2>1 DEF DispatchEnds, DeliveryInv
    <3>2. ASSUME NEW entry \in 1 .. subscribed
          PROVE  entry \in gone \/ <<"handler", entry>> \in called
      <4>1. entry \in 1 .. at \/ entry \in at + 1 .. subscribed
        BY <3>1
      <4> QED BY <1>4, <3>1, <4>1 DEF DeliveryInv, Rest
    <3>3. Told("handler") /\ Told("onHandlerError")
      BY <1>4, <3>1 DEF DeliveryInv, Told, ToldToAll
    <3> QED BY <3>2, <3>3
  <2>2. CASE ~DispatchEnds
    <3>1. turn' # "ended"
      BY <1>4, <2>2, ToldOfEach
         DEF MessageArrives, DeliveryNext, NextTurn, Calls, Subscribes, Unsubscribes,
             ClearAllHandlers, Returns, Throws, Programs, Callbacks
    <3> QED BY <3>1
  <2> QED BY <2>1, <2>2
<1>5. DeliveryInv /\ [HelpersNext]_helpersVars => [Delivers]_deliveryVars
  <2> HIDE DEF Calling, Ending
  <2> QED BY <1>3, <1>4, HelpersStep
<1> QED BY <1>1, <1>2, <1>5, PTL DEF HelpersSpec, DeliveredOnce

=============================================================================
