--------------------------------- MODULE Timers ---------------------------------
(***************************************************************************)
(* The part of the client that works by the clock: the strategy of the     *)
(* force attempts (reconnection-strategy.ts) with the manager's timer      *)
(* (force-reconnect-manager.ts), and the wake detector (wake-detector.ts), *)
(* while the machine may sleep and the event loop may be late.             *)
(*                                                                         *)
(* Times are in units of the clock.  While the client is connected nothing *)
(* is scheduled; every attempt takes no time and fails or succeeds.        *)
(* Its URL is valid: an attempt that the validator turns down before it    *)
(* cancels anything is TransportClient's matter (ForceAttemptRejected).    *)
(***************************************************************************)
EXTENDS Integers, Sequences

CONSTANTS
    Delays,             \* the strategy's delays
    MaxAttempts,        \* its maxAttempts
    MaxTotalTime,       \* its maxTotalTimeMs
    Jitter,             \* its jitterFactor, in percent
    CheckInterval,      \* the detector's checkIntervalMs
    Threshold,          \* the detector's thresholdMs
    Randoms,            \* bound: values of Math.random(), in percent
    MaxSleep, MaxLate,  \* bounds: how long the machine sleeps, a timer is late
    MaxTime             \* bound: the clock

Positive == Nat \ {0}

ASSUME TimersAssumption ==
    /\ Delays \in Seq(Positive) /\ Delays # <<>>
    /\ MaxAttempts \in Positive /\ MaxTotalTime \in Positive
    /\ Jitter \in 0 .. 100 /\ Randoms \subseteq 0 .. 99
    /\ CheckInterval \in Positive /\ Threshold \in Positive
    /\ MaxSleep \in Nat /\ MaxLate \in Nat /\ MaxTime \in Nat

VARIABLES
    now,
    connection,     \* "closed" by the program, "up", or "down"
    startedAt,      \* the strategy's #startedAt
    attempt,        \* the manager's #attempt
    timer,          \* when the manager's timer is due
    lastCheckTime,  \* the detector's #lastCheckTime
    checkDue,       \* when the detector's interval is due
    slept,          \* history: sleep since the last check or start
    noticed,        \* history: the last check saw a wake-up
    dozed           \* history: sleep since the manager's timer was set

strategyVars == <<startedAt, attempt, timer, dozed>>
detectorVars == <<lastCheckTime, checkDue, slept, noticed>>
timerVars == <<now, connection, strategyVars, detectorVars>>

Never == MaxTime + MaxSleep + MaxLate + 1000
Unset == -1

TimersInit ==
    /\ now = 1 /\ connection = "closed"
    /\ startedAt = Unset /\ attempt = 0 /\ timer = Never
    /\ lastCheckTime = 0 /\ checkDue = Never
    /\ slept = 0 /\ noticed = FALSE
    /\ dozed = 0

-----------------------------------------------------------------------------
(* ExponentialBackoffStrategy *)

\* ensureStarted(): the first question to the strategy starts its time.
Started == IF startedAt = Unset THEN now ELSE startedAt

ShouldContinue(a) == a < MaxAttempts /\ now - Started < MaxTotalTime

\* Attempts beyond the list use its last delay; the jitter only shortens.
GetDelay(a, random) ==
    LET index == IF a < Len(Delays) THEN a + 1 ELSE Len(Delays)
    IN  (Delays[index] * (10000 - 100 * Jitter + random * Jitter)) \div 10000

-----------------------------------------------------------------------------
(* ForceReconnectManager *)

\* schedule() for attempt number a, when no timer is pending.
Schedule(a) ==
    /\ attempt' = a
    /\ dozed' = 0
    /\ startedAt' = Started
    /\ IF ShouldContinue(a)
       THEN \E random \in Randoms : timer' = now + GetDelay(a, random)
       ELSE timer' = Never

Reset ==
    /\ attempt' = 0 /\ startedAt' = Unset /\ timer' = Never
    /\ dozed' = 0

\* restart(), or cancel() with schedule() after it: the counter and the strategy's
\* time start again.
Restart ==
    /\ attempt' = 0
    /\ startedAt' = now
    /\ dozed' = 0
    /\ \E random \in Randoms : timer' = now + GetDelay(0, random)

-----------------------------------------------------------------------------
(* TimeBasedWakeDetector *)

MutStart ==
    /\ checkDue' = now + CheckInterval
    /\ slept' = 0
    /\ UNCHANGED <<lastCheckTime, noticed>>

\* stop() and start(), at every connection.
Start ==
    /\ lastCheckTime' = now
    /\ checkDue' = now + CheckInterval
    /\ slept' = 0
    /\ UNCHANGED noticed

Stop ==
    /\ lastCheckTime' = 0
    /\ checkDue' = Never
    /\ slept' = 0
    /\ UNCHANGED noticed

\* A check that finds more time gone than its interval and the threshold has
\* noticed a wake-up: a client that is down starts its attempts again.
CheckForWake ==
    /\ checkDue <= now
    /\ lastCheckTime' = now
    /\ checkDue' = now + CheckInterval
    /\ slept' = 0
    /\ noticed' = (now - lastCheckTime > CheckInterval + Threshold)
    /\ IF noticed' /\ connection = "down"
       THEN Restart
       ELSE UNCHANGED strategyVars
    /\ UNCHANGED <<now, connection>>

-----------------------------------------------------------------------------
(* The client *)

\* connect() of the program, which cancels the attempts, and succeeds.
Connect ==
    /\ connection # "up"
    /\ connection' = "up"
    /\ Reset
    /\ Start
    /\ UNCHANGED now

Disconnect ==
    /\ connection = "up"
    /\ connection' = "closed"
    /\ Reset
    /\ Stop
    /\ UNCHANGED now

\* reconnect_failed: tier 1 gave up, the first attempt is scheduled.
ReconnectFailed ==
    /\ connection = "up"
    /\ connection' = "down"
    /\ Schedule(attempt)
    /\ UNCHANGED <<now, detectorVars>>

MutAttemptFails ==
    /\ timer <= now
    /\ ShouldContinue(attempt)
    /\ Schedule(attempt + 1)
    /\ UNCHANGED <<now, connection, detectorVars>>

\* The timer fires and the attempt fails.  The attempt is a connect(), which cancels
\* the manager that makes it; the next attempt is scheduled after that.
AttemptFails ==
    /\ timer <= now
    /\ ShouldContinue(attempt)
    /\ Restart
    /\ UNCHANGED <<now, connection, detectorVars>>

AttemptSucceeds ==
    /\ timer <= now
    /\ ShouldContinue(attempt)
    /\ connection' = "up"
    /\ Reset
    /\ Start
    /\ UNCHANGED now

\* The time was used up while the timer ran.
GivesUp ==
    /\ timer <= now
    /\ ~ShouldContinue(attempt)
    /\ attempt' = attempt + 1
    /\ timer' = Never
    /\ dozed' = 0
    /\ UNCHANGED <<startedAt, now, connection, detectorVars>>

-----------------------------------------------------------------------------
(* The clock *)

\* The event loop runs a timer at most MaxLate after it is due.
Tick ==
    /\ now < MaxTime
    /\ now < timer + MaxLate /\ now < checkDue + MaxLate
    /\ now' = now + 1
    /\ UNCHANGED <<connection, strategyVars, detectorVars>>

\* The machine sleeps.  Whether Node's timers count that time is up to the
\* platform; Date.now() does.
Sleep ==
    /\ \E time \in 1 .. MaxSleep :
          /\ now' = now + time
          /\ now' <= MaxTime
          /\ slept' = slept + time
          /\ \E shift \in {0, time} :
                /\ timer' = IF timer = Never THEN Never ELSE timer + shift
                /\ checkDue' = IF checkDue = Never THEN Never ELSE checkDue + shift
          /\ dozed' = IF timer = Never THEN 0 ELSE dozed + time
    /\ UNCHANGED <<connection, startedAt, attempt, lastCheckTime, noticed>>

TimersNext ==
    \/ Connect \/ Disconnect \/ ReconnectFailed
    \/ AttemptFails \/ AttemptSucceeds \/ GivesUp
    \/ CheckForWake \/ Tick \/ Sleep

-----------------------------------------------------------------------------
(* Properties *)

\* A machine that slept longer than the interval and the threshold together is
\* noticed by the next check, wherever in the interval it fell asleep and whether
\* or not the timers slept with it; and a check that notices anything follows a
\* sleep longer than the threshold, up to the lateness of the event loop.
WakesNoticed ==
    [][CheckForWake =>
          /\ slept > CheckInterval + Threshold => noticed'
          /\ noticed' => slept + MaxLate > Threshold]_timerVars

\* Attempts keep pace however the machine sleeps: the timer fires no earlier than the
\* shortest first delay after it was set and no later than the longest one, up to the
\* lateness of the event loop and the time slept.  So an outage is tried at the first
\* delay for ever, and the client gives up only if one wait used up the total time.
AttemptsPaced ==
    [][AttemptFails \/ AttemptSucceeds \/ GivesUp =>
          LET longest == Delays[1] + MaxLate + dozed
          IN  /\ now - startedAt \in GetDelay(0, 0) .. longest
              /\ GivesUp => longest >= MaxTotalTime]_timerVars

=============================================================================
