-------------------------- MODULE TransportClient --------------------------
(***************************************************************************)
(* The lifecycle of a TransportClient (infra/socket-io-client.ts) with the *)
(* two managers it owns, ConnectionStateManager and ForceReconnectManager, *)
(* and its three tiers of reconnection:                                    *)
(*   tier 1  Socket.IO's built-in reconnection of the same socket;         *)
(*   tier 2  ForceReconnectManager, which replaces the socket;             *)
(*   tier 3  the server URL resolver, which discovers a new URL.           *)
(*                                                                         *)
(* One action is one turn of the event loop: a call of the program, a      *)
(* timer, a socket or manager event or a settled promise, with everything  *)
(* the handler does synchronously and in the microtasks it queues.         *)
(* Event handlers and rooms are added by the modules that compose this     *)
(* one; logging, delays and payloads are left out.                         *)
(***************************************************************************)
EXTENDS Naturals

CONSTANTS
    ValidUrls,      \* URLs validateTransportUrl accepts
    BadUrls,        \* what a resolver may return and it rejects
    MaxAttempts,    \* maxAttempts of the reconnection strategy
    TimeLimited,    \* the strategy has a maxTotalTimeMs
    MaxResolvers,   \* bound: resolver calls outstanding at once
    MaxOrphans      \* bound: URL timers that lost their handle

NoUrl == "no url"

ASSUME ParametersAssumption ==
    /\ ValidUrls # {}
    /\ ValidUrls \cap BadUrls = {}
    /\ NoUrl \notin ValidUrls \cup BadUrls
    /\ MaxAttempts \in Nat \ {0}
    /\ TimeLimited \in BOOLEAN
    /\ MaxResolvers \in Nat
    /\ MaxOrphans \in Nat

VARIABLES
    connState,          \* ConnectionStateManager.#state
    link,               \* the current socket, as Socket.IO drives it
    persistentHandlersRegistered,
    wired,              \* the current socket has the persistent handlers
    connectPromise,     \* #connectPromise: who holds it, or that it never settles
    initialConnectInProgress,
    serverUrl,
    attempt,            \* ForceReconnectManager.#attempt
    scheduled,          \* ForceReconnectManager.#isScheduled
    budget,             \* the strategy's time: not started, running or used up
    serverUrlResolver,  \* a resolver was set
    resolving,          \* resolver calls that have not answered
    urlResolveTimer,    \* the timer #urlResolveTimer refers to is pending
    orphanTimers,       \* pending URL timers #urlResolveTimer no longer refers to
    wakeSubscribed,     \* #wakeUnsubscribe is set and the detector runs
    reconnectWait,      \* the socket a reconnect handler waits for, if one does
    closeRequest,       \* history: how the program's last disconnect() ended
    uncaught            \* history: an error escaped to the event loop

stateVars == <<connState, uncaught>>
socketVars == <<link, persistentHandlersRegistered, wired, reconnectWait>>
connectVars == <<connectPromise, initialConnectInProgress>>
forceVars == <<attempt, scheduled, budget>>
resolveVars == <<resolving, urlResolveTimer, orphanTimers>>
vars == <<stateVars, socketVars, connectVars, serverUrl, forceVars, resolveVars,
          serverUrlResolver, wakeSubscribed, closeRequest>>

ConnStates == {"disconnected", "connecting", "connected", "reconnecting"}

(* "opening": the first handshake; "up": socket.connected; "retrying": the   *)
(* engine is closed and the manager reopens it; "handshake": the engine is   *)
(* open again and the namespace is not joined yet; "dead": nothing reopens   *)
(* it (server-side disconnect, attempts used up).                            *)
Links == {"none", "opening", "up", "retrying", "handshake", "dead"}

TypeOK ==
    /\ connState \in ConnStates
    /\ link \in Links
    /\ persistentHandlersRegistered \in BOOLEAN
    /\ wired \in BOOLEAN
    /\ connectPromise \in {"none", "user", "force", "hung"}
    /\ initialConnectInProgress \in BOOLEAN
    /\ serverUrl \in ValidUrls \cup BadUrls \cup {NoUrl}
    /\ attempt \in 0 .. MaxAttempts
    /\ scheduled \in BOOLEAN
    /\ budget \in {"unset", "running", "spent"}
    /\ serverUrlResolver \in BOOLEAN
    /\ resolving \in 0 .. MaxResolvers
    /\ urlResolveTimer \in BOOLEAN
    /\ orphanTimers \in 0 .. MaxOrphans
    /\ wakeSubscribed \in BOOLEAN
    /\ reconnectWait \in {"none", "current", "stale"}
    /\ closeRequest \in {"none", "ignored", "leaky", "done"}
    /\ uncaught \in BOOLEAN

Init ==
    /\ connState = "disconnected"
    /\ link = "none"
    /\ persistentHandlersRegistered = FALSE
    /\ wired = FALSE
    /\ connectPromise = "none"
    /\ initialConnectInProgress = FALSE
    /\ serverUrl = NoUrl
    /\ attempt = 0
    /\ scheduled = FALSE
    /\ budget = "unset"
    /\ serverUrlResolver = FALSE
    /\ resolving = 0
    /\ urlResolveTimer = FALSE
    /\ orphanTimers = 0
    /\ wakeSubscribed = FALSE
    /\ reconnectWait = "none"
    /\ closeRequest = "none"
    /\ uncaught = FALSE

-----------------------------------------------------------------------------
(* ConnectionStateManager *)

ValidTransitions ==
    [disconnected |-> {"connecting"},
     connecting   |-> {"connected", "disconnected"},
     connected    |-> {"reconnecting", "disconnected"},
     reconnecting |-> {"connected", "disconnected"}]

CanSetState(new) == new = connState \/ new \in ValidTransitions[connState]

\* setState(new) called from a handler nobody catches for: an invalid
\* transition changes nothing and its error escapes to the event loop.
SetState(new) ==
    IF CanSetState(new)
    THEN connState' = new /\ UNCHANGED uncaught
    ELSE uncaught' = TRUE /\ UNCHANGED connState

-----------------------------------------------------------------------------
(* ForceReconnectManager and tier 3 *)

MutShouldContinue(a) == a <= MaxAttempts /\ budget # "spent"

\* ExponentialBackoffStrategy.shouldContinue, for the attempt number a.
ShouldContinue(a) == a < MaxAttempts /\ budget # "spent"

\* ensureStarted(), which every question to the strategy begins with.
EnsureStarted == budget' = IF budget = "unset" THEN "running" ELSE budget

Cancel == attempt' = 0 /\ scheduled' = FALSE /\ budget' = "unset"

\* restart(): the strategy starts afresh, so attempt 0 always gets a delay.
Restart == attempt' = 0 /\ scheduled' = TRUE /\ budget' = "running"

\* onExhausted, and the URL timers: call the resolver unless none is set or
\* the client is not disconnected.
HandleServerUrlResolve(state) ==
    IF serverUrlResolver /\ state = "disconnected"
    THEN resolving < MaxResolvers /\ resolving' = resolving + 1
    ELSE UNCHANGED resolving

\* schedule() with attempt counter a, when no timer is pending.
ScheduleNew(a) ==
    /\ attempt' = a
    /\ EnsureStarted
    /\ IF ShouldContinue(a)
       THEN scheduled' = TRUE /\ UNCHANGED resolving
       ELSE scheduled' = FALSE /\ HandleServerUrlResolve("disconnected")

Schedule == IF scheduled THEN UNCHANGED <<forceVars, resolving>>
                         ELSE ScheduleNew(attempt)

MutAttemptRejected == UNCHANGED <<forceVars, resolving>>

\* executeAttempt's catch, when the connection that failed was its own.
AttemptRejected ==
    IF connectPromise = "force" THEN Schedule ELSE UNCHANGED <<forceVars, resolving>>

-----------------------------------------------------------------------------
(* connect() and establishConnection() *)

\* A reconnect handler that waits on the current socket finds it replaced.
SupersededWait == IF reconnectWait = "current" THEN "stale" ELSE reconnectWait

MutRegisteredAfterCleanup == persistentHandlersRegistered

\* The flag after cleanupExistingSocket(), onConnectError or disconnect() let go
\* of the socket; the first and the last return early when there is none.
RegisteredAfterCleanup == persistentHandlersRegistered /\ link = "none"

DropSocket ==
    /\ link' = "none"
    /\ wired' = FALSE
    /\ persistentHandlersRegistered' = RegisteredAfterCleanup
    /\ reconnectWait' = SupersededWait

\* establishConnection(url): a new socket, wired unless the flag says it is.
EstablishConnection(by) ==
    /\ SetState("connecting")
    /\ initialConnectInProgress' = TRUE
    /\ connectPromise' = by
    /\ link' = "opening"
    /\ wired' = ~RegisteredAfterCleanup
    /\ persistentHandlersRegistered' = TRUE
    /\ reconnectWait' = SupersededWait

\* connect(url) past its guards.
StartConnect(url, by) ==
    /\ serverUrl' = url
    /\ Cancel
    /\ urlResolveTimer' = FALSE
    /\ EstablishConnection(by)
    /\ UNCHANGED <<resolving, orphanTimers, serverUrlResolver, wakeSubscribed>>

\* The program calls connect(url).
UserConnect(url) ==
    /\ connState = "disconnected"
    /\ link # "up"
    /\ connectPromise = "none"
    /\ StartConnect(url, "user")
    /\ closeRequest' = "none"

\* connect() finds a connected socket although the state is 'disconnected',
\* and returns at once.
UserConnectReturnsEarly ==
    /\ connState = "disconnected"
    /\ link = "up"
    /\ closeRequest' = "none"
    /\ UNCHANGED <<stateVars, socketVars, connectVars, serverUrl, forceVars,
                   resolveVars, serverUrlResolver, wakeSubscribed>>

MutReleaseMutex == UNCHANGED connectPromise

\* The finally of connect(), once establishConnection settles.
ReleaseMutex == connectPromise' = "none"

\* onConnect, and what the resolved promise runs: the mutex is released, and a
\* force attempt that waited for it resets the manager.
ConnectSucceeds ==
    /\ link = "opening"
    /\ SetState("connected")
    /\ link' = "up"
    /\ initialConnectInProgress' = FALSE
    /\ wakeSubscribed' = TRUE
    /\ ReleaseMutex
    /\ IF connectPromise = "force"
       THEN attempt' = 0 /\ budget' = "unset" /\ UNCHANGED scheduled
       ELSE UNCHANGED forceVars
    /\ UNCHANGED <<persistentHandlersRegistered, wired, reconnectWait, serverUrl,
                   resolveVars, serverUrlResolver, closeRequest>>

MutConnectFails ==
    /\ link = "opening"
    /\ link' = "dead"
    /\ UNCHANGED <<stateVars, persistentHandlersRegistered, wired, reconnectWait,
                   connectVars, serverUrl, forceVars, resolveVars, serverUrlResolver,
                   wakeSubscribed, closeRequest>>

\* onConnectError destroys the socket and rejects the promise; a force attempt
\* that waited for it reports the error and schedules the next one.
ConnectFails ==
    /\ link = "opening"
    /\ SetState("disconnected")
    /\ DropSocket
    /\ initialConnectInProgress' = FALSE
    /\ ReleaseMutex
    /\ AttemptRejected
    /\ UNCHANGED <<serverUrl, urlResolveTimer, orphanTimers, serverUrlResolver,
                   wakeSubscribed, closeRequest>>

-----------------------------------------------------------------------------
(* Tier 1: events of the socket and its manager *)

\* The engine closes under a socket: 'disconnect' with the socket still active.
\* The manager reopens the engine unless the handler's error stops it.
EngineCloses ==
    /\ link \in {"opening", "up", "handshake"}
    /\ SetState("reconnecting")
    /\ link' = IF CanSetState("reconnecting") THEN "retrying" ELSE "dead"
    /\ UNCHANGED <<persistentHandlersRegistered, wired, reconnectWait, connectVars,
                   serverUrl, forceVars, resolveVars, serverUrlResolver,
                   wakeSubscribed, closeRequest>>

\* The server disconnects the socket: 'disconnect' with the socket inactive.
ServerDisconnects ==
    /\ link = "up"
    /\ SetState("disconnected")
    /\ link' = "dead"
    /\ UNCHANGED <<persistentHandlersRegistered, wired, reconnectWait, connectVars,
                   serverUrl, forceVars, resolveVars, serverUrlResolver,
                   wakeSubscribed, closeRequest>>

\* 'reconnect': the engine is open again, the namespace not yet joined.  The
\* handler waits for socket.connected unless an earlier handler still waits.
EngineReopens ==
    /\ link = "retrying"
    /\ link' = "handshake"
    /\ reconnectWait' = IF reconnectWait = "none" THEN "current" ELSE reconnectWait
    /\ UNCHANGED <<stateVars, persistentHandlersRegistered, wired, connectVars,
                   serverUrl, forceVars, resolveVars, serverUrlResolver,
                   wakeSubscribed, closeRequest>>

\* The server answers the namespace handshake of a reconnection.  Nothing in
\* the client listens: onConnect and onConnectError are gone.
HandshakeAnswered ==
    /\ link = "handshake"
    /\ link' \in {"up", "dead"}
    /\ UNCHANGED <<stateVars, persistentHandlersRegistered, wired, reconnectWait,
                   connectVars, serverUrl, forceVars, resolveVars,
                   serverUrlResolver, wakeSubscribed, closeRequest>>

MutReconnectWaitEnds ==
    /\ reconnectWait # "none"
    /\ SetState("connected")
    /\ reconnectWait' = "none"
    /\ UNCHANGED <<link, persistentHandlersRegistered, wired, connectVars, serverUrl,
                   forceVars, resolveVars, serverUrlResolver, wakeSubscribed, closeRequest>>

\* The wait ends: the poll sees the socket connected, or it times out and the
\* handler proceeds anyway.
ReconnectWaitEnds ==
    /\ reconnectWait = "current"
    /\ SetState("connected")
    /\ reconnectWait' = "none"
    /\ UNCHANGED <<link, persistentHandlersRegistered, wired, connectVars, serverUrl,
                   forceVars, resolveVars, serverUrlResolver, wakeSubscribed, closeRequest>>

\* The wait of a handler whose socket was replaced times out.
StaleWaitEnds ==
    /\ reconnectWait = "stale"
    /\ reconnectWait' = "none"
    /\ UNCHANGED <<stateVars, link, persistentHandlersRegistered, wired, connectVars,
                   serverUrl, forceVars, resolveVars, serverUrlResolver,
                   wakeSubscribed, closeRequest>>

\* 'reconnect_failed': tier 1 gives up and tier 2 begins.
ReconnectFails ==
    /\ link = "retrying"
    /\ link' = "dead"
    /\ SetState("disconnected")
    /\ Schedule
    /\ UNCHANGED <<persistentHandlersRegistered, wired, reconnectWait, connectVars,
                   serverUrl, urlResolveTimer, orphanTimers, serverUrlResolver,
                   wakeSubscribed, closeRequest>>

-----------------------------------------------------------------------------
(* Tier 2: the force reconnect timer *)

\* The timer fires and the strategy says stop.
ForceAttemptGivesUp ==
    /\ scheduled
    /\ ~ShouldContinue(attempt)
    /\ scheduled' = FALSE
    /\ attempt' = attempt + 1
    /\ EnsureStarted
    /\ HandleServerUrlResolve(connState)
    /\ UNCHANGED <<stateVars, socketVars, connectVars, serverUrl, urlResolveTimer,
                   orphanTimers, serverUrlResolver, wakeSubscribed, closeRequest>>

\* The timer fires and the client need not or cannot connect: the attempt
\* counts as a success and resets the manager.
ForceAttemptSkipped ==
    /\ scheduled
    /\ ShouldContinue(attempt)
    /\ connState # "disconnected" \/ serverUrl = NoUrl
    /\ Cancel
    /\ UNCHANGED <<stateVars, socketVars, connectVars, serverUrl, resolveVars,
                   serverUrlResolver, wakeSubscribed, closeRequest>>

MutForceAttemptDue ==
    /\ scheduled
    /\ ShouldContinue(attempt)
    /\ connState \in {"disconnected", "connected"} /\ serverUrl # NoUrl

\* The timer fires and handleForceReconnectAttempt goes ahead: it drops the old
\* socket and calls connect(#serverUrl), which ends in one of three ways.
ForceAttemptDue ==
    /\ scheduled
    /\ ShouldContinue(attempt)
    /\ connState = "disconnected" /\ serverUrl # NoUrl

\* The URL came from a resolver and is not valid: the attempt fails at once.
ForceAttemptRejected ==
    /\ ForceAttemptDue
    /\ serverUrl \in BadUrls
    /\ DropSocket
    /\ ScheduleNew(attempt + 1)
    /\ UNCHANGED <<stateVars, connectVars, serverUrl, urlResolveTimer, orphanTimers,
                   serverUrlResolver, wakeSubscribed, closeRequest>>

\* connect() returns a promise that never settles, and so does the attempt.
ForceAttemptHangs ==
    /\ ForceAttemptDue
    /\ serverUrl \in ValidUrls
    /\ connectPromise = "hung"
    /\ DropSocket
    /\ scheduled' = FALSE
    /\ attempt' = attempt + 1
    /\ EnsureStarted
    /\ UNCHANGED <<stateVars, connectVars, serverUrl, resolveVars,
                   serverUrlResolver, wakeSubscribed, closeRequest>>

\* connect() starts a connection.  Like any connect() it first cancels the
\* manager that runs the attempt: counter and strategy start over.
ForceAttemptConnects ==
    /\ ForceAttemptDue
    /\ serverUrl \in ValidUrls
    /\ connectPromise # "hung"
    /\ StartConnect(serverUrl, "force")
    /\ UNCHANGED closeRequest

\* The strategy's total time runs out.
TimePasses ==
    /\ TimeLimited
    /\ budget = "running"
    /\ budget' = "spent"
    /\ UNCHANGED <<stateVars, socketVars, connectVars, serverUrl, attempt, scheduled,
                   resolveVars, serverUrlResolver, wakeSubscribed, closeRequest>>

-----------------------------------------------------------------------------
(* Tier 3: the server URL resolver *)

\* The program sets the resolver (connectToDaemon does, once connected).
SetServerUrlResolver ==
    /\ ~serverUrlResolver
    /\ serverUrlResolver' = TRUE
    /\ UNCHANGED <<stateVars, socketVars, connectVars, serverUrl, forceVars,
                   resolveVars, wakeSubscribed, closeRequest>>

\* The resolver answers with a URL.  Nothing is checked again after the await.
ResolverFindsUrl(url) ==
    /\ resolving > 0
    /\ resolving' = resolving - 1
    /\ serverUrl' = url
    /\ Restart
    /\ UNCHANGED <<stateVars, socketVars, connectVars, urlResolveTimer, orphanTimers,
                   serverUrlResolver, wakeSubscribed, closeRequest>>

MutScheduleUrlResolveRetry == UNCHANGED <<urlResolveTimer, orphanTimers>>

\* scheduleUrlResolveRetry() overwrites the handle of a timer still pending.
ScheduleUrlResolveRetry ==
    IF connState # "disconnected"
    THEN UNCHANGED <<urlResolveTimer, orphanTimers>>
    ELSE /\ urlResolveTimer' = TRUE
         /\ IF urlResolveTimer
            THEN orphanTimers < MaxOrphans /\ orphanTimers' = orphanTimers + 1
            ELSE UNCHANGED orphanTimers

\* The resolver answers without a URL, or throws.
ResolverFindsNothing ==
    /\ resolving > 0
    /\ resolving' = resolving - 1
    /\ ScheduleUrlResolveRetry
    /\ UNCHANGED <<stateVars, socketVars, connectVars, serverUrl, forceVars,
                   serverUrlResolver, wakeSubscribed, closeRequest>>

\* A URL timer fires, the one #urlResolveTimer refers to or an orphan.
UrlTimerFires ==
    /\ \/ urlResolveTimer /\ urlResolveTimer' = FALSE /\ UNCHANGED orphanTimers
       \/ orphanTimers > 0 /\ orphanTimers' = orphanTimers - 1 /\ UNCHANGED urlResolveTimer
    /\ HandleServerUrlResolve(connState)
    /\ UNCHANGED <<stateVars, socketVars, connectVars, serverUrl, forceVars,
                   serverUrlResolver, wakeSubscribed, closeRequest>>

-----------------------------------------------------------------------------
(* Waking from sleep, and disconnect() *)

\* handleWakeFromSleep, where it acts: tier 2 starts over for a disconnected
\* client, and for one whose state says 'connected' while its socket is not.
WakeFromSleep ==
    /\ wakeSubscribed
    /\ \/ connState = "disconnected" /\ serverUrl # NoUrl
       \/ connState = "connected" /\ link # "up"
    /\ SetState("disconnected")
    /\ Restart
    /\ UNCHANGED <<socketVars, connectVars, serverUrl, resolveVars,
                   serverUrlResolver, wakeSubscribed, closeRequest>>

\* disconnect() on a client whose state is already 'disconnected' does nothing.
UserDisconnectIgnored ==
    /\ connState = "disconnected"
    /\ closeRequest = "none"
    /\ closeRequest' = "ignored"
    /\ UNCHANGED <<stateVars, socketVars, connectVars, serverUrl, forceVars,
                   resolveVars, serverUrlResolver, wakeSubscribed>>

MutStopEverything ==
    /\ Cancel
    /\ urlResolveTimer' = FALSE
    /\ UNCHANGED <<resolving, orphanTimers, wakeSubscribed>>

MutStopEverythingNoCancel ==
    /\ UNCHANGED forceVars
    /\ urlResolveTimer' = FALSE
    /\ wakeSubscribed' = FALSE
    /\ UNCHANGED <<resolving, orphanTimers>>

\* What disconnect() stops: the force timer, the URL timer it has a handle of
\* and wake detection.
StopEverything ==
    /\ Cancel
    /\ urlResolveTimer' = FALSE
    /\ wakeSubscribed' = FALSE
    /\ UNCHANGED <<resolving, orphanTimers>>

\* disconnect() from any other state.  A connection still opening loses its
\* listeners, so nothing settles its promise any more.
UserDisconnect ==
    /\ connState # "disconnected"
    /\ StopEverything
    /\ DropSocket
    /\ SetState("disconnected")
    /\ connectPromise' = IF connectPromise = "none" THEN "none" ELSE "hung"
    /\ closeRequest' = IF resolving + orphanTimers > 0 THEN "leaky" ELSE "done"
    /\ UNCHANGED <<initialConnectInProgress, serverUrl, serverUrlResolver>>

-----------------------------------------------------------------------------
(* The system *)

User ==
    \/ \E url \in ValidUrls : UserConnect(url)
    \/ UserConnectReturnsEarly
    \/ UserDisconnectIgnored
    \/ UserDisconnect
    \/ SetServerUrlResolver

Socket ==
    \/ ConnectSucceeds
    \/ ConnectFails
    \/ EngineCloses
    \/ ServerDisconnects
    \/ EngineReopens
    \/ HandshakeAnswered
    \/ ReconnectFails

Timers ==
    \/ ReconnectWaitEnds
    \/ StaleWaitEnds
    \/ ForceAttemptGivesUp
    \/ ForceAttemptSkipped
    \/ ForceAttemptRejected
    \/ ForceAttemptHangs
    \/ ForceAttemptConnects
    \/ UrlTimerFires
    \/ WakeFromSleep
    \/ TimePasses

Resolver ==
    \/ \E url \in ValidUrls \cup BadUrls : ResolverFindsUrl(url)
    \/ ResolverFindsNothing

Next == User \/ Socket \/ Timers \/ Resolver

Spec == Init /\ [][Next]_vars

-----------------------------------------------------------------------------
(* Safety *)

\* The connect mutex is held exactly while a connection opens: it is taken and
\* given back in establishConnection, onConnect, onConnectError and the finally
\* of connect(), and only a disconnect() in between leaves it held for good.
MutexMatchesState ==
    /\ connState = "connecting" <=> connectPromise \in {"user", "force"}
    /\ connectPromise = "hung" => connState = "disconnected" /\ link = "none"

\* Whatever path led to the current socket (connect, failed connect, force
\* reconnect, disconnect), it has the persistent handlers: a socket without
\* them would never tell the client that it was lost or came back.
SocketIsWired == link # "none" => wired /\ persistentHandlersRegistered

\* A client closed with nothing outstanding is quiet: no socket, no timer and no
\* wake subscription is left that could bring it back.
ClosedIsQuiet ==
    closeRequest = "done" =>
        /\ connState = "disconnected" /\ link = "none"
        /\ ~scheduled
        /\ ~urlResolveTimer /\ orphanTimers = 0 /\ resolving = 0
        /\ ~wakeSubscribed

\* The state becomes 'connected' only with a connected socket, or when the wait
\* of a reconnect handler for this very socket times out: the answer of an old
\* socket's handler never marks a new socket connected.
ConnectedOnlyWhenUp ==
    [][connState # "connected" /\ connState' = "connected" =>
          link' = "up" \/ reconnectWait = "current"]_vars

\* No timer, resolver or wake-up replaces the live socket of a connected client;
\* only the network, the server and disconnect() end it.
LiveConnectionKept ==
    [][connState = "connected" /\ link = "up" =>
          \/ link' = "up" /\ connState' = "connected"
          \/ link' = "retrying" /\ connState' = "reconnecting"
          \/ link' = "dead" /\ connState' = "disconnected"
          \/ closeRequest' \in {"leaky", "done"}]_vars

\* Tier 2 or tier 3 is at work.
UnderWay == scheduled \/ resolving > 0 \/ urlResolveTimer \/ orphanTimers > 0

\* Something may connect the client.
Driven == connState # "disconnected" \/ UnderWay

\* Reconnection hands over from tier to tier without dropping the thread.  A
\* client stops trying only when the program calls disconnect() or its own
\* connect() fails, when the server ends the connection, when the strategy is
\* exhausted and there is no resolver, or when its attempt hangs on a mutex
\* that disconnect() left held.
KeepsTrying ==
    [][Driven /\ ~Driven' =>
          \/ UserDisconnect
          \/ ConnectFails /\ connectPromise = "user"
          \/ ServerDisconnects
          \/ ~serverUrlResolver /\ (attempt' = MaxAttempts \/ budget' = "spent")
          \/ connectPromise = "hung"]_vars

\* The client implements its promise: four states, their transitions, and a
\* closed client that only the program opens.
C == INSTANCE Connection WITH state <- connState, closed <- (closeRequest = "done")
ConnectionSpec == C!Spec

\* A client whose program connects it once, as connectToDaemon does, is what
\* ClientView says to its owner.
UsedOnce == [][\A url \in ValidUrls : UserConnect(url) => serverUrl = NoUrl]_vars

ConnOfState ==
    CASE connState = "disconnected" -> "down"
      [] connState = "connected" -> "up"
      [] connState = "connecting" /\ connectPromise = "user" -> "opening"
      [] OTHER -> "trying"

View == INSTANCE ClientView WITH
            conn <- ConnOfState,
            retrying <- (connState = "disconnected" /\ UnderWay),
            waking <- wakeSubscribed
ViewSpec == View!Spec

-----------------------------------------------------------------------------
(* Liveness.  Timers fire, a socket that opens ends one way or the other (the  *)
(* engine has a connect timeout), the manager of a lost socket reopens it or   *)
(* runs out of attempts, and a resolver answers.                               *)

Fairness ==
    /\ WF_vars(ConnectSucceeds \/ ConnectFails)
    /\ WF_vars(EngineReopens \/ ReconnectFails)
    /\ WF_vars(ReconnectWaitEnds)
    /\ WF_vars(ForceAttemptGivesUp \/ ForceAttemptSkipped \/ ForceAttemptRejected
                  \/ ForceAttemptHangs \/ ForceAttemptConnects)
    /\ WF_vars(UrlTimerFires)
    /\ WF_vars(Resolver)

FairSpec == Spec /\ Fairness

\* A daemon that is reachable again and again: connections and discovery
\* succeed infinitely often if they are tried infinitely often, and the
\* strategy's total time is not used up before every attempt.
ReachableSpec ==
    /\ FairSpec
    /\ SF_vars(ConnectSucceeds)
    /\ SF_vars(ForceAttemptConnects)
    /\ SF_vars(\E url \in ValidUrls : ResolverFindsUrl(url))

\* A connect() in progress settles, unless disconnect() overtakes it or the
\* engine closes before the namespace is joined (the error that escapes).
ConnectSettles == connState = "connecting" ~> connState # "connecting" \/ uncaught

\* Once tier 2 is scheduled and the daemon can be reached again, the client
\* connects, unless one of the steps KeepsTrying names ends its attempts.  A client
\* whose resolver keeps to an invalid URL has no daemon to reach.
Recovers ==
    <>[](serverUrl \notin BadUrls) =>
        (scheduled /\ connState = "disconnected" ~>
            connState = "connected" \/ ~Driven \/ uncaught \/ connectPromise = "hung")

-----------------------------------------------------------------------------
(* What the documentation says and the code does not do *)

\* "When ForceReconnectManager exhausts all attempts (Tier 2), the resolver is
\* invoked": a client that does nothing but make force attempts, which all fail,
\* calls the resolver it has.
TierThreeIsReached ==
    (/\ <>[]serverUrlResolver
     /\ <>[][ForceAttemptConnects \/ ConnectFails]_vars
     /\ []<><<ConnectFails>>_vars) => <>(resolving > 0)

\* connect() settles when disconnect() overtakes it, so a later connect() can
\* start afresh.
ConnectPromiseSettles == connectPromise # "hung"

=============================================================================
