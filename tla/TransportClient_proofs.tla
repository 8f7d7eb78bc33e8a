------------------------ MODULE TransportClient_proofs ------------------------
(***************************************************************************)
(* Proofs about TransportClient, for every set of URLs, every attempt      *)
(* limit and every bound.                                                  *)
(*                                                                         *)
(* The invariants a reader cares about are not inductive alone: they need  *)
(* to know which sockets go with which state, that a socket's flag is      *)
(* given back with the socket, and that a pending force timer leaves an    *)
(* attempt to make.  Inv adds those facts.                                 *)
(***************************************************************************)
EXTENDS TransportClient, TLAPS

\* Which socket goes with which connection state.
LinkMatchesState ==
    /\ connState = "connecting" => link \in {"opening", "dead"}
    /\ link = "opening" => connState = "connecting"
    /\ connState \in {"connected", "reconnecting"} => link \notin {"none", "opening"}

\* A reconnect handler waits on the current socket only once it was connected.
WaitMatchesState ==
    reconnectWait = "current" =>
        link \notin {"none", "opening"} /\ connState # "connecting"

\* Without a socket the flag is down, so the next socket is wired.
FlagMatchesSocket == link = "none" => ~persistentHandlersRegistered

\* A pending force timer has an attempt left to make.
TimerHasAttempt == scheduled => attempt < MaxAttempts

Inv ==
    /\ TypeOK
    /\ MutexMatchesState
    /\ SocketIsWired
    /\ ClosedIsQuiet
    /\ LinkMatchesState
    /\ WaitMatchesState
    /\ FlagMatchesSocket
    /\ TimerHasAttempt

-----------------------------------------------------------------------------
(* Lemmas about the operators the actions share *)

\* What VALID_TRANSITIONS allows, state by state.
LEMMA Transitions ==
    ASSUME connState \in ConnStates
    PROVE  /\ CanSetState("connecting") <=> connState \in {"connecting", "disconnected"}
           /\ CanSetState("connected") <=> connState # "disconnected"
           /\ CanSetState("disconnected")
           /\ CanSetState("reconnecting") <=> connState \in {"connected", "reconnecting"}
BY DEF ConnStates, CanSetState, ValidTransitions

\* schedule() without a pending timer keeps the manager's variables in range and
\* leaves a timer only when an attempt is left.
LEMMA ScheduleNewType ==
    ASSUME TypeOK, NEW a \in 0 .. MaxAttempts, ScheduleNew(a)
    PROVE  /\ attempt' \in 0 .. MaxAttempts
           /\ scheduled' \in BOOLEAN
           /\ budget' \in {"unset", "running", "spent"}
           /\ resolving' \in 0 .. MaxResolvers
           /\ scheduled' => attempt' < MaxAttempts
<1>1. MaxAttempts \in Nat /\ MaxResolvers \in Nat
  BY ParametersAssumption
<1>2. budget' \in {"unset", "running", "spent"} /\ attempt' = a
  BY DEF TypeOK, ScheduleNew, EnsureStarted
<1>3. scheduled' \in BOOLEAN /\ (scheduled' => attempt' < MaxAttempts)
  BY <1>1, <1>2 DEF ScheduleNew, ShouldContinue
<1>4. resolving' \in 0 .. MaxResolvers
  BY <1>1 DEF TypeOK, ScheduleNew, HandleServerUrlResolve
<1> QED
  BY <1>2, <1>3, <1>4

\* schedule() keeps the manager in range, with a timer pending or not.
LEMMA ScheduleType ==
    ASSUME TypeOK, TimerHasAttempt, Schedule
    PROVE  /\ attempt' \in 0 .. MaxAttempts
           /\ scheduled' \in BOOLEAN
           /\ budget' \in {"unset", "running", "spent"}
           /\ resolving' \in 0 .. MaxResolvers
           /\ scheduled' => attempt' < MaxAttempts
<1>1. CASE scheduled
  BY <1>1 DEF TypeOK, TimerHasAttempt, Schedule, forceVars
<1>2. CASE ~scheduled
  BY <1>2, ScheduleNewType DEF TypeOK, Schedule
<1> QED
  BY <1>1, <1>2

\* cancel() and restart() leave the manager's variables in range.
LEMMA CancelType ==
    ASSUME Cancel
    PROVE  /\ attempt' \in 0 .. MaxAttempts
           /\ scheduled' = FALSE
           /\ budget' \in {"unset", "running", "spent"}
<1>1. MaxAttempts \in Nat
  BY ParametersAssumption
<1> QED
  BY <1>1 DEF Cancel

\* restart() keeps the manager in range and leaves an attempt to make.
LEMMA RestartType ==
    ASSUME Restart
    PROVE  /\ attempt' \in 0 .. MaxAttempts
           /\ attempt' < MaxAttempts
           /\ scheduled' = TRUE
           /\ budget' \in {"unset", "running", "spent"}
<1>1. MaxAttempts \in Nat \ {0}
  BY ParametersAssumption
<1> QED
  BY <1>1 DEF Restart

\* connect() from a disconnected client, by the program or by a force attempt.
LEMMA StartConnectInv ==
    ASSUME Inv, connState = "disconnected", connectPromise # "hung",
           NEW url \in ValidUrls \cup BadUrls, NEW by \in {"user", "force"},
           StartConnect(url, by),
           closeRequest' = "none" \/ (closeRequest' = closeRequest /\ closeRequest # "done")
    PROVE  Inv'
<1>1. connState' = "connecting" /\ UNCHANGED uncaught
  BY Transitions DEF Inv, TypeOK, StartConnect, EstablishConnection, SetState
<1>2. wired' = TRUE
  BY DEF Inv, FlagMatchesSocket, StartConnect, EstablishConnection, RegisteredAfterCleanup
<1>3. TypeOK'
  <2>1. Cancel
    BY DEF StartConnect
  <2>2. /\ attempt' \in 0 .. MaxAttempts /\ scheduled' = FALSE
        /\ budget' \in {"unset", "running", "spent"}
    BY <2>1, CancelType
  <2>3. reconnectWait' \in {"none", "current", "stale"}
    BY DEF Inv, TypeOK, StartConnect, EstablishConnection, SupersededWait
  <2>4. UNCHANGED <<resolving, orphanTimers, serverUrlResolver, wakeSubscribed>>
    BY DEF StartConnect
  <2>5. /\ link' = "opening" /\ persistentHandlersRegistered' = TRUE
        /\ initialConnectInProgress' = TRUE /\ connectPromise' \in {"user", "force"}
        /\ urlResolveTimer' = FALSE /\ serverUrl' = url
    BY DEF StartConnect, EstablishConnection
  <2>6. closeRequest' \in {"none", "ignored", "leaky", "done"}
    BY DEF Inv, TypeOK
  <2> QED
    BY <1>1, <1>2, <2>2, <2>3, <2>4, <2>5, <2>6 DEF Inv, TypeOK, ConnStates, Links
<1>4. /\ connectPromise' \in {"user", "force"}
      /\ link' = "opening"
      /\ persistentHandlersRegistered' = TRUE
      /\ scheduled' = FALSE
      /\ reconnectWait' # "current"
      /\ closeRequest' # "done"
  BY DEF StartConnect, EstablishConnection, Cancel, SupersededWait
<1> QED
  BY <1>1, <1>2, <1>3, <1>4
     DEF Inv, MutexMatchesState, SocketIsWired, ClosedIsQuiet, LinkMatchesState,
         WaitMatchesState, FlagMatchesSocket, TimerHasAttempt

-----------------------------------------------------------------------------
(* Every action preserves Inv *)

\* Inv holds before the program did anything.
LEMMA InitInv == Init => Inv
<1> SUFFICES ASSUME Init PROVE Inv
  OBVIOUS
<1>1. MaxAttempts \in Nat /\ MaxResolvers \in Nat /\ MaxOrphans \in Nat
  BY ParametersAssumption
<1>2. 0 \in 0 .. MaxAttempts /\ 0 \in 0 .. MaxResolvers /\ 0 \in 0 .. MaxOrphans
  BY <1>1
<1>3. TypeOK
  BY <1>2 DEF Init, TypeOK, ConnStates, Links
<1> QED
  BY <1>3 DEF Init, Inv, MutexMatchesState, SocketIsWired, ClosedIsQuiet,
              LinkMatchesState, WaitMatchesState, FlagMatchesSocket, TimerHasAttempt

\* onConnect runs while connecting only; the mutex goes and the socket stays.
LEMMA ConnectSucceedsInv == Inv /\ ConnectSucceeds => Inv'
<1> SUFFICES ASSUME Inv, ConnectSucceeds PROVE Inv'
  OBVIOUS
<1>1. connState = "connecting" /\ connState' = "connected" /\ UNCHANGED uncaught
  BY Transitions DEF Inv, TypeOK, LinkMatchesState, ConnectSucceeds, SetState
<1>2. connectPromise' = "none" /\ closeRequest # "done"
  BY <1>1 DEF Inv, ClosedIsQuiet, ConnectSucceeds, ReleaseMutex
<1>3. /\ attempt' \in 0 .. MaxAttempts /\ scheduled' = scheduled
      /\ budget' \in {"unset", "running", "spent"}
      /\ scheduled' => attempt' < MaxAttempts
  <2>1. MaxAttempts \in Nat \ {0}
    BY ParametersAssumption
  <2> QED
    BY <2>1 DEF Inv, TypeOK, TimerHasAttempt, ConnectSucceeds, forceVars
<1>4. TypeOK'
  BY <1>1, <1>2, <1>3
     DEF Inv, TypeOK, ConnStates, Links, ConnectSucceeds, resolveVars
<1> QED
  BY <1>1, <1>2, <1>3, <1>4
     DEF ConnectSucceeds, resolveVars, Inv, MutexMatchesState, SocketIsWired, ClosedIsQuiet, LinkMatchesState,
         WaitMatchesState, FlagMatchesSocket, TimerHasAttempt

\* The disconnect handler keeps the socket; a state it cannot leave is kept too.
LEMMA EngineClosesInv == Inv /\ EngineCloses => Inv'
<1> SUFFICES ASSUME Inv, EngineCloses PROVE Inv'
  OBVIOUS
<1>1. \/ /\ connState \in {"connected", "reconnecting"} /\ connState' = "reconnecting"
         /\ link' = "retrying" /\ UNCHANGED uncaught
      \/ /\ connState \in {"connecting", "disconnected"} /\ connState' = connState
         /\ link' = "dead" /\ uncaught' = TRUE
  BY Transitions DEF Inv, TypeOK, ConnStates, EngineCloses, SetState
<1>2. closeRequest' # "done"
  BY DEF Inv, ClosedIsQuiet, EngineCloses
<1>3. connState' \in ConnStates /\ link' \in Links /\ uncaught' \in BOOLEAN
  BY <1>1 DEF Inv, TypeOK, ConnStates, Links
<1>4. TypeOK'
  BY <1>3 DEF Inv, TypeOK, EngineCloses, connectVars, forceVars, resolveVars
<1> QED
  BY <1>1, <1>2, <1>4
     DEF TypeOK, EngineCloses, connectVars, forceVars, resolveVars,
         Inv, MutexMatchesState, SocketIsWired, ClosedIsQuiet, LinkMatchesState,
         WaitMatchesState, FlagMatchesSocket, TimerHasAttempt

\* The handler of the current socket waits in no state that a mutex belongs to.
LEMMA ReconnectWaitEndsInv == Inv /\ ReconnectWaitEnds => Inv'
<1> SUFFICES ASSUME Inv, ReconnectWaitEnds PROVE Inv'
  OBVIOUS
<1>1. /\ connState' = connState \/ (connState' = "connected" /\ connState # "disconnected")
      /\ uncaught' \in BOOLEAN
  BY Transitions DEF Inv, TypeOK, ReconnectWaitEnds, SetState
<1>2. TypeOK'
  BY <1>1 DEF Inv, TypeOK, ConnStates, Links, ReconnectWaitEnds, connectVars, forceVars, resolveVars
<1> QED
  BY <1>1, <1>2
     DEF TypeOK, ConnStates, ReconnectWaitEnds, connectVars, forceVars, resolveVars,
         Inv, MutexMatchesState, SocketIsWired, ClosedIsQuiet, LinkMatchesState,
         WaitMatchesState, FlagMatchesSocket, TimerHasAttempt

\* connect() on a connected socket changes nothing but who closed the client.
LEMMA UserConnectReturnsEarlyInv == Inv /\ UserConnectReturnsEarly => Inv'
<1> SUFFICES ASSUME Inv, UserConnectReturnsEarly PROVE Inv'
  OBVIOUS
<1>1. TypeOK'
  BY DEF Inv, TypeOK, ConnStates, Links, UserConnectReturnsEarly,
         socketVars, connectVars, stateVars, forceVars, resolveVars
<1> QED
  BY <1>1
     DEF TypeOK, UserConnectReturnsEarly, socketVars, connectVars, stateVars, forceVars, resolveVars,
         Inv, MutexMatchesState, SocketIsWired, ClosedIsQuiet, LinkMatchesState,
         WaitMatchesState, FlagMatchesSocket, TimerHasAttempt

\* A server-side disconnect keeps the dead socket and its handlers.
LEMMA ServerDisconnectsInv == Inv /\ ServerDisconnects => Inv'
<1> SUFFICES ASSUME Inv, ServerDisconnects PROVE Inv'
  OBVIOUS
<1>1. TypeOK'
  BY Transitions DEF Inv, TypeOK, ConnStates, Links, ServerDisconnects, SetState,
         socketVars, connectVars, stateVars, forceVars, resolveVars
<1> QED
  BY <1>1, Transitions
     DEF TypeOK, ServerDisconnects, SetState, socketVars, connectVars, stateVars, forceVars, resolveVars,
         Inv, MutexMatchesState, SocketIsWired, ClosedIsQuiet, LinkMatchesState,
         WaitMatchesState, FlagMatchesSocket, TimerHasAttempt

\* A reopened engine is one of a socket that was connected before.
LEMMA EngineReopensInv == Inv /\ EngineReopens => Inv'
<1> SUFFICES ASSUME Inv, EngineReopens PROVE Inv'
  OBVIOUS
<1>1. TypeOK'
  BY DEF Inv, TypeOK, ConnStates, Links, EngineReopens,
         socketVars, connectVars, stateVars, forceVars, resolveVars
<1> QED
  BY <1>1
     DEF TypeOK, EngineReopens, socketVars, connectVars, stateVars, forceVars, resolveVars,
         Inv, MutexMatchesState, SocketIsWired, ClosedIsQuiet, LinkMatchesState,
         WaitMatchesState, FlagMatchesSocket, TimerHasAttempt

\* The answer to a handshake changes the socket only.
LEMMA HandshakeAnsweredInv == Inv /\ HandshakeAnswered => Inv'
<1> SUFFICES ASSUME Inv, HandshakeAnswered PROVE Inv'
  OBVIOUS
<1>1. TypeOK'
  BY DEF Inv, TypeOK, ConnStates, Links, HandshakeAnswered,
         socketVars, connectVars, stateVars, forceVars, resolveVars
<1> QED
  BY <1>1
     DEF TypeOK, HandshakeAnswered, socketVars, connectVars, stateVars, forceVars, resolveVars,
         Inv, MutexMatchesState, SocketIsWired, ClosedIsQuiet, LinkMatchesState,
         WaitMatchesState, FlagMatchesSocket, TimerHasAttempt

\* The handler of a socket that is gone changes no state.
LEMMA StaleWaitEndsInv == Inv /\ StaleWaitEnds => Inv'
<1> SUFFICES ASSUME Inv, StaleWaitEnds PROVE Inv'
  OBVIOUS
<1>1. TypeOK'
  BY DEF Inv, TypeOK, ConnStates, Links, StaleWaitEnds,
         socketVars, connectVars, stateVars, forceVars, resolveVars
<1> QED
  BY <1>1
     DEF TypeOK, StaleWaitEnds, socketVars, connectVars, stateVars, forceVars, resolveVars,
         Inv, MutexMatchesState, SocketIsWired, ClosedIsQuiet, LinkMatchesState,
         WaitMatchesState, FlagMatchesSocket, TimerHasAttempt

\* Running out of time changes the budget only.
LEMMA TimePassesInv == Inv /\ TimePasses => Inv'
<1> SUFFICES ASSUME Inv, TimePasses PROVE Inv'
  OBVIOUS
<1>1. TypeOK'
  BY DEF Inv, TypeOK, ConnStates, Links, TimePasses,
         socketVars, connectVars, stateVars, forceVars, resolveVars
<1> QED
  BY <1>1
     DEF TypeOK, TimePasses, socketVars, connectVars, stateVars, forceVars, resolveVars,
         Inv, MutexMatchesState, SocketIsWired, ClosedIsQuiet, LinkMatchesState,
         WaitMatchesState, FlagMatchesSocket, TimerHasAttempt

\* Setting the resolver changes nothing else.
LEMMA SetServerUrlResolverInv == Inv /\ SetServerUrlResolver => Inv'
<1> SUFFICES ASSUME Inv, SetServerUrlResolver PROVE Inv'
  OBVIOUS
<1>1. TypeOK'
  BY DEF Inv, TypeOK, ConnStates, Links, SetServerUrlResolver,
         socketVars, connectVars, stateVars, forceVars, resolveVars
<1> QED
  BY <1>1
     DEF TypeOK, SetServerUrlResolver, socketVars, connectVars, stateVars, forceVars, resolveVars,
         Inv, MutexMatchesState, SocketIsWired, ClosedIsQuiet, LinkMatchesState,
         WaitMatchesState, FlagMatchesSocket, TimerHasAttempt

\* disconnect() on a disconnected client changes nothing.
LEMMA UserDisconnectIgnoredInv == Inv /\ UserDisconnectIgnored => Inv'
<1> SUFFICES ASSUME Inv, UserDisconnectIgnored PROVE Inv'
  OBVIOUS
<1>1. TypeOK'
  BY DEF Inv, TypeOK, ConnStates, Links, UserDisconnectIgnored,
         socketVars, connectVars, stateVars, forceVars, resolveVars
<1> QED
  BY <1>1
     DEF TypeOK, UserDisconnectIgnored, socketVars, connectVars, stateVars, forceVars, resolveVars,
         Inv, MutexMatchesState, SocketIsWired, ClosedIsQuiet, LinkMatchesState,
         WaitMatchesState, FlagMatchesSocket, TimerHasAttempt

\* Letting go of the socket.
LEMMA DropSocketFacts ==
    ASSUME Inv, DropSocket
    PROVE  /\ link' = "none" /\ wired' = FALSE
           /\ persistentHandlersRegistered' = FALSE
           /\ reconnectWait' \in {"none", "stale"}
BY DEF Inv, TypeOK, FlagMatchesSocket, DropSocket, RegisteredAfterCleanup, SupersededWait

\* onConnectError lets go of socket, flag and mutex together.
LEMMA ConnectFailsInv == Inv /\ ConnectFails => Inv'
<1> SUFFICES ASSUME Inv, ConnectFails PROVE Inv'
  OBVIOUS
<1>1. connState = "connecting" /\ connState' = "disconnected" /\ UNCHANGED uncaught
  BY Transitions DEF Inv, TypeOK, LinkMatchesState, ConnectFails, SetState
<1>2. connectPromise' = "none" /\ closeRequest # "done"
  BY <1>1 DEF Inv, ClosedIsQuiet, ConnectFails, ReleaseMutex
<1>3. /\ attempt' \in 0 .. MaxAttempts /\ scheduled' \in BOOLEAN
      /\ budget' \in {"unset", "running", "spent"}
      /\ resolving' \in 0 .. MaxResolvers
      /\ scheduled' => attempt' < MaxAttempts
  <2>1. CASE connectPromise = "force"
    <3>1. Schedule
      BY <2>1 DEF ConnectFails, AttemptRejected
    <3> QED
      BY <3>1, ScheduleType DEF Inv
  <2>2. CASE connectPromise # "force"
    BY <2>2 DEF Inv, TypeOK, TimerHasAttempt, ConnectFails, AttemptRejected, forceVars
  <2> QED
    BY <2>1, <2>2
<1>4. /\ link' = "none" /\ wired' = FALSE
      /\ persistentHandlersRegistered' = FALSE
      /\ reconnectWait' \in {"none", "stale"}
  BY DropSocketFacts DEF ConnectFails
<1>5. TypeOK'
  BY <1>1, <1>2, <1>3, <1>4 DEF Inv, TypeOK, ConnStates, Links, ConnectFails
<1> QED
  BY <1>1, <1>2, <1>3, <1>4, <1>5
     DEF ConnectFails,
         Inv, MutexMatchesState, SocketIsWired, ClosedIsQuiet, LinkMatchesState,
         WaitMatchesState, FlagMatchesSocket, TimerHasAttempt

\* reconnect_failed ends a socket that was connected: no mutex is held.
LEMMA ReconnectFailsInv == Inv /\ ReconnectFails => Inv'
<1> SUFFICES ASSUME Inv, ReconnectFails PROVE Inv'
  OBVIOUS
<1>1. connState # "connecting" /\ connState' = "disconnected" /\ UNCHANGED uncaught
  BY Transitions DEF Inv, TypeOK, LinkMatchesState, ReconnectFails, SetState
<1>2. closeRequest # "done"
  BY DEF Inv, ClosedIsQuiet, ReconnectFails
<1>3. /\ attempt' \in 0 .. MaxAttempts /\ scheduled' \in BOOLEAN
      /\ budget' \in {"unset", "running", "spent"}
      /\ resolving' \in 0 .. MaxResolvers
      /\ scheduled' => attempt' < MaxAttempts
  BY ScheduleType DEF Inv, ReconnectFails
<1>4. TypeOK'
  BY <1>1, <1>3 DEF Inv, TypeOK, ConnStates, Links, ReconnectFails, connectVars
<1> QED
  BY <1>1, <1>2, <1>3, <1>4
     DEF ReconnectFails, connectVars,
         Inv, MutexMatchesState, SocketIsWired, ClosedIsQuiet, LinkMatchesState,
         WaitMatchesState, FlagMatchesSocket, TimerHasAttempt

\* A timer that fires after the last attempt leaves none behind.
LEMMA ForceAttemptGivesUpInv == Inv /\ ForceAttemptGivesUp => Inv'
<1> SUFFICES ASSUME Inv, ForceAttemptGivesUp PROVE Inv'
  OBVIOUS
<1>1. closeRequest # "done"
  BY DEF Inv, ClosedIsQuiet, ForceAttemptGivesUp
<1>2. attempt' \in 0 .. MaxAttempts /\ scheduled' = FALSE
  <2>1. MaxAttempts \in Nat
    BY ParametersAssumption
  <2> QED
    BY <2>1 DEF Inv, TypeOK, TimerHasAttempt, ForceAttemptGivesUp
<1>3. resolving' \in 0 .. MaxResolvers
  <2>1. MaxResolvers \in Nat
    BY ParametersAssumption
  <2> QED
    BY <2>1 DEF Inv, TypeOK, ForceAttemptGivesUp, HandleServerUrlResolve
<1>4. budget' \in {"unset", "running", "spent"}
  BY DEF Inv, TypeOK, ForceAttemptGivesUp, EnsureStarted
<1>5. UNCHANGED <<stateVars, socketVars, connectVars, serverUrl, urlResolveTimer,
                  orphanTimers, serverUrlResolver, wakeSubscribed, closeRequest>>
  BY DEF ForceAttemptGivesUp
<1>6. /\ (connState \in ConnStates /\ uncaught \in BOOLEAN)'
      /\ (link \in Links /\ persistentHandlersRegistered \in BOOLEAN /\ wired \in BOOLEAN)'
      /\ (reconnectWait \in {"none", "current", "stale"})'
      /\ (connectPromise \in {"none", "user", "force", "hung"})'
      /\ (initialConnectInProgress \in BOOLEAN)'
  BY <1>5 DEF Inv, TypeOK, stateVars, socketVars, connectVars
<1>7. TypeOK'
  BY <1>2, <1>3, <1>4, <1>5, <1>6 DEF Inv, TypeOK
<1> QED
  BY <1>1, <1>2, <1>7
     DEF ForceAttemptGivesUp, stateVars, socketVars, connectVars,
         Inv, MutexMatchesState, SocketIsWired, ClosedIsQuiet, LinkMatchesState,
         WaitMatchesState, FlagMatchesSocket, TimerHasAttempt

\* An attempt that has nothing to do resets the manager.
LEMMA ForceAttemptSkippedInv == Inv /\ ForceAttemptSkipped => Inv'
<1> SUFFICES ASSUME Inv, ForceAttemptSkipped PROVE Inv'
  OBVIOUS
<1>1. /\ attempt' \in 0 .. MaxAttempts /\ scheduled' = FALSE
      /\ budget' \in {"unset", "running", "spent"}
  BY CancelType DEF ForceAttemptSkipped
<1>2. UNCHANGED <<stateVars, socketVars, connectVars, serverUrl, resolveVars,
                  serverUrlResolver, wakeSubscribed, closeRequest>>
  BY DEF ForceAttemptSkipped
<1>3. /\ (connState \in ConnStates /\ uncaught \in BOOLEAN)'
      /\ (link \in Links /\ persistentHandlersRegistered \in BOOLEAN /\ wired \in BOOLEAN)'
      /\ (reconnectWait \in {"none", "current", "stale"})'
      /\ (connectPromise \in {"none", "user", "force", "hung"})'
      /\ (initialConnectInProgress \in BOOLEAN)'
  BY <1>2 DEF Inv, TypeOK, stateVars, socketVars, connectVars
<1>4. TypeOK'
  BY <1>1, <1>3, <1>2 DEF Inv, TypeOK, resolveVars
<1> QED
  BY <1>1, <1>4
     DEF ForceAttemptSkipped, stateVars, socketVars, connectVars, resolveVars,
         Inv, MutexMatchesState, SocketIsWired, ClosedIsQuiet, LinkMatchesState,
         WaitMatchesState, FlagMatchesSocket, TimerHasAttempt

\* The counter has room for the attempt a pending timer announces.
LEMMA AttemptInRange ==
    ASSUME Inv, scheduled
    PROVE  attempt + 1 \in 0 .. MaxAttempts
<1>1. MaxAttempts \in Nat
  BY ParametersAssumption
<1> QED
  BY <1>1 DEF Inv, TypeOK, TimerHasAttempt

\* An attempt with an invalid URL drops the socket before it fails.
LEMMA ForceAttemptRejectedInv == Inv /\ ForceAttemptRejected => Inv'
<1> SUFFICES ASSUME Inv, ForceAttemptRejected PROVE Inv'
  OBVIOUS
<1>1. closeRequest # "done" /\ connState = "disconnected"
  BY DEF Inv, ClosedIsQuiet, ForceAttemptRejected, ForceAttemptDue
<1>2. /\ attempt' \in 0 .. MaxAttempts /\ scheduled' \in BOOLEAN
      /\ budget' \in {"unset", "running", "spent"}
      /\ resolving' \in 0 .. MaxResolvers
      /\ scheduled' => attempt' < MaxAttempts
  BY AttemptInRange, ScheduleNewType DEF Inv, ForceAttemptRejected, ForceAttemptDue
<1>3. /\ link' = "none" /\ wired' = FALSE
      /\ persistentHandlersRegistered' = FALSE
      /\ reconnectWait' \in {"none", "stale"}
  BY DropSocketFacts DEF ForceAttemptRejected
<1>4. TypeOK'
  BY <1>2, <1>3 DEF Inv, TypeOK, Links, ForceAttemptRejected, stateVars, connectVars
<1> QED
  BY <1>1, <1>2, <1>3, <1>4
     DEF ForceAttemptRejected, stateVars, connectVars,
         Inv, MutexMatchesState, SocketIsWired, ClosedIsQuiet, LinkMatchesState,
         WaitMatchesState, FlagMatchesSocket, TimerHasAttempt

\* An attempt behind a mutex that never opens drops the socket first.
LEMMA ForceAttemptHangsInv == Inv /\ ForceAttemptHangs => Inv'
<1> SUFFICES ASSUME Inv, ForceAttemptHangs PROVE Inv'
  OBVIOUS
<1>1. closeRequest # "done" /\ connState = "disconnected"
  BY DEF Inv, ClosedIsQuiet, ForceAttemptHangs, ForceAttemptDue
<1>2. attempt' \in 0 .. MaxAttempts /\ scheduled' = FALSE
  BY AttemptInRange DEF ForceAttemptHangs, ForceAttemptDue
<1>3. /\ link' = "none" /\ wired' = FALSE
      /\ persistentHandlersRegistered' = FALSE
      /\ reconnectWait' \in {"none", "stale"}
  BY DropSocketFacts DEF ForceAttemptHangs
<1>4. TypeOK'
  BY <1>2, <1>3 DEF Inv, TypeOK, Links, ForceAttemptHangs, EnsureStarted, stateVars,
                    connectVars, resolveVars
<1> QED
  BY <1>1, <1>2, <1>3, <1>4
     DEF ForceAttemptHangs, stateVars, connectVars, resolveVars,
         Inv, MutexMatchesState, SocketIsWired, ClosedIsQuiet, LinkMatchesState,
         WaitMatchesState, FlagMatchesSocket, TimerHasAttempt

\* A resolver that answers was outstanding, so the client is not quietly closed.
LEMMA ResolverFindsUrlInv ==
    ASSUME Inv, NEW url \in ValidUrls \cup BadUrls, ResolverFindsUrl(url)
    PROVE  Inv'
<1>1. closeRequest # "done"
  BY DEF Inv, TypeOK, ClosedIsQuiet, ResolverFindsUrl
<1>2. /\ attempt' \in 0 .. MaxAttempts /\ scheduled' = TRUE /\ attempt' < MaxAttempts
      /\ budget' \in {"unset", "running", "spent"}
  BY RestartType DEF ResolverFindsUrl
<1>3. resolving' \in 0 .. MaxResolvers
  BY ParametersAssumption DEF Inv, TypeOK, ResolverFindsUrl
<1>4. TypeOK'
  BY <1>2, <1>3 DEF Inv, TypeOK, ResolverFindsUrl, stateVars, socketVars, connectVars
<1> QED
  BY <1>1, <1>2, <1>4
     DEF ResolverFindsUrl, stateVars, socketVars, connectVars,
         Inv, MutexMatchesState, SocketIsWired, ClosedIsQuiet, LinkMatchesState,
         WaitMatchesState, FlagMatchesSocket, TimerHasAttempt

\* The same for an answer without a URL; its retry timer stays in range.
LEMMA ResolverFindsNothingInv == Inv /\ ResolverFindsNothing => Inv'
<1> SUFFICES ASSUME Inv, ResolverFindsNothing PROVE Inv'
  OBVIOUS
<1>1. closeRequest # "done"
  BY DEF Inv, TypeOK, ClosedIsQuiet, ResolverFindsNothing
<1>2. resolving' \in 0 .. MaxResolvers
  BY ParametersAssumption DEF Inv, TypeOK, ResolverFindsNothing
<1>3. urlResolveTimer' \in BOOLEAN /\ orphanTimers' \in 0 .. MaxOrphans
  <2>1. MaxOrphans \in Nat
    BY ParametersAssumption
  <2>2. ScheduleUrlResolveRetry
    BY DEF ResolverFindsNothing
  <2>3. CASE connState # "disconnected"
    BY <2>2, <2>3 DEF Inv, TypeOK, ScheduleUrlResolveRetry
  <2>4. CASE connState = "disconnected" /\ urlResolveTimer
    BY <2>1, <2>2, <2>4 DEF Inv, TypeOK, ScheduleUrlResolveRetry
  <2>5. CASE connState = "disconnected" /\ ~urlResolveTimer
    BY <2>2, <2>5 DEF Inv, TypeOK, ScheduleUrlResolveRetry
  <2> QED
    BY <2>3, <2>4, <2>5
<1>4. TypeOK'
  BY <1>2, <1>3 DEF Inv, TypeOK, ResolverFindsNothing, stateVars, socketVars,
                    connectVars, forceVars
<1> QED
  BY <1>1, <1>4
     DEF ResolverFindsNothing, stateVars, socketVars, connectVars, forceVars,
         Inv, MutexMatchesState, SocketIsWired, ClosedIsQuiet, LinkMatchesState,
         WaitMatchesState, FlagMatchesSocket, TimerHasAttempt

\* A URL timer that fires was pending, so the client is not quietly closed.
LEMMA UrlTimerFiresInv == Inv /\ UrlTimerFires => Inv'
<1> SUFFICES ASSUME Inv, UrlTimerFires PROVE Inv'
  OBVIOUS
<1>1. closeRequest # "done"
  BY DEF Inv, TypeOK, ClosedIsQuiet, UrlTimerFires
<1>2. urlResolveTimer' \in BOOLEAN /\ orphanTimers' \in 0 .. MaxOrphans
  <2>1. MaxOrphans \in Nat
    BY ParametersAssumption
  <2>2. CASE urlResolveTimer' = FALSE /\ UNCHANGED orphanTimers
    BY <2>2 DEF Inv, TypeOK
  <2>3. CASE orphanTimers > 0 /\ orphanTimers' = orphanTimers - 1 /\ UNCHANGED urlResolveTimer
    BY <2>1, <2>3 DEF Inv, TypeOK
  <2> QED
    BY <2>2, <2>3 DEF UrlTimerFires
<1>3. resolving' \in 0 .. MaxResolvers
  <2>1. MaxResolvers \in Nat
    BY ParametersAssumption
  <2> QED
    BY <2>1 DEF Inv, TypeOK, UrlTimerFires, HandleServerUrlResolve
<1>4. TypeOK'
  BY <1>2, <1>3 DEF Inv, TypeOK, UrlTimerFires, stateVars, socketVars, connectVars,
                    forceVars
<1> QED
  BY <1>1, <1>4
     DEF UrlTimerFires, stateVars, socketVars, connectVars, forceVars,
         Inv, MutexMatchesState, SocketIsWired, ClosedIsQuiet, LinkMatchesState,
         WaitMatchesState, FlagMatchesSocket, TimerHasAttempt

\* Waking up needs the subscription disconnect() ends, and keeps the socket.
LEMMA WakeFromSleepInv == Inv /\ WakeFromSleep => Inv'
<1> SUFFICES ASSUME Inv, WakeFromSleep PROVE Inv'
  OBVIOUS
<1>1. /\ connState \in {"disconnected", "connected"} /\ connState' = "disconnected"
      /\ UNCHANGED uncaught
  BY Transitions DEF Inv, TypeOK, WakeFromSleep, SetState
<1>2. closeRequest # "done"
  BY DEF Inv, ClosedIsQuiet, WakeFromSleep
<1>3. /\ attempt' \in 0 .. MaxAttempts /\ scheduled' = TRUE /\ attempt' < MaxAttempts
      /\ budget' \in {"unset", "running", "spent"}
  BY RestartType DEF WakeFromSleep
<1>4. TypeOK'
  BY <1>1, <1>3 DEF Inv, TypeOK, ConnStates, WakeFromSleep, socketVars, connectVars,
                    resolveVars
<1> QED
  BY <1>1, <1>2, <1>3, <1>4
     DEF WakeFromSleep, socketVars, connectVars, resolveVars,
         Inv, MutexMatchesState, SocketIsWired, ClosedIsQuiet, LinkMatchesState,
         WaitMatchesState, FlagMatchesSocket, TimerHasAttempt

\* disconnect() lets go of the socket and of everything that is scheduled.
LEMMA UserDisconnectInv == Inv /\ UserDisconnect => Inv'
<1> SUFFICES ASSUME Inv, UserDisconnect PROVE Inv'
  OBVIOUS
<1>1. connState' = "disconnected" /\ UNCHANGED uncaught
  BY Transitions DEF Inv, TypeOK, UserDisconnect, SetState
<1>2. /\ attempt' \in 0 .. MaxAttempts /\ scheduled' = FALSE
      /\ budget' \in {"unset", "running", "spent"}
  BY CancelType DEF UserDisconnect, StopEverything
<1>3. /\ link' = "none" /\ wired' = FALSE
      /\ persistentHandlersRegistered' = FALSE
      /\ reconnectWait' \in {"none", "stale"}
  BY DropSocketFacts DEF UserDisconnect
<1>4. connectPromise' \in {"none", "hung"}
  BY DEF UserDisconnect
<1>5. TypeOK'
  BY <1>1, <1>2, <1>3, <1>4
     DEF Inv, TypeOK, ConnStates, Links, UserDisconnect, StopEverything
<1>6. ClosedIsQuiet'
  BY <1>1, <1>2, <1>3 DEF Inv, TypeOK, ClosedIsQuiet, UserDisconnect, StopEverything
<1> QED
  BY <1>1, <1>2, <1>3, <1>4, <1>5, <1>6
     DEF Inv, MutexMatchesState, SocketIsWired, LinkMatchesState, WaitMatchesState,
         FlagMatchesSocket, TimerHasAttempt

\* A stuttering step changes nothing.
LEMMA StutterInv == Inv /\ UNCHANGED vars => Inv'
BY DEF TypeOK, vars, socketVars, connectVars, stateVars, forceVars, resolveVars,
       Inv, MutexMatchesState, SocketIsWired, ClosedIsQuiet, LinkMatchesState,
         WaitMatchesState, FlagMatchesSocket, TimerHasAttempt

\* Inv is inductive.
LEMMA NextInv == Inv /\ [Next]_vars => Inv'
<1> SUFFICES ASSUME Inv, [Next]_vars PROVE Inv'
  OBVIOUS
<1>1. ASSUME NEW url \in ValidUrls, UserConnect(url) PROVE Inv'
  <2>1. connState = "disconnected" /\ connectPromise # "hung"
    BY <1>1 DEF UserConnect
  <2>2. StartConnect(url, "user") /\ closeRequest' = "none"
    BY <1>1 DEF UserConnect
  <2> QED
    BY <2>1, <2>2, StartConnectInv
<1>2. CASE ForceAttemptConnects
  <2>1. connState = "disconnected" /\ connectPromise # "hung" /\ serverUrl \in ValidUrls
    BY <1>2 DEF ForceAttemptConnects, ForceAttemptDue
  <2>2. StartConnect(serverUrl, "force")
    BY <1>2 DEF ForceAttemptConnects
  <2>3. closeRequest' = closeRequest /\ closeRequest # "done"
    BY <1>2 DEF ForceAttemptConnects, ForceAttemptDue, Inv, ClosedIsQuiet
  <2> QED
    BY <2>1, <2>2, <2>3, StartConnectInv
<1>3. ASSUME NEW url \in ValidUrls \cup BadUrls, ResolverFindsUrl(url) PROVE Inv'
  BY <1>3, ResolverFindsUrlInv
<1>4. CASE UserConnectReturnsEarly \/ UserDisconnectIgnored \/ UserDisconnect
             \/ SetServerUrlResolver
  BY <1>4, UserConnectReturnsEarlyInv, UserDisconnectIgnoredInv, UserDisconnectInv,
     SetServerUrlResolverInv
<1>5. CASE Socket
  BY <1>5, ConnectSucceedsInv, ConnectFailsInv, EngineClosesInv, ServerDisconnectsInv,
     EngineReopensInv, HandshakeAnsweredInv, ReconnectFailsInv DEF Socket
<1>6. CASE Timers
  BY <1>2, <1>6, ReconnectWaitEndsInv, StaleWaitEndsInv, ForceAttemptGivesUpInv,
     ForceAttemptSkippedInv, ForceAttemptRejectedInv, ForceAttemptHangsInv,
     UrlTimerFiresInv, WakeFromSleepInv, TimePassesInv DEF Timers
<1>7. CASE ResolverFindsNothing
  BY <1>7, ResolverFindsNothingInv
<1>8. CASE UNCHANGED vars
  BY <1>8, StutterInv
<1> QED
  BY <1>1, <1>3, <1>4, <1>5, <1>6, <1>7, <1>8 DEF Next, User, Resolver

-----------------------------------------------------------------------------
(* What holds of every run of the client *)

\* Inv holds in every reachable state.
THEOREM Invariance == Spec => []Inv
BY InitInv, NextInv, PTL DEF Spec

\* Every variable stays in its range; in particular the attempt counter never
\* passes the limit of the strategy.
THEOREM TypeCorrect == Spec => []TypeOK
<1>1. Inv => TypeOK
  BY DEF Inv
<1> QED
  BY <1>1, Invariance, PTL

\* The connect mutex is held exactly while a connection opens.
THEOREM MutexCorrect == Spec => []MutexMatchesState
<1>1. Inv => MutexMatchesState
  BY DEF Inv
<1> QED
  BY <1>1, Invariance, PTL

\* Every socket the client holds has the persistent handlers.
THEOREM SocketsAreWired == Spec => []SocketIsWired
<1>1. Inv => SocketIsWired
  BY DEF Inv
<1> QED
  BY <1>1, Invariance, PTL

\* A client closed with no discovery outstanding has nothing left running.
THEOREM ClosedClientsAreQuiet == Spec => []ClosedIsQuiet
<1>1. Inv => ClosedIsQuiet
  BY DEF Inv
<1> QED
  BY <1>1, Invariance, PTL

\* A client that says 'connecting' has a handshake under way that ends one way or
\* the other, or the engine closed under it and an error escaped to the event loop.
ConnectingIsOpening == connState = "connecting" => link = "opening" \/ (link = "dead" /\ uncaught)

LEMMA ConnectingIsOpeningNext ==
    ASSUME Inv, ConnectingIsOpening, [Next]_vars PROVE ConnectingIsOpening'
<1> SUFFICES ASSUME connState' = "connecting"
             PROVE  link' = "opening" \/ (link' = "dead" /\ uncaught')
  BY DEF ConnectingIsOpening
<1>1. ASSUME NEW url, NEW by, StartConnect(url, by) PROVE link' = "opening"
  BY <1>1 DEF StartConnect, EstablishConnection
<1>2. CASE UNCHANGED <<stateVars, link>>
  BY <1>2 DEF stateVars, ConnectingIsOpening
<1>3. CASE User
  BY <1>1, <1>2, <1>3, Transitions
     DEF User, UserConnect, UserConnectReturnsEarly, UserDisconnectIgnored, UserDisconnect,
         SetServerUrlResolver, SetState, socketVars, Inv, TypeOK
<1>4. CASE EngineCloses
  <2>1. ~CanSetState("reconnecting") /\ connState' = connState
    BY <1>4 DEF EngineCloses, SetState
  <2> QED
    BY <1>4, <2>1 DEF EngineCloses, SetState
<1>5. CASE ConnectSucceeds \/ ConnectFails \/ ServerDisconnects \/ ReconnectFails
  <2>1. connState = "connecting" /\ link = "opening"
    BY <1>5 DEF ConnectSucceeds, ConnectFails, ServerDisconnects, ReconnectFails, SetState,
                Inv, LinkMatchesState
  <2> QED
    BY <1>5, <2>1, Transitions
       DEF ConnectSucceeds, ConnectFails, ServerDisconnects, ReconnectFails, SetState, Inv, TypeOK
<1>6. CASE EngineReopens \/ HandshakeAnswered
  BY <1>6 DEF EngineReopens, HandshakeAnswered, stateVars, Inv, LinkMatchesState
<1>7. CASE ReconnectWaitEnds \/ WakeFromSleep
  BY <1>7 DEF ReconnectWaitEnds, WakeFromSleep, SetState, socketVars, ConnectingIsOpening
<1>8. CASE ForceAttemptRejected \/ ForceAttemptHangs
  BY <1>8 DEF ForceAttemptRejected, ForceAttemptHangs, ForceAttemptDue, stateVars
<1>9. CASE \/ StaleWaitEnds \/ ForceAttemptGivesUp \/ ForceAttemptSkipped
           \/ ForceAttemptConnects \/ UrlTimerFires \/ TimePasses
  BY <1>1, <1>2, <1>9 DEF StaleWaitEnds, ForceAttemptGivesUp, ForceAttemptSkipped,
     ForceAttemptConnects, UrlTimerFires, TimePasses, socketVars
<1>10. CASE Resolver
  BY <1>2, <1>10 DEF Resolver, ResolverFindsUrl, ResolverFindsNothing, socketVars
<1>11. CASE UNCHANGED vars
  BY <1>2, <1>11 DEF vars, socketVars
<1> QED
  BY <1>3, <1>4, <1>5, <1>6, <1>7, <1>8, <1>9, <1>10, <1>11 DEF Next, Socket, Timers

\* The safety that ConnectSettles rests on: a connect() that waits has a handshake
\* to wait for, except after the error ConnectSettles excuses.
THEOREM ConnectHasHandshake == Spec => []ConnectingIsOpening
<1>1. Init => ConnectingIsOpening
  BY DEF Init, ConnectingIsOpening
<1> QED
  BY <1>1, ConnectingIsOpeningNext, Invariance, PTL DEF Spec

-----------------------------------------------------------------------------
(* What a step may never do *)

\* Only onConnect and the end of a reconnect handler's wait mark a client
\* connected, and the handler is one of the current socket.
THEOREM ConnectedSocketsOnly == Spec => ConnectedOnlyWhenUp
<1> DEFINE Step == connState # "connected" /\ connState' = "connected" =>
                      link' = "up" \/ reconnectWait = "current"
<1>1. Inv /\ [Next]_vars => Step
  <2> SUFFICES ASSUME Inv, [Next]_vars PROVE Step
    OBVIOUS
  <2>1. ASSUME NEW url \in ValidUrls, UserConnect(url) PROVE Step
    BY <2>1 DEF UserConnect, StartConnect, EstablishConnection, SetState
  <2>2. CASE \/ ConnectSucceeds \/ ReconnectWaitEnds
    BY <2>2 DEF ConnectSucceeds, ReconnectWaitEnds
  <2>3. CASE \/ UserConnectReturnsEarly \/ UserDisconnectIgnored \/ SetServerUrlResolver
             \/ EngineReopens \/ HandshakeAnswered \/ UNCHANGED vars
    BY <2>3 DEF UserConnectReturnsEarly, UserDisconnectIgnored, SetServerUrlResolver,
                EngineReopens, HandshakeAnswered, vars, stateVars
  <2>4. CASE \/ ConnectFails \/ EngineCloses \/ ServerDisconnects \/ ReconnectFails
             \/ WakeFromSleep \/ UserDisconnect
    BY <2>4 DEF ConnectFails, EngineCloses, ServerDisconnects, ReconnectFails,
                WakeFromSleep, UserDisconnect, SetState
  <2>5. CASE ForceAttemptConnects
    BY <2>5 DEF ForceAttemptConnects, StartConnect, EstablishConnection, SetState
  <2>6. CASE \/ StaleWaitEnds \/ ForceAttemptGivesUp \/ ForceAttemptSkipped
             \/ ForceAttemptRejected \/ ForceAttemptHangs \/ UrlTimerFires \/ TimePasses
    BY <2>6 DEF StaleWaitEnds, ForceAttemptGivesUp, ForceAttemptSkipped,
                ForceAttemptRejected, ForceAttemptHangs, UrlTimerFires, TimePasses, stateVars
  <2>7. CASE Resolver
    BY <2>7 DEF Resolver, ResolverFindsUrl, ResolverFindsNothing, stateVars
  <2> QED
    BY <2>1, <2>2, <2>3, <2>4, <2>5, <2>6, <2>7 DEF Next, User, Socket, Timers
<1> QED
  BY <1>1, Invariance, PTL DEF Spec, ConnectedOnlyWhenUp

\* Timers, resolvers and wake-ups leave the live socket of a connected client
\* alone.
THEOREM LiveConnectionsKept == Spec => LiveConnectionKept
<1> DEFINE Step == connState = "connected" /\ link = "up" =>
                      \/ link' = "up" /\ connState' = "connected"
                      \/ link' = "retrying" /\ connState' = "reconnecting"
                      \/ link' = "dead" /\ connState' = "disconnected"
                      \/ closeRequest' \in {"leaky", "done"}
<1>1. Inv /\ [Next]_vars => Step
  <2> SUFFICES ASSUME Inv, [Next]_vars, connState = "connected", link = "up" PROVE Step
    OBVIOUS
  <2>1. CASE User
    BY <2>1 DEF User, UserConnect, UserConnectReturnsEarly, UserDisconnectIgnored,
                UserDisconnect, SetServerUrlResolver, stateVars, socketVars
  <2>2. CASE Socket
    BY <2>2, Transitions
       DEF Inv, TypeOK, Socket, ConnectSucceeds, ConnectFails, EngineCloses,
           ServerDisconnects, EngineReopens, HandshakeAnswered, ReconnectFails, SetState
  <2>3. CASE ReconnectWaitEnds \/ StaleWaitEnds
    BY <2>3, Transitions DEF Inv, TypeOK, ReconnectWaitEnds, StaleWaitEnds, SetState, stateVars
  <2>4. CASE ForceAttemptGivesUp \/ ForceAttemptSkipped \/ UrlTimerFires \/ TimePasses
    BY <2>4 DEF ForceAttemptGivesUp, ForceAttemptSkipped, UrlTimerFires, TimePasses,
                stateVars, socketVars
  <2>5. CASE ForceAttemptRejected \/ ForceAttemptHangs \/ ForceAttemptConnects \/ WakeFromSleep
    BY <2>5 DEF ForceAttemptRejected, ForceAttemptHangs, ForceAttemptConnects,
                ForceAttemptDue, WakeFromSleep
  <2>6. CASE Resolver
    BY <2>6 DEF Resolver, ResolverFindsUrl, ResolverFindsNothing, stateVars, socketVars
  <2>7. CASE UNCHANGED vars
    BY <2>7 DEF vars, stateVars, socketVars
  <2> QED
    BY <2>1, <2>2, <2>3, <2>4, <2>5, <2>6, <2>7 DEF Next, Timers
<1> QED
  BY <1>1, Invariance, PTL DEF Spec, LiveConnectionKept

-----------------------------------------------------------------------------
(* The client keeps trying *)

\* A socket and a force timer have a URL to go to, and whatever waits for the
\* resolver has one to call.
HasTarget ==
    /\ link # "none" \/ scheduled => serverUrl # NoUrl
    /\ resolving > 0 \/ urlResolveTimer \/ orphanTimers > 0 => serverUrlResolver

LEMMA ScheduleTarget ==
    ASSUME TypeOK, HasTarget, NEW a, ScheduleNew(a) \/ Schedule
    PROVE  /\ UNCHANGED resolving \/ serverUrlResolver
           /\ resolving' \in Nat
BY ParametersAssumption DEF TypeOK, HasTarget, ScheduleNew, Schedule, HandleServerUrlResolve

LEMMA TargetKept == Inv /\ HasTarget /\ [Next]_vars => HasTarget'
<1> SUFFICES ASSUME Inv, HasTarget, [Next]_vars PROVE HasTarget'
  OBVIOUS
<1> USE DEF HasTarget
<1>1. ASSUME NEW url \in ValidUrls \cup BadUrls, NEW by, StartConnect(url, by) PROVE HasTarget'
  BY <1>1, ParametersAssumption DEF StartConnect, Cancel
<1>2. CASE User
  BY <1>1, <1>2 DEF User, UserConnect, UserConnectReturnsEarly, UserDisconnectIgnored, UserDisconnect,
     SetServerUrlResolver, StopEverything, Cancel, DropSocket,
     stateVars, socketVars, connectVars, forceVars, resolveVars
<1>3. CASE ConnectFails \/ ReconnectFails
  <2>1. /\ link # "none"
        /\ UNCHANGED <<serverUrl, urlResolveTimer, orphanTimers, serverUrlResolver>>
    BY <1>3 DEF ConnectFails, ReconnectFails
  <2>2. UNCHANGED resolving \/ serverUrlResolver
    BY <1>3, ScheduleTarget DEF ConnectFails, ReconnectFails, AttemptRejected, Inv
  <2> QED
    BY <2>1, <2>2
<1>4. CASE \/ ConnectSucceeds \/ EngineCloses \/ ServerDisconnects \/ EngineReopens
           \/ HandshakeAnswered \/ ReconnectWaitEnds \/ StaleWaitEnds \/ TimePasses
  BY <1>4 DEF ConnectSucceeds, EngineCloses, ServerDisconnects, EngineReopens, HandshakeAnswered,
     ReconnectWaitEnds, StaleWaitEnds, TimePasses, forceVars, resolveVars, socketVars
<1>5. CASE ForceAttemptGivesUp \/ UrlTimerFires
  <2>1. \A state : HandleServerUrlResolve(state) => UNCHANGED resolving \/ serverUrlResolver
    BY DEF HandleServerUrlResolve
  <2>2. orphanTimers \in Nat
    BY ParametersAssumption DEF Inv, TypeOK
  <2> QED
    BY <1>5, <2>1, <2>2 DEF ForceAttemptGivesUp, UrlTimerFires, forceVars, socketVars
<1>6. CASE ForceAttemptRejected
  <2>1. UNCHANGED resolving \/ serverUrlResolver
    BY <1>6, ScheduleTarget DEF ForceAttemptRejected, Inv
  <2> QED
    BY <1>6, <2>1 DEF ForceAttemptRejected, ForceAttemptDue, DropSocket
<1>7. CASE ForceAttemptSkipped \/ ForceAttemptHangs \/ ForceAttemptConnects
  BY <1>1, <1>7 DEF ForceAttemptSkipped, ForceAttemptHangs, ForceAttemptConnects, ForceAttemptDue,
     Cancel, DropSocket, resolveVars, socketVars
<1>8. CASE WakeFromSleep
  BY <1>8 DEF WakeFromSleep, Inv, LinkMatchesState, socketVars, resolveVars
<1>9. CASE Resolver
  <2>1. resolving \in Nat /\ orphanTimers \in Nat
    BY ParametersAssumption DEF Inv, TypeOK
  <2> QED
    BY <1>9, <2>1, ParametersAssumption
       DEF Resolver, ResolverFindsUrl, ResolverFindsNothing, ScheduleUrlResolveRetry, forceVars, socketVars
<1>10. CASE UNCHANGED vars
  BY <1>10 DEF vars, socketVars, forceVars, resolveVars
<1> QED
  BY <1>2, <1>3, <1>4, <1>5, <1>6, <1>7, <1>8, <1>9, <1>10 DEF Next, Socket, Timers

LEMMA TargetInvariance == Spec => []HasTarget
<1>1. Init => HasTarget
  BY DEF Init, HasTarget
<1> QED
  BY <1>1, TargetKept, Invariance, PTL DEF Spec

\* schedule() leaves a timer or a resolver call, unless the strategy says stop and
\* there is no resolver.
LEMMA ScheduleDrives ==
    ASSUME TypeOK, NEW a \in 0 .. MaxAttempts, ScheduleNew(a)
    PROVE  \/ scheduled' \/ resolving' > 0
           \/ ~serverUrlResolver /\ (attempt' = MaxAttempts \/ budget' = "spent")
<1>1. CASE ShouldContinue(a)
  BY <1>1 DEF ScheduleNew
<1>2. CASE ~ShouldContinue(a)
  <2>1. CASE serverUrlResolver
    BY <1>2, <2>1, ParametersAssumption DEF TypeOK, ScheduleNew, HandleServerUrlResolve
  <2>2. CASE ~serverUrlResolver
    BY <1>2, <2>2, ParametersAssumption DEF ScheduleNew, ShouldContinue, EnsureStarted
  <2> QED
    BY <2>1, <2>2
<1> QED
  BY <1>1, <1>2

\* Reconnection hands over from tier to tier, and ends only in the ways that
\* KeepsTrying names.
THEOREM ClientKeepsTrying == Spec => KeepsTrying
<1> DEFINE Ended == \/ UserDisconnect
                    \/ ConnectFails /\ connectPromise = "user"
                    \/ ServerDisconnects
                    \/ ~serverUrlResolver /\ (attempt' = MaxAttempts \/ budget' = "spent")
                    \/ connectPromise = "hung"
           Step == Driven /\ ~Driven' => Ended
<1>1. ASSUME Inv, HasTarget, Next PROVE Step
  <2> SUFFICES ASSUME Driven, ~Driven' PROVE Ended
    OBVIOUS
  <2>1. /\ connState' = "disconnected" /\ ~scheduled'
        /\ ~(resolving' > 0) /\ ~urlResolveTimer' /\ ~(orphanTimers' > 0)
    BY DEF Driven, UnderWay
  <2>2. /\ resolving \in Nat /\ orphanTimers \in Nat /\ attempt \in 0 .. MaxAttempts
        /\ MaxAttempts \in Nat \ {0}
    BY <1>1, ParametersAssumption DEF Inv, TypeOK
  <2>3. ASSUME NEW url, NEW by, StartConnect(url, by), connState = "disconnected" PROVE FALSE
    BY <1>1, <2>1, <2>3, Transitions DEF StartConnect, EstablishConnection, SetState, Inv, TypeOK
  <2>4. CASE User
    BY <2>1, <2>3, <2>4 DEF User, UserConnect, UserConnectReturnsEarly, UserDisconnectIgnored,
       SetServerUrlResolver, Driven, UnderWay, stateVars, forceVars, resolveVars
  <2>5. CASE ConnectFails \/ ReconnectFails
    <3>1. CASE connectPromise = "user" /\ ConnectFails
      BY <3>1
    <3>2. CASE connectPromise # "user" \/ ~ConnectFails
      <4>1. Schedule
        <5>1. CASE ReconnectFails
          BY <5>1 DEF ReconnectFails
        <5>2. CASE ConnectFails
          <6>1. connectPromise = "force"
            BY <1>1, <3>2, <5>2 DEF ConnectFails, Inv, LinkMatchesState, MutexMatchesState
          <6> QED
            BY <5>2, <6>1 DEF ConnectFails, AttemptRejected
        <5> QED
          BY <2>5, <5>1, <5>2
      <4>2. ~scheduled /\ ScheduleNew(attempt)
        BY <2>1, <4>1 DEF Schedule, forceVars
      <4> QED
        BY <1>1, <2>1, <2>2, <4>2, ScheduleDrives DEF Inv
    <3> QED
      BY <3>1, <3>2
  <2>6. CASE ConnectSucceeds
    BY <1>1, <2>1, <2>6, Transitions DEF ConnectSucceeds, SetState, Inv, TypeOK, LinkMatchesState
  <2>7. CASE EngineCloses \/ ReconnectWaitEnds
    BY <2>1, <2>7 DEF EngineCloses, ReconnectWaitEnds, SetState, Driven, UnderWay, forceVars, resolveVars
  <2>8. CASE EngineReopens \/ HandshakeAnswered \/ StaleWaitEnds \/ TimePasses
    BY <2>1, <2>8 DEF EngineReopens, HandshakeAnswered, StaleWaitEnds, TimePasses,
       Driven, UnderWay, stateVars, forceVars, resolveVars
  <2>9. CASE ForceAttemptGivesUp
    <3>1. budget = "spent" /\ budget' = "spent"
      BY <1>1, <2>2, <2>9 DEF ForceAttemptGivesUp, ShouldContinue, EnsureStarted, Inv, TimerHasAttempt
    <3>2. HandleServerUrlResolve("disconnected")
      BY <2>1, <2>9 DEF ForceAttemptGivesUp, stateVars
    <3> QED
      BY <2>1, <2>2, <3>1, <3>2 DEF HandleServerUrlResolve
  <2>10. CASE ForceAttemptSkipped
    BY <1>1, <2>1, <2>10 DEF ForceAttemptSkipped, HasTarget, stateVars
  <2>11. CASE ForceAttemptRejected
    <3>1. attempt + 1 \in 0 .. MaxAttempts /\ ScheduleNew(attempt + 1)
      BY <1>1, <2>2, <2>11 DEF ForceAttemptRejected, ForceAttemptDue, Inv, TimerHasAttempt
    <3> QED
      BY <1>1, <2>1, <2>2, <3>1, ScheduleDrives DEF Inv
  <2>12. CASE ForceAttemptHangs \/ ForceAttemptConnects
    BY <2>3, <2>12 DEF ForceAttemptHangs, ForceAttemptConnects, ForceAttemptDue
  <2>13. CASE UrlTimerFires
    <3>1. serverUrlResolver /\ connState = "disconnected" /\ HandleServerUrlResolve("disconnected")
      BY <1>1, <2>1, <2>13 DEF UrlTimerFires, HasTarget, stateVars
    <3> QED
      BY <2>1, <2>2, <3>1 DEF HandleServerUrlResolve
  <2>14. CASE WakeFromSleep
    BY <2>1, <2>14 DEF WakeFromSleep, Restart
  <2>15. CASE Resolver
    BY <2>1, <2>15 DEF Resolver, ResolverFindsUrl, ResolverFindsNothing, Restart,
       ScheduleUrlResolveRetry, stateVars
  <2> QED
    BY <1>1, <2>4, <2>5, <2>6, <2>7, <2>8, <2>9, <2>10, <2>11, <2>12, <2>13, <2>14, <2>15
       DEF Next, Socket, Timers
<1>2. Inv /\ HasTarget /\ [Next]_vars => [Step]_vars
  BY <1>1
<1> QED
  BY <1>2, Invariance, TargetInvariance, PTL DEF Spec, KeepsTrying

-----------------------------------------------------------------------------
(* The client implements Connection *)

StepOK == C!Next \/ UNCHANGED C!vars

\* The client starts as Connection does.
LEMMA InitImplements == Init => C!Init
BY DEF Init, C!Init

\* Steps that change neither the state nor whether the client is closed.
LEMMA StutterImplements ==
    ASSUME UNCHANGED connState, closeRequest' = closeRequest
    PROVE  StepOK
BY DEF StepOK, C!vars

\* The program's calls are Open and Close, or nothing Connection sees.
LEMMA UserImplements == Inv /\ User => StepOK
<1> SUFFICES ASSUME Inv, User PROVE StepOK
  OBVIOUS
<1>1. ASSUME NEW url \in ValidUrls, UserConnect(url) PROVE StepOK
  <2>1. connState = "disconnected" /\ connState' = "connecting" /\ closeRequest' = "none"
    BY <1>1, Transitions
       DEF Inv, TypeOK, UserConnect, StartConnect, EstablishConnection, SetState
  <2> QED
    BY <2>1 DEF StepOK, C!Next, C!Open
<1>2. CASE UserConnectReturnsEarly
  <2>1. connState = "disconnected" /\ connState' = connState /\ closeRequest' = "none"
    BY <1>2 DEF UserConnectReturnsEarly, stateVars
  <2> QED
    BY <2>1 DEF StepOK, C!Next, C!Open
<1>3. CASE UserDisconnectIgnored
  <2>1. connState' = connState /\ closeRequest = "none" /\ closeRequest' = "ignored"
    BY <1>3 DEF UserDisconnectIgnored, stateVars
  <2> QED
    BY <2>1 DEF StepOK, C!vars
<1>4. CASE UserDisconnect
  <2>1. connState # "disconnected" /\ connState' = "disconnected"
    BY <1>4, Transitions DEF Inv, TypeOK, UserDisconnect, SetState
  <2> QED
    BY <2>1 DEF StepOK, C!Next, C!Close
<1>5. CASE SetServerUrlResolver
  BY <1>5, StutterImplements DEF SetServerUrlResolver, stateVars
<1> QED
  BY <1>1, <1>2, <1>3, <1>4, <1>5 DEF User

\* The steps by which the state changes without the program: each is a
\* transition of Connection or leaves the state as it is.
LEMMA StateChangeImplements ==
    ASSUME Inv, closeRequest' = closeRequest,
           \/ connState \in {"connecting", "reconnecting"} /\ connState' = "connected"
           \/ connState = "connected" /\ connState' = "reconnecting"
           \/ connState' = "disconnected"
           \/ connState' = connState
    PROVE  StepOK
<1>1. CASE connState \in {"connecting", "reconnecting"} /\ connState' = "connected"
  BY <1>1 DEF StepOK, C!Next, C!Establish
<1>2. CASE connState = "connected" /\ connState' = "reconnecting"
  BY <1>2 DEF StepOK, C!Next, C!Lose
<1>3. CASE connState' = "disconnected" /\ connState # "disconnected"
  BY <1>3 DEF StepOK, C!Next, C!GiveUp
<1>4. CASE connState' = connState
  BY <1>4, StutterImplements
<1> QED
  BY <1>1, <1>2, <1>3, <1>4

\* Socket events are Establish, Lose and GiveUp.
LEMMA SocketImplements == Inv /\ Socket => StepOK
<1> SUFFICES ASSUME Inv, Socket PROVE StepOK
  OBVIOUS
<1>1. CASE ConnectSucceeds
  <2>1. connState = "connecting" /\ connState' = "connected" /\ closeRequest' = closeRequest
    BY <1>1, Transitions DEF Inv, TypeOK, LinkMatchesState, ConnectSucceeds, SetState
  <2> QED
    BY <2>1, StateChangeImplements
<1>2. CASE ConnectFails \/ ServerDisconnects \/ ReconnectFails
  <2>1. connState' = "disconnected" /\ closeRequest' = closeRequest
    BY <1>2, Transitions
       DEF Inv, TypeOK, ConnectFails, ServerDisconnects, ReconnectFails, SetState
  <2> QED
    BY <2>1, StateChangeImplements
<1>3. CASE EngineCloses
  <2>1. /\ \/ connState \in {"connected", "reconnecting"} /\ connState' = "reconnecting"
           \/ connState' = connState
        /\ closeRequest' = closeRequest
    BY <1>3, Transitions DEF Inv, TypeOK, EngineCloses, SetState
  <2> QED
    BY <2>1, StateChangeImplements
<1>4. CASE EngineReopens \/ HandshakeAnswered
  BY <1>4, StutterImplements DEF EngineReopens, HandshakeAnswered, stateVars
<1> QED
  BY <1>1, <1>2, <1>3, <1>4 DEF Socket

\* Timers are Establish, Retry and GiveUp; a force timer proves the client open.
LEMMA TimersImplement == Inv /\ Timers => StepOK
<1> SUFFICES ASSUME Inv, Timers PROVE StepOK
  OBVIOUS
<1>1. CASE ReconnectWaitEnds
  <2>1. /\ \/ connState # "disconnected" /\ connState' = "connected"
           \/ connState' = connState
        /\ closeRequest' = closeRequest
    BY <1>1, Transitions DEF Inv, TypeOK, ReconnectWaitEnds, SetState
  <2> QED
    BY <2>1, StateChangeImplements DEF Inv, TypeOK, ConnStates
<1>2. CASE ForceAttemptConnects
  <2>1. connState = "disconnected" /\ connState' = "connecting" /\ closeRequest' = closeRequest
    BY <1>2, Transitions DEF Inv, TypeOK, ForceAttemptConnects, ForceAttemptDue,
                             StartConnect, EstablishConnection, SetState
  <2>2. closeRequest # "done"
    BY <1>2 DEF Inv, ClosedIsQuiet, ForceAttemptConnects, ForceAttemptDue
  <2> QED
    BY <2>1, <2>2 DEF StepOK, C!Next, C!Retry
<1>3. CASE WakeFromSleep
  <2>1. connState' = "disconnected" /\ closeRequest' = closeRequest
    BY <1>3, Transitions DEF Inv, TypeOK, WakeFromSleep, SetState
  <2> QED
    BY <2>1, StateChangeImplements
<1>4. CASE StaleWaitEnds \/ ForceAttemptGivesUp \/ ForceAttemptSkipped
             \/ ForceAttemptRejected \/ ForceAttemptHangs \/ UrlTimerFires \/ TimePasses
  <2>1. connState' = connState /\ closeRequest' = closeRequest
    BY <1>4 DEF StaleWaitEnds, ForceAttemptGivesUp, ForceAttemptSkipped,
                ForceAttemptRejected, ForceAttemptHangs, UrlTimerFires, TimePasses, stateVars
  <2> QED
    BY <2>1, StutterImplements
<1> QED
  BY <1>1, <1>2, <1>3, <1>4 DEF Timers

\* A resolver alone changes no connection state.
LEMMA ResolverImplements == Resolver => StepOK
BY StutterImplements DEF Resolver, ResolverFindsUrl, ResolverFindsNothing, stateVars

\* The client keeps its promise: the four states change only along the
\* transitions of Connection, and a closed client connects again only when the
\* program opens it.
THEOREM ImplementsConnection == Spec => ConnectionSpec
<1>1. Inv /\ [Next]_vars => [C!Next]_(C!vars)
  <2>1. UNCHANGED vars => StepOK
    BY StutterImplements DEF vars, stateVars
  <2> QED
    BY <2>1, UserImplements, SocketImplements, TimersImplement, ResolverImplements
       DEF Next, StepOK
<1> QED
  BY <1>1, InitImplements, Invariance, PTL DEF Spec, ConnectionSpec, C!Spec

-----------------------------------------------------------------------------
(* A client that is connected once, seen by its owner *)

StepSeen == View!Next \/ UNCHANGED View!vars

OnceStep == \A url \in ValidUrls : UserConnect(url) => serverUrl = NoUrl

\* A socket that lives and a client that is up watch for the machine to wake; a
\* client that was never connected, or is for the first time, has nothing that would
\* connect it by itself.
ViewInv ==
    /\ link \in {"up", "retrying", "handshake"} => wakeSubscribed
    /\ connState \in {"connected", "reconnecting"} => wakeSubscribed
    /\ serverUrl = NoUrl => ~UnderWay /\ ~wakeSubscribed
    /\ connectPromise = "user" => ~UnderWay /\ ~wakeSubscribed

\* What a step leaves alone that ViewInv is about but for the tiers.
LEMMA ViewInvStays ==
    ASSUME ViewInv, UNCHANGED <<connState, wakeSubscribed, serverUrl>>,
           link' \in {link, "none", "dead"}, connectPromise' \in {connectPromise, "none"},
           UnderWay' => UnderWay \/ (serverUrl # NoUrl /\ connectPromise' # "user")
    PROVE  ViewInv'
BY DEF ViewInv

\* Only what is under way, or a socket, brings more of it.
LEMMA NothingUnderWay ==
    ASSUME TypeOK
    PROVE  ~UnderWay <=> ~scheduled /\ resolving = 0 /\ ~urlResolveTimer /\ orphanTimers = 0
BY ParametersAssumption DEF UnderWay, TypeOK

LEMMA ViewInvUser == Inv /\ HasTarget /\ ViewInv /\ User /\ OnceStep => ViewInv'
<1> SUFFICES ASSUME Inv, HasTarget, ViewInv, User, OnceStep PROVE ViewInv'
  OBVIOUS
<1>1. ASSUME NEW url \in ValidUrls, UserConnect(url) PROVE ViewInv'
  <2>1. serverUrl = NoUrl /\ ~UnderWay /\ ~wakeSubscribed
    BY <1>1 DEF OnceStep, ViewInv
  <2>2. /\ connState' = "connecting" /\ link' = "opening"
        /\ serverUrl' = url /\ url # NoUrl
        /\ ~scheduled' /\ ~urlResolveTimer' /\ UNCHANGED <<resolving, orphanTimers, wakeSubscribed>>
    BY <1>1, Transitions, ParametersAssumption
       DEF UserConnect, StartConnect, EstablishConnection, SetState, Cancel, Inv, TypeOK
  <2> QED
    BY <2>1, <2>2 DEF ViewInv, UnderWay
<1>2. CASE UserConnectReturnsEarly \/ UserDisconnectIgnored \/ SetServerUrlResolver
  BY <1>2, ViewInvStays
     DEF UserConnectReturnsEarly, UserDisconnectIgnored, SetServerUrlResolver, UnderWay,
         stateVars, socketVars, connectVars, forceVars, resolveVars
<1>3. CASE UserDisconnect
  <2>1. connState' = "disconnected"
    BY <1>3, Transitions DEF UserDisconnect, SetState, Inv, TypeOK
  <2>2. serverUrl # NoUrl
    BY <1>3 DEF UserDisconnect, Inv, TypeOK, ConnStates, LinkMatchesState, HasTarget
  <2> QED
    BY <1>3, <2>1, <2>2 DEF UserDisconnect, StopEverything, DropSocket, ViewInv
<1> QED
  BY <1>1, <1>2, <1>3 DEF User

LEMMA ViewInvSocket == Inv /\ HasTarget /\ ViewInv /\ Socket => ViewInv'
<1> SUFFICES ASSUME Inv, HasTarget, ViewInv, Socket PROVE ViewInv'
  OBVIOUS
<1>0. link # "none" => serverUrl # NoUrl
  BY DEF HasTarget
<1>1. CASE ConnectSucceeds
  <2>1. wakeSubscribed' /\ connectPromise' = "none" /\ serverUrl' # NoUrl
    BY <1>0, <1>1 DEF ConnectSucceeds, ReleaseMutex
  <2> QED
    BY <2>1 DEF ViewInv
<1>2. CASE ConnectFails
  <2>1. /\ connState' = "disconnected" /\ link' = "none" /\ connectPromise' = "none"
        /\ serverUrl' # NoUrl
    BY <1>0, <1>2, Transitions DEF ConnectFails, SetState, DropSocket, ReleaseMutex, Inv, TypeOK
  <2> QED
    BY <2>1 DEF ViewInv
<1>3. CASE ReconnectFails
  <2>1. /\ connState' = "disconnected" /\ link' = "dead" /\ serverUrl' # NoUrl
        /\ UNCHANGED <<connectPromise, wakeSubscribed>>
    BY <1>0, <1>3, Transitions DEF ReconnectFails, SetState, connectVars, Inv, TypeOK
  <2>2. connectPromise # "user"
    BY <1>3 DEF ReconnectFails, ViewInv
  <2> QED
    BY <2>1, <2>2 DEF ViewInv
<1>4. CASE EngineCloses
  <2>1. connState' # connState \/ link' = "retrying" =>
            connState \in {"connected", "reconnecting"} /\ connState' = "reconnecting"
    BY <1>4, Transitions DEF EngineCloses, SetState, Inv, TypeOK
  <2>2. UNCHANGED <<wakeSubscribed, serverUrl, connectPromise>> /\ (UnderWay' <=> UnderWay)
        /\ link' \in {"retrying", "dead"}
    BY <1>4 DEF EngineCloses, connectVars, forceVars, resolveVars, UnderWay
  <2> QED
    BY <2>1, <2>2 DEF ViewInv
<1>5. CASE ServerDisconnects
  <2>1. connState' = "disconnected" /\ link' = "dead"
    BY <1>5, Transitions DEF ServerDisconnects, SetState, Inv, TypeOK
  <2>2. UNCHANGED <<wakeSubscribed, serverUrl, connectPromise>> /\ (UnderWay' <=> UnderWay)
    BY <1>5 DEF ServerDisconnects, connectVars, forceVars, resolveVars, UnderWay
  <2> QED
    BY <2>1, <2>2 DEF ViewInv
<1>6. CASE EngineReopens \/ HandshakeAnswered
  <2>1. /\ UNCHANGED <<connState, wakeSubscribed, serverUrl, connectPromise>>
        /\ (UnderWay' <=> UnderWay) /\ link \in {"retrying", "handshake"}
    BY <1>6 DEF EngineReopens, HandshakeAnswered, stateVars, connectVars, forceVars, resolveVars, UnderWay
  <2> QED
    BY <2>1 DEF ViewInv
<1> QED
  BY <1>1, <1>2, <1>3, <1>4, <1>5, <1>6 DEF Socket

LEMMA ViewInvTimers == Inv /\ HasTarget /\ ViewInv /\ Timers => ViewInv'
<1> SUFFICES ASSUME Inv, HasTarget, ViewInv, Timers PROVE ViewInv'
  OBVIOUS
<1>0. (scheduled \/ urlResolveTimer \/ orphanTimers > 0 => UnderWay)
      /\ (UnderWay => serverUrl # NoUrl /\ connectPromise # "user")
  BY DEF UnderWay, ViewInv
<1>1. CASE ReconnectWaitEnds
  <2>1. connState' # connState => connState = "reconnecting" /\ connState' = "connected"
    BY <1>1, Transitions DEF ReconnectWaitEnds, SetState, Inv, TypeOK, ConnStates, WaitMatchesState
  <2>2. UNCHANGED <<link, wakeSubscribed, serverUrl, connectPromise>> /\ (UnderWay' <=> UnderWay)
    BY <1>1 DEF ReconnectWaitEnds, connectVars, forceVars, resolveVars, UnderWay
  <2> QED
    BY <2>1, <2>2 DEF ViewInv
<1>2. CASE StaleWaitEnds \/ TimePasses
  <2>1. /\ UNCHANGED <<connState, link, wakeSubscribed, serverUrl, connectPromise>>
        /\ UnderWay' <=> UnderWay
    BY <1>2 DEF StaleWaitEnds, TimePasses, stateVars, socketVars, connectVars, forceVars, resolveVars, UnderWay
  <2> QED
    BY <2>1, ViewInvStays
<1>3. CASE \/ ForceAttemptGivesUp \/ ForceAttemptSkipped \/ ForceAttemptRejected \/ ForceAttemptHangs
           \/ UrlTimerFires
  <2>1. UNCHANGED <<connState, wakeSubscribed, serverUrl, connectPromise>> /\ link' \in {link, "none"}
    BY <1>3 DEF ForceAttemptGivesUp, ForceAttemptSkipped, ForceAttemptRejected, ForceAttemptHangs,
       UrlTimerFires, DropSocket, stateVars, socketVars, connectVars
  <2>2. scheduled \/ urlResolveTimer \/ orphanTimers > 0
    BY <1>3 DEF ForceAttemptGivesUp, ForceAttemptSkipped, ForceAttemptRejected, ForceAttemptHangs,
       ForceAttemptDue, UrlTimerFires
  <2> QED
    BY <1>0, <2>1, <2>2, ViewInvStays
<1>4. CASE ForceAttemptConnects
  <2>1. /\ connState' = "connecting" /\ link' = "opening" /\ connectPromise' = "force"
        /\ UNCHANGED <<serverUrl, wakeSubscribed>>
    BY <1>4, Transitions DEF ForceAttemptConnects, ForceAttemptDue, StartConnect,
       EstablishConnection, SetState, Inv, TypeOK
  <2>2. scheduled
    BY <1>4 DEF ForceAttemptConnects, ForceAttemptDue
  <2> QED
    BY <1>0, <2>1, <2>2 DEF ViewInv
<1>5. CASE WakeFromSleep
  <2>1. /\ connState' = "disconnected" /\ wakeSubscribed
        /\ UNCHANGED <<link, serverUrl, connectPromise, wakeSubscribed>>
    BY <1>5, Transitions DEF WakeFromSleep, SetState, socketVars, connectVars, Inv, TypeOK
  <2> QED
    BY <2>1 DEF ViewInv
<1> QED
  BY <1>1, <1>2, <1>3, <1>4, <1>5 DEF Timers

LEMMA ViewInvNext == Inv /\ HasTarget /\ ViewInv /\ [Next]_vars /\ [OnceStep]_vars => ViewInv'
<1> SUFFICES ASSUME Inv, HasTarget, ViewInv, [Next]_vars, [OnceStep]_vars PROVE ViewInv'
  OBVIOUS
<1>1. CASE Resolver
  <2>1. UNCHANGED <<connState, link, wakeSubscribed, connectPromise>> /\ resolving > 0
    BY <1>1 DEF Resolver, ResolverFindsUrl, ResolverFindsNothing, stateVars, socketVars, connectVars
  <2>2. serverUrl' # NoUrl /\ connectPromise # "user"
    BY <1>1, <2>1, ParametersAssumption DEF Resolver, ResolverFindsUrl, ResolverFindsNothing, ViewInv, UnderWay
  <2> QED
    BY <2>1, <2>2 DEF ViewInv
<1>2. CASE UNCHANGED vars
  BY <1>2, ViewInvStays DEF vars, stateVars, socketVars, connectVars, forceVars, resolveVars, UnderWay
<1>3. CASE User /\ ~UNCHANGED vars
  BY <1>3, ViewInvUser
<1> QED
  BY <1>1, <1>2, <1>3, ViewInvSocket, ViewInvTimers DEF Next

\* A client that is down, before and after a step, begins to reconnect only when
\* the tiers are at work already or it watches for the machine to wake.
LEMMA DownSeen ==
    ASSUME connState = "disconnected", connState' = "disconnected", UNCHANGED wakeSubscribed,
           wakeSubscribed \in BOOLEAN, UnderWay' => UnderWay \/ wakeSubscribed
    PROVE  StepSeen
<1>1. ConnOfState = "down" /\ ConnOfState' = "down"
  BY DEF ConnOfState
<1>2. CASE UnderWay' <=> UnderWay
  BY <1>1, <1>2, Zenon DEF StepSeen, View!vars
<1>3. CASE UnderWay /\ ~UnderWay'
  BY <1>1, <1>3, Zenon DEF StepSeen, View!Next, View!ByItself, View!RetryStops
<1>4. CASE ~UnderWay /\ UnderWay'
  BY <1>1, <1>4, Zenon DEF StepSeen, View!Next, View!ByItself, View!Wakes
<1> QED
  BY <1>2, <1>3, <1>4

\* A client that is not down has no tier at work that its owner sees.
LEMMA BusySeen ==
    ASSUME connState # "disconnected", UNCHANGED <<connState, connectPromise, wakeSubscribed>>
    PROVE  StepSeen
<1>1. UNCHANGED ConnOfState
  BY DEF ConnOfState
<1> QED
  BY <1>1, Zenon DEF StepSeen, View!vars

LEMMA GoesDownSeen ==
    ASSUME connState \in ConnStates \ {"disconnected"}, connState' = "disconnected",
           connState = "connecting" => connectPromise # "user", UNCHANGED wakeSubscribed
    PROVE  StepSeen
<1>1. ConnOfState \in {"up", "trying"} /\ ConnOfState' = "down"
  BY DEF ConnOfState, ConnStates
<1> QED
  BY <1>1, Zenon DEF StepSeen, View!Next, View!ByItself, View!GoesDown

\* A step that leaves state and wake detection alone is seen, if what comes under
\* way comes from what was, or wake detection is on.
LEMMA StateKeptSeen ==
    ASSUME Inv, UNCHANGED <<connState, connectPromise, wakeSubscribed>>,
           UnderWay' => UnderWay \/ wakeSubscribed
    PROVE  StepSeen
BY DownSeen, BusySeen DEF Inv, TypeOK

\* The program opens and closes the client.
LEMMA UserSeen == Inv /\ ViewInv /\ User /\ OnceStep => StepSeen
<1> SUFFICES ASSUME Inv, ViewInv, User, OnceStep PROVE StepSeen
  OBVIOUS
<1>1. ASSUME NEW url \in ValidUrls, UserConnect(url) PROVE StepSeen
  <2>1. connState = "disconnected" /\ ~UnderWay /\ ~wakeSubscribed
    BY <1>1 DEF UserConnect, OnceStep, ViewInv
  <2>2. connState' = "connecting" /\ connectPromise' = "user" /\ UNCHANGED wakeSubscribed
    BY <1>1, <2>1, Transitions DEF UserConnect, StartConnect, EstablishConnection, SetState, Inv, TypeOK
  <2>3. ConnOfState = "down" /\ ConnOfState' = "opening"
    BY <2>1, <2>2 DEF ConnOfState
  <2> QED
    BY <2>1, <2>2, <2>3, Zenon DEF StepSeen, View!Next, View!Opens, View!Init
<1>2. CASE UserConnectReturnsEarly \/ UserDisconnectIgnored \/ SetServerUrlResolver
  BY <1>2, StateKeptSeen
     DEF UserConnectReturnsEarly, UserDisconnectIgnored, SetServerUrlResolver, UnderWay,
         stateVars, socketVars, connectVars, forceVars, resolveVars
<1>3. CASE UserDisconnect
  <2>1. /\ connState \in ConnStates \ {"disconnected"} /\ connState' = "disconnected"
        /\ wakeSubscribed' = FALSE
    BY <1>3, Transitions DEF UserDisconnect, StopEverything, SetState, Inv, TypeOK
  <2>2. ConnOfState # "down" /\ ConnOfState' = "down"
    BY <2>1 DEF ConnOfState, ConnStates
  <2> QED
    BY <2>1, <2>2, Zenon DEF StepSeen, View!Next, View!Closes
<1> QED
  BY <1>1, <1>2, <1>3 DEF User

\* Socket events.
LEMMA SocketSeen == Inv /\ ViewInv /\ Socket => StepSeen
<1> SUFFICES ASSUME Inv, ViewInv, Socket PROVE StepSeen
  OBVIOUS
<1>1. CASE ConnectSucceeds
  <2>1. connState = "connecting" /\ connState' = "connected" /\ wakeSubscribed' = TRUE
    BY <1>1, Transitions DEF Inv, TypeOK, LinkMatchesState, ConnectSucceeds, SetState
  <2>2. ConnOfState \in {"opening", "trying"} /\ ConnOfState' = "up"
    BY <2>1 DEF ConnOfState
  <2> QED
    BY <2>1, <2>2, Zenon
       DEF StepSeen, View!Next, View!ByItself, View!OpeningSucceeds, View!Recovers
<1>2. CASE ConnectFails
  <2>1. /\ connState = "connecting" /\ connState' = "disconnected" /\ UNCHANGED wakeSubscribed
        /\ connectPromise = "user" => UNCHANGED <<forceVars, resolveVars>>
    BY <1>2, Transitions DEF ConnectFails, SetState, AttemptRejected, Inv, TypeOK, LinkMatchesState, resolveVars
  <2>2. CASE connectPromise = "user"
    <3>1. ~UnderWay /\ ~UnderWay'
      BY <2>1, <2>2 DEF ViewInv, UnderWay, forceVars, resolveVars
    <3>2. ConnOfState = "opening" /\ ConnOfState' = "down"
      BY <2>1, <2>2 DEF ConnOfState
    <3> QED
      BY <2>1, <3>1, <3>2, Zenon DEF StepSeen, View!Next, View!ByItself, View!OpeningFails
  <2>3. CASE connectPromise # "user"
    BY <2>1, <2>3, GoesDownSeen DEF ConnStates
  <2> QED
    BY <2>2, <2>3
<1>3. CASE EngineCloses
  <2>1. \/ UNCHANGED connState
        \/ connState = "connected" /\ connState' = "reconnecting"
    BY <1>3, Transitions DEF EngineCloses, SetState, Inv, TypeOK
  <2>2. UNCHANGED <<connectPromise, wakeSubscribed>> /\ (UnderWay' <=> UnderWay)
    BY <1>3 DEF EngineCloses, connectVars, forceVars, resolveVars, UnderWay
  <2>3. CASE connState = "connected" /\ connState' = "reconnecting"
    <3>1. ConnOfState = "up" /\ ConnOfState' = "trying"
      BY <2>3 DEF ConnOfState
    <3> QED
      BY <2>2, <2>3, <3>1, Zenon DEF StepSeen, View!Next, View!ByItself, View!Loses
  <2> QED
    BY <2>1, <2>2, <2>3, StateKeptSeen
<1>4. CASE ServerDisconnects \/ ReconnectFails
  <2>1. /\ connState' = "disconnected" /\ link \in {"up", "retrying"}
        /\ UNCHANGED <<connectPromise, wakeSubscribed>>
    BY <1>4, Transitions DEF ServerDisconnects, ReconnectFails, SetState, connectVars, Inv, TypeOK
  <2>2. wakeSubscribed /\ connState \in ConnStates /\ connState # "connecting"
    BY <2>1 DEF ViewInv, Inv, TypeOK, LinkMatchesState
  <2> QED
    BY <2>1, <2>2, GoesDownSeen, StateKeptSeen
<1>5. CASE EngineReopens \/ HandshakeAnswered
  BY <1>5, StateKeptSeen DEF EngineReopens, HandshakeAnswered, UnderWay,
     stateVars, connectVars, forceVars, resolveVars
<1> QED
  BY <1>1, <1>2, <1>3, <1>4, <1>5 DEF Socket

\* The tiers and the wake detection.
LEMMA TimersSeen == Inv /\ ViewInv /\ Timers => StepSeen
<1> SUFFICES ASSUME Inv, ViewInv, Timers PROVE StepSeen
  OBVIOUS
<1>1. CASE ReconnectWaitEnds
  <2>1. \/ UNCHANGED connState
        \/ connState = "reconnecting" /\ connState' = "connected"
    BY <1>1, Transitions DEF ReconnectWaitEnds, SetState, Inv, TypeOK, ConnStates, WaitMatchesState
  <2>2. UNCHANGED <<connectPromise, wakeSubscribed>> /\ (UnderWay' <=> UnderWay)
    BY <1>1 DEF ReconnectWaitEnds, connectVars, forceVars, resolveVars, UnderWay
  <2>3. CASE connState = "reconnecting" /\ connState' = "connected"
    <3>1. ConnOfState = "trying" /\ ConnOfState' = "up"
      BY <2>3 DEF ConnOfState
    <3>2. wakeSubscribed' = TRUE
      BY <2>2, <2>3 DEF ViewInv, Inv, TypeOK
    <3> QED
      BY <2>3, <3>1, <3>2, Zenon DEF StepSeen, View!Next, View!ByItself, View!Recovers
  <2> QED
    BY <2>1, <2>2, <2>3, StateKeptSeen
<1>2. CASE StaleWaitEnds \/ TimePasses
  BY <1>2, StateKeptSeen DEF StaleWaitEnds, TimePasses, UnderWay, stateVars, connectVars, forceVars, resolveVars
<1>3. CASE \/ ForceAttemptGivesUp \/ ForceAttemptSkipped \/ ForceAttemptRejected \/ ForceAttemptHangs
           \/ UrlTimerFires
  <2>1. UNCHANGED <<connState, wakeSubscribed, connectPromise>>
    BY <1>3 DEF ForceAttemptGivesUp, ForceAttemptSkipped, ForceAttemptRejected, ForceAttemptHangs,
       UrlTimerFires, stateVars, connectVars
  <2>2. UnderWay
    BY <1>3 DEF ForceAttemptGivesUp, ForceAttemptSkipped, ForceAttemptRejected, ForceAttemptHangs,
       ForceAttemptDue, UrlTimerFires, UnderWay
  <2> QED
    BY <2>1, <2>2, StateKeptSeen
<1>4. CASE ForceAttemptConnects
  <2>1. /\ connState = "disconnected" /\ UnderWay
        /\ connState' = "connecting" /\ connectPromise' = "force" /\ UNCHANGED wakeSubscribed
    BY <1>4, Transitions DEF ForceAttemptConnects, ForceAttemptDue, StartConnect,
       EstablishConnection, SetState, UnderWay, Inv, TypeOK
  <2>2. ConnOfState' = "trying"
    BY <2>1 DEF ConnOfState
  <2> QED
    BY <2>1, <2>2, Zenon DEF StepSeen, View!Next, View!ByItself, View!RetryStarts
<1>5. CASE WakeFromSleep
  <2>1. /\ connState \in {"disconnected", "connected"} /\ connState' = "disconnected"
        /\ wakeSubscribed /\ UNCHANGED <<connectPromise, wakeSubscribed>>
    BY <1>5, Transitions DEF WakeFromSleep, SetState, connectVars, Inv, TypeOK
  <2> QED
    BY <2>1, GoesDownSeen, StateKeptSeen DEF ConnStates
<1> QED
  BY <1>1, <1>2, <1>3, <1>4, <1>5 DEF Timers

\* The resolver.
LEMMA ResolverSeen == Inv /\ Resolver => StepSeen
<1>1. ASSUME Resolver
      PROVE  UNCHANGED <<connState, connectPromise, wakeSubscribed>> /\ UnderWay
  BY <1>1 DEF Resolver, ResolverFindsUrl, ResolverFindsNothing, stateVars, connectVars, UnderWay
<1> QED
  BY <1>1, StateKeptSeen

\* A client that is connected once moves as ClientView says, whatever its network,
\* its server and its resolver do, and comes alive again only as its owner can tell.
THEOREM ImplementsView == Spec /\ UsedOnce => ViewSpec
<1>1. Init => View!Init /\ ViewInv
  BY DEF Init, View!Init, ViewInv, ConnOfState, UnderWay
<1>2. ASSUME Inv, ViewInv, [Next]_vars, [OnceStep]_vars PROVE [View!Next]_(View!vars)
  <2>1. CASE UNCHANGED vars
    <3>1. StepSeen
      BY <1>2, <2>1, StateKeptSeen DEF vars, stateVars, connectVars, forceVars, resolveVars, UnderWay
    <3> QED
      BY <3>1 DEF StepSeen
  <2>2. CASE Next /\ OnceStep
    <3>1. StepSeen
      BY <1>2, <2>2, UserSeen, SocketSeen, TimersSeen, ResolverSeen DEF Next
    <3> QED
      BY <3>1 DEF StepSeen
  <2> QED
    BY <1>2, <2>1, <2>2
<1>3. UsedOnce => [][OnceStep]_vars
  BY PTL DEF UsedOnce, OnceStep
<1> QED
  BY <1>1, <1>2, <1>3, ViewInvNext, Invariance, TargetInvariance, PTL DEF Spec, ViewSpec, View!Spec

=============================================================================
