------------------------------ MODULE ClientEvents ------------------------------
(***************************************************************************)
(* The transport client together with its EventDispatcher and its requests *)
(* to the server: which steps of the client call which operation of the    *)
(* dispatcher, what a handler hears across reconnections, and what becomes *)
(* of a request when its session ends.  All of them read the client's      *)
(* socket.                                                                 *)
(***************************************************************************)
EXTENDS TransportClient

CONSTANTS Events, Subscriptions, OnceHandlers, EventOf, MaxPendingOnce, Requests

VARIABLES eventHandlers, captured, stored, onceHandlers, registeredSocketEvents,
          listeners, request, sent

\* What the socket provider returns, and whether it is connected.
ProvidedSocket == CASE link = "none" -> "none"
                    [] link = "up" -> "connected"
                    [] OTHER -> "unconnected"

Dispatcher == INSTANCE EventDispatcher WITH socket <- ProvidedSocket

Server == INSTANCE Requests WITH connected <- (link = "up")

ASSUME DispatcherAssumption ==
    /\ Subscriptions \cap OnceHandlers = {}
    /\ EventOf \in [Subscriptions \cup OnceHandlers -> Events]
    /\ Dispatcher!NoSet \notin Subscriptions
    /\ MaxPendingOnce \in Nat

dispatcherVars == <<eventHandlers, captured, stored, onceHandlers,
                    registeredSocketEvents, listeners>>
requestVars == <<request, sent>>
allVars == <<vars, dispatcherVars, requestVars>>

EventsInit == Init /\ Dispatcher!Init /\ Server!Init

\* Requests and answers under way end with the connection that carries them.
RequestsFollow ==
    IF link = "up" /\ link' # "up" THEN Server!SessionLost ELSE UNCHANGED requestVars

\* The program asks, the server answers, or a timer fires.
RequestStep ==
    /\ \E q \in Requests :
          Server!Call(q) \/ Server!AnswerArrives(q) \/ Server!TimesOut(q)
    /\ UNCHANGED <<vars, dispatcherVars>>

\* The program subscribes and unsubscribes, and the server sends events.
DispatcherStep ==
    /\ \/ \E s \in Subscriptions : Dispatcher!On(s) \/ Dispatcher!Unsubscribe(s)
       \/ \E o \in OnceHandlers : Dispatcher!Once(o)
       \/ \E e \in Events : Dispatcher!Receive(e)
    /\ UNCHANGED <<vars, requestVars>>

\* onConnect registers what was subscribed before.
ConnectStep == ConnectSucceeds /\ Dispatcher!RegisterPendingHandlers

MutReconnectStep ==
    /\ ReconnectWaitEnds
    /\ IF CanSetState("connected")
       THEN Dispatcher!RegisterPendingHandlers
       ELSE UNCHANGED dispatcherVars

\* The reconnect handler registers everything afresh, unless its setState()
\* throws first or a first connection is still in progress.
ReconnectStep ==
    /\ ReconnectWaitEnds
    /\ IF CanSetState("connected") /\ ~initialConnectInProgress
       THEN Dispatcher!ReregisterHandlers
       ELSE UNCHANGED dispatcherVars

\* Steps that let go of the socket: connect(), which makes a new one, the force
\* attempts, and a connection that fails.
SocketStep ==
    /\ \/ \E url \in ValidUrls : UserConnect(url)
       \/ ConnectFails
       \/ ForceAttemptRejected
       \/ ForceAttemptHangs
       \/ ForceAttemptConnects
    /\ Dispatcher!LoseSocket

DisconnectStep == UserDisconnect /\ Dispatcher!ClearAllHandlers

\* Steps the dispatcher has no part in.
OtherStep ==
    /\ \/ UserConnectReturnsEarly \/ UserDisconnectIgnored \/ SetServerUrlResolver
       \/ EngineCloses \/ ServerDisconnects \/ EngineReopens \/ HandshakeAnswered
       \/ ReconnectFails \/ StaleWaitEnds
       \/ ForceAttemptGivesUp \/ ForceAttemptSkipped \/ UrlTimerFires
       \/ WakeFromSleep \/ TimePasses
       \/ Resolver
    /\ UNCHANGED dispatcherVars

ClientStep ==
    /\ ConnectStep \/ ReconnectStep \/ SocketStep \/ DisconnectStep \/ OtherStep
    /\ RequestsFollow

EventsNext == DispatcherStep \/ RequestStep \/ ClientStep

\* Node fires a timer that is due.
RequestTimesOut(q) == Server!TimesOut(q) /\ UNCHANGED <<vars, dispatcherVars>>

EventsSpec ==
    /\ EventsInit
    /\ [][EventsNext]_allVars
    /\ \A q \in Requests : WF_allVars(RequestTimesOut(q))

-----------------------------------------------------------------------------
(* Properties *)

\* The handler of subscription s runs when the server sends its event.
Heard(s) ==
    /\ s \in Dispatcher!HandlersOf(EventOf[s])
    /\ listeners[EventOf[s]] > 0

\* An event is dispatched once per message, and only while it has handlers,
\* however often the socket was reconnected and handlers came and went: dispatch
\* listeners neither accumulate nor outlive the last unsubscription.
DispatchedOnce ==
    \A e \in Events :
        /\ listeners[e] <= 1
        /\ listeners[e] > 0 => Dispatcher!HandlersOf(e) # {}

\* A handler that is heard stays heard as long as the socket is the same: a
\* built-in reconnection silences nobody, and unsubscribing one handler silences
\* another only through a closure whose Set is not the event's any more.
HeardWhileSocketLives ==
    [][\A s \in Subscriptions :
          Heard(s) /\ ~Heard(s)' =>
              \/ Dispatcher!Unsubscribe(s)
              \/ link' \in {"none", "opening"}
              \/ \E t \in Subscriptions :
                    Dispatcher!Unsubscribe(t) /\ captured[t] # captured[s]]_allVars

\* Whatever happened before, the reconnect handler of a socket makes every
\* stored handler heard again.
ReconnectRestoresHandlers ==
    [][ReconnectWaitEnds /\ CanSetState("connected") /\ ~initialConnectInProgress =>
          \A s \in Subscriptions :
              s \in Dispatcher!HandlersOf(EventOf[s]) => Heard(s)']_allVars

\* requestWithAck() and isConnected() settle in the end, whatever the server
\* answers and whenever the session ends: the timer is only given up by an
\* answer that settles the promise itself.
RequestsSettle ==
    \A q \in Requests :
        Server!IsOpen(q) /\ request[q].kind # "request" ~> ~Server!IsOpen(q)

-----------------------------------------------------------------------------
(* What the documentation says and the code does not do *)

\* "Persistent handlers survive reconnects until explicitly unsubscribed"
\* (EventDispatcher): on a connected client every stored handler is heard.
HandlersSurviveReconnects ==
    connState = "connected" /\ link = "up" =>
        \A s \in Subscriptions : s \in Dispatcher!HandlersOf(EventOf[s]) => Heard(s)

=============================================================================
