-------------------------- MODULE ClientEvents_proofs --------------------------
(***************************************************************************)
(* Proofs about ClientEvents, for any number of events, subscriptions and  *)
(* one-time handlers.                                                      *)
(*                                                                         *)
(* An event has one dispatch listener at most because registration is      *)
(* remembered whenever there is a listener, and it has handlers because a  *)
(* Set that eventHandlers names is never empty: both facts are about all   *)
(* events and closures at once, and the client's socket comes in because   *)
(* the dispatcher takes no listener off without one.                       *)
(***************************************************************************)
EXTENDS ClientEvents, TransportClient_proofs

NoSet == Dispatcher!NoSet

DispatcherTypes ==
    /\ eventHandlers \in [Events -> Subscriptions \cup {NoSet}]
    /\ captured \in [Subscriptions -> Subscriptions \cup {NoSet}]
    /\ stored \subseteq Subscriptions
    /\ registeredSocketEvents \subseteq Events
    /\ listeners \in [Events -> {0, 1}]

\* A listener is remembered, has a socket, and its event has a Set.
ListenersRemembered ==
    \A e \in Events :
        listeners[e] # 0 =>
            e \in registeredSocketEvents /\ link # "none" /\ eventHandlers[e] # NoSet

\* Closures and events agree on the event of a Set.
SetsMatch ==
    /\ \A s \in Subscriptions : captured[s] # NoSet => EventOf[captured[s]] = EventOf[s]
    /\ \A e \in Events : eventHandlers[e] # NoSet => EventOf[eventHandlers[e]] = e
    /\ \A s \in stored : captured[s] # NoSet

\* A Set that an event has holds a handler.
SetsInhabited ==
    \A e \in Events : eventHandlers[e] # NoSet => \E s \in stored : captured[s] = eventHandlers[e]

DispatcherInv ==
    DispatcherTypes /\ ListenersRemembered /\ SetsMatch /\ SetsInhabited

\* A call that awaits an answer has the timer that ends the wait.
TimersArmed ==
    \A q \in Requests : Server!IsOpen(q) /\ request[q].kind # "request" => request[q].timer

-----------------------------------------------------------------------------
(* The client goes its own way: what is proved of TransportClient holds here *)

\* What the dispatcher and the requests add leaves the client as it was.
LEMMA ClientGoesOn == [EventsNext]_allVars => [Next]_vars
BY DEF EventsNext, DispatcherStep, RequestStep, ClientStep, ConnectStep, ReconnectStep, SocketStep,
       DisconnectStep, OtherStep, Next, User, Socket, Timers, allVars

\* A client with handlers and requests is a client: every property of
\* TransportClient holds of it.
THEOREM EventsImplementClient == EventsSpec => Spec
<1>1. EventsInit => Init
  BY DEF EventsInit
<1> QED
  BY <1>1, ClientGoesOn, PTL DEF EventsSpec, Spec

-----------------------------------------------------------------------------
(* The operations of the dispatcher *)

\* The socket the dispatcher is given is none when the client has none.
LEMMA Provider == ProvidedSocket = "none" <=> link = "none"
BY DEF ProvidedSocket

LEMMA NoSetApart == NoSet \notin Subscriptions
BY DispatcherAssumption DEF NoSet

LEMMA EventOfType == \A s \in Subscriptions : EventOf[s] \in Events
BY DispatcherAssumption

\* Registering events that have a Set.
LEMMA RegisterInv ==
    ASSUME DispatcherTypes, ListenersRemembered, NEW es \in SUBSET Events,
           Dispatcher!RegisterSocketEvents(es)
    PROVE  /\ registeredSocketEvents' \subseteq Events
           /\ listeners' \in [Events -> {0, 1}]
           /\ \A e \in Events : listeners[e] # 0 => listeners'[e] # 0
           /\ \A e \in Events : listeners'[e] # 0 => e \in registeredSocketEvents'
           /\ \A e \in Events : listeners'[e] # 0 /\ listeners[e] = 0 => e \in es /\ link # "none"
<1>1. CASE link = "none"
  BY <1>1, Provider DEF Dispatcher!RegisterSocketEvents, DispatcherTypes, ListenersRemembered
<1>2. CASE link # "none"
  <2>1. /\ registeredSocketEvents' = registeredSocketEvents \cup es
        /\ listeners' = [e \in Events |-> IF e \in es \ registeredSocketEvents
                                         THEN listeners[e] + 1 ELSE listeners[e]]
    BY <1>2, Provider DEF Dispatcher!RegisterSocketEvents
  <2>2. \A e \in es \ registeredSocketEvents : listeners[e] = 0
    BY DEF ListenersRemembered
  <2> QED
    BY <1>2, <2>1, <2>2 DEF DispatcherTypes, ListenersRemembered
<1> QED
  BY <1>1, <1>2

LEMMA OnInv ==
    ASSUME DispatcherInv, NEW s \in Subscriptions, Dispatcher!On(s), UNCHANGED link
    PROVE  DispatcherInv'
<1> USE DEF DispatcherInv
<1>0. EventOf[s] \in Events /\ s # NoSet /\ captured[s] = NoSet
  BY NoSetApart, EventOfType DEF Dispatcher!On, NoSet
<1> DEFINE e == EventOf[s]
<1>1. PICK set \in Subscriptions :
          /\ set = IF eventHandlers[e] = NoSet THEN s ELSE eventHandlers[e]
          /\ eventHandlers' = [eventHandlers EXCEPT ![e] = set]
          /\ captured' = [captured EXCEPT ![s] = set]
          /\ Dispatcher!RegisterSocketEvents({e})
          /\ stored' = stored \cup {s}
  BY <1>0 DEF Dispatcher!On, DispatcherTypes, NoSet
<1>2. EventOf[set] = e /\ set # NoSet
  BY <1>0, <1>1, NoSetApart DEF SetsMatch
<1>3. /\ registeredSocketEvents' \subseteq Events
      /\ listeners' \in [Events -> {0, 1}]
      /\ \A f \in Events : listeners'[f] # 0 => f \in registeredSocketEvents'
      /\ \A f \in Events : listeners'[f] # 0 /\ listeners[f] = 0 => f = e /\ link # "none"
  BY <1>0, <1>1, RegisterInv
<1> HIDE DEF e
<1>4. e = EventOf[s] /\ e \in Events
  BY <1>0 DEF e
<1>5. DispatcherTypes'
  BY <1>1, <1>3, <1>4 DEF DispatcherTypes, NoSet, Dispatcher!NoSet
<1>6. ListenersRemembered'
  BY <1>1, <1>2, <1>3, <1>4 DEF ListenersRemembered, DispatcherTypes, NoSet, Dispatcher!NoSet
<1>7. SetsMatch'
  BY <1>1, <1>2, <1>4 DEF SetsMatch, DispatcherTypes, NoSet, Dispatcher!NoSet
<1>8. SetsInhabited'
  <2> SUFFICES ASSUME NEW f \in Events, eventHandlers'[f] # NoSet
               PROVE  \E t \in stored' : captured'[t] = eventHandlers'[f]
    BY DEF SetsInhabited, NoSet, Dispatcher!NoSet
  <2>1. CASE f = e
    BY <1>1, <1>4, <2>1 DEF DispatcherTypes
  <2>2. CASE f # e
    <3>1. PICK t \in stored : captured[t] = eventHandlers[f]
      BY <1>1, <1>4, <2>2 DEF SetsInhabited, DispatcherTypes
    <3>2. t # s /\ t \in Subscriptions
      BY <1>0, <3>1 DEF SetsMatch, DispatcherTypes
    <3> QED
      BY <1>1, <1>4, <2>2, <3>1, <3>2 DEF DispatcherTypes
  <2> QED
    BY <2>1, <2>2
<1> QED
  BY <1>5, <1>6, <1>7, <1>8

\* The closure may delete a Set of its event that it did not capture; the event
\* then has none, and no listener.
LEMMA UnsubscribeInv ==
    ASSUME DispatcherInv, NEW s \in Subscriptions, Dispatcher!Unsubscribe(s), UNCHANGED link
    PROVE  DispatcherInv'
<1> USE DEF DispatcherInv
<1> SUFFICES ASSUME NEW e \in Events, e = EventOf[s] PROVE DispatcherInv'
  BY EventOfType
<1>1. captured[s] # NoSet /\ stored' = stored \ {s} /\ UNCHANGED captured
  BY DEF Dispatcher!Unsubscribe, NoSet
<1>2. CASE \E t \in stored \ {s} : captured[t] = captured[s]
  <2>1. UNCHANGED <<eventHandlers, registeredSocketEvents, listeners>>
    BY <1>2 DEF Dispatcher!Unsubscribe
  <2>2. SetsInhabited'
    BY <1>1, <1>2, <2>1 DEF SetsInhabited, NoSet, Dispatcher!NoSet
  <2> QED
    BY <1>1, <2>1, <2>2 DEF DispatcherTypes, ListenersRemembered, SetsMatch, NoSet, Dispatcher!NoSet
<1>3. CASE ~\E t \in stored \ {s} : captured[t] = captured[s]
  <2>1. /\ eventHandlers' = [eventHandlers EXCEPT ![e] = NoSet]
        /\ Dispatcher!RemoveSocketEventListener(e)
    BY <1>3 DEF Dispatcher!Unsubscribe, NoSet
  <2>2. /\ registeredSocketEvents' \subseteq Events
        /\ listeners' \in [Events -> {0, 1}] /\ listeners'[e] = 0
        /\ \A f \in Events : f # e =>
              /\ listeners'[f] = listeners[f]
              /\ f \in registeredSocketEvents' <=> f \in registeredSocketEvents
    <3>1. CASE link = "none" \/ e \notin registeredSocketEvents
      <4>1. UNCHANGED <<registeredSocketEvents, listeners>>
        BY <2>1, <3>1, Provider DEF Dispatcher!RemoveSocketEventListener
      <4> QED
        BY <3>1, <4>1 DEF DispatcherTypes, ListenersRemembered
    <3>2. CASE ~(link = "none" \/ e \notin registeredSocketEvents)
      <4>1. /\ registeredSocketEvents' = registeredSocketEvents \ {e}
            /\ listeners' = [listeners EXCEPT ![e] = 0]
        BY <2>1, <3>2, Provider DEF Dispatcher!RemoveSocketEventListener
      <4> QED
        BY <4>1 DEF DispatcherTypes
    <3> QED
      BY <3>1, <3>2
  <2>3. /\ eventHandlers'[e] = NoSet
        /\ \A f \in Events : f # e => eventHandlers'[f] = eventHandlers[f]
        /\ eventHandlers' \in [Events -> Subscriptions \cup {NoSet}]
    BY <2>1 DEF DispatcherTypes
  <2>4. DispatcherTypes'
    BY <1>1, <2>2, <2>3 DEF DispatcherTypes, NoSet, Dispatcher!NoSet
  <2>5. ListenersRemembered'
    BY <2>2, <2>3 DEF ListenersRemembered, NoSet, Dispatcher!NoSet
  <2>6. SetsMatch'
    BY <1>1, <2>3 DEF SetsMatch, NoSet, Dispatcher!NoSet
  <2>7. SetsInhabited'
    <3> SUFFICES ASSUME NEW f \in Events, eventHandlers'[f] # NoSet
                 PROVE  \E t \in stored' : captured'[t] = eventHandlers'[f]
      BY DEF SetsInhabited, NoSet, Dispatcher!NoSet
    <3>1. f # e /\ eventHandlers[f] # NoSet /\ eventHandlers'[f] = eventHandlers[f]
      BY <2>3
    <3>2. PICK t \in stored : captured[t] = eventHandlers[f]
      BY <3>1 DEF SetsInhabited
    <3>3. t # s
      BY <1>1, <3>1, <3>2 DEF SetsMatch
    <3> QED
      BY <1>1, <3>1, <3>2, <3>3
  <2> QED
    BY <2>4, <2>5, <2>6, <2>7
<1> QED
  BY <1>2, <1>3

\* The Sets and closures stay as they are; the listeners keep to what they may be.
LEMMA ListenersInv ==
    ASSUME DispatcherInv, UNCHANGED <<eventHandlers, captured, stored>>,
           registeredSocketEvents' \subseteq Events,
           listeners' \in [Events -> {0, 1}],
           \A e \in Events : listeners'[e] # 0 =>
              e \in registeredSocketEvents' /\ link' # "none" /\ eventHandlers[e] # NoSet
    PROVE  DispatcherInv'
BY DEF DispatcherInv, DispatcherTypes, ListenersRemembered, SetsMatch, SetsInhabited,
       NoSet, Dispatcher!NoSet

LEMMA RegisterPendingInv ==
    ASSUME DispatcherInv, Dispatcher!RegisterPendingHandlers, link' # "none"
    PROVE  DispatcherInv'
<1> DEFINE es == {e \in Events : eventHandlers[e] # NoSet}
<1>1. /\ Dispatcher!RegisterSocketEvents(es)
      /\ UNCHANGED <<eventHandlers, captured, stored>>
  BY DEF Dispatcher!RegisterPendingHandlers, NoSet
<1>2. /\ registeredSocketEvents' \subseteq Events
      /\ listeners' \in [Events -> {0, 1}]
      /\ \A e \in Events : listeners'[e] # 0 => e \in registeredSocketEvents'
      /\ \A e \in Events : listeners'[e] # 0 /\ listeners[e] = 0 => e \in es
  BY <1>1, RegisterInv DEF DispatcherInv
<1>3. \A e \in Events : listeners'[e] # 0 => eventHandlers[e] # NoSet
  BY <1>2 DEF DispatcherInv, ListenersRemembered
<1> QED
  BY <1>1, <1>2, <1>3, ListenersInv

LEMMA ReregisterInv ==
    ASSUME DispatcherInv, Dispatcher!ReregisterHandlers, UNCHANGED link
    PROVE  /\ DispatcherInv'
           /\ UNCHANGED <<eventHandlers, captured, stored>>
           /\ \A e \in Events : eventHandlers[e] # NoSet => listeners'[e] = 1
<1> DEFINE current == {e \in Events : eventHandlers[e] # NoSet}
           kept == [e \in Events |-> IF e \in registeredSocketEvents THEN 0 ELSE listeners[e]]
<1>1. /\ link # "none"
      /\ registeredSocketEvents' = current
      /\ listeners' = [e \in Events |-> IF e \in current THEN kept[e] + 1 ELSE kept[e]]
      /\ UNCHANGED <<eventHandlers, captured, stored>>
  BY Provider DEF Dispatcher!ReregisterHandlers, NoSet
<1>2. \A e \in Events : kept[e] = 0
  BY DEF DispatcherInv, ListenersRemembered
<1> HIDE DEF kept
<1>3. \A e \in Events : listeners'[e] = IF e \in current THEN 1 ELSE 0
  BY <1>1, <1>2
<1>4. listeners' \in [Events -> {0, 1}]
  BY <1>1, <1>2
<1>5. DispatcherInv'
  BY <1>1, <1>3, <1>4, ListenersInv
<1> QED
  BY <1>1, <1>3, <1>5

LEMMA LoseSocketInv ==
    ASSUME DispatcherInv, Dispatcher!LoseSocket
    PROVE  DispatcherInv'
BY ListenersInv DEF Dispatcher!LoseSocket, DispatcherInv, DispatcherTypes

LEMMA ClearAllInv ==
    ASSUME DispatcherInv, Dispatcher!ClearAllHandlers
    PROVE  DispatcherInv'
BY DEF Dispatcher!ClearAllHandlers, DispatcherInv, DispatcherTypes, ListenersRemembered, SetsMatch,
       SetsInhabited, NoSet, Dispatcher!NoSet

\* Steps that touch neither the Sets nor the listeners.
LEMMA DispatcherStays ==
    ASSUME DispatcherInv, UNCHANGED <<eventHandlers, captured, stored, registeredSocketEvents, listeners>>,
           link # "none" => link' # "none"
    PROVE  DispatcherInv'
BY ListenersInv DEF DispatcherInv, DispatcherTypes, ListenersRemembered

\* The steps of the client in which the dispatcher has no part let go of no socket.
LEMMA OtherStepsKeepSocket ==
    ASSUME OtherStep
    PROVE  link # "none" => link' # "none"
BY DEF OtherStep, UserConnectReturnsEarly, UserDisconnectIgnored, SetServerUrlResolver, EngineCloses,
       ServerDisconnects, EngineReopens, HandshakeAnswered, ReconnectFails, StaleWaitEnds,
       ForceAttemptGivesUp, ForceAttemptSkipped, UrlTimerFires, WakeFromSleep, TimePasses, Resolver,
       ResolverFindsUrl, ResolverFindsNothing, socketVars

-----------------------------------------------------------------------------
(* The invariant *)

LEMMA EventsInitInv == EventsInit => DispatcherInv /\ TimersArmed
BY DEF EventsInit, Dispatcher!Init, Server!Init, DispatcherInv, DispatcherTypes, ListenersRemembered,
       SetsMatch, SetsInhabited, TimersArmed, Server!IsOpen, Server!Unused, NoSet

LEMMA DispatcherKept ==
    ASSUME DispatcherInv, [EventsNext]_allVars
    PROVE  DispatcherInv'
<1>1. CASE DispatcherStep
  <2>1. UNCHANGED link
    BY <1>1 DEF DispatcherStep, vars, socketVars
  <2>2. ASSUME NEW o \in OnceHandlers, Dispatcher!Once(o) PROVE DispatcherInv'
    BY <2>1, <2>2, DispatcherStays DEF Dispatcher!Once
  <2>3. ASSUME NEW e \in Events, Dispatcher!Receive(e) PROVE DispatcherInv'
    BY <2>1, <2>3, DispatcherStays DEF Dispatcher!Receive
  <2> QED
    BY <1>1, <2>1, <2>2, <2>3, OnInv, UnsubscribeInv DEF DispatcherStep
<1>2. CASE RequestStep
  BY <1>2, DispatcherStays DEF RequestStep, dispatcherVars, vars, socketVars
<1>3. CASE ConnectStep
  <2>1. link' # "none"
    BY <1>3 DEF ConnectStep, ConnectSucceeds
  <2> QED
    BY <1>3, <2>1, RegisterPendingInv DEF ConnectStep
<1>4. CASE ReconnectStep
  <2>1. UNCHANGED link
    BY <1>4 DEF ReconnectStep, ReconnectWaitEnds
  <2>2. Dispatcher!ReregisterHandlers \/ UNCHANGED dispatcherVars
    BY <1>4 DEF ReconnectStep
  <2> QED
    BY <2>1, <2>2, ReregisterInv, DispatcherStays DEF dispatcherVars
<1>5. CASE SocketStep
  BY <1>5, LoseSocketInv DEF SocketStep
<1>6. CASE DisconnectStep
  BY <1>6, ClearAllInv DEF DisconnectStep
<1>7. CASE OtherStep
  <2>1. UNCHANGED dispatcherVars
    BY <1>7 DEF OtherStep
  <2> QED
    BY <1>7, <2>1, OtherStepsKeepSocket, DispatcherStays DEF dispatcherVars
<1>8. CASE UNCHANGED allVars
  BY <1>8, DispatcherStays DEF allVars, dispatcherVars, vars, socketVars
<1> QED
  BY <1>1, <1>2, <1>3, <1>4, <1>5, <1>6, <1>7, <1>8 DEF EventsNext, ClientStep

LEMMA DispatcherInvariance == EventsSpec => []DispatcherInv
<1>1. DispatcherInv /\ [EventsNext]_allVars => DispatcherInv'
  BY DispatcherKept
<1> QED
  BY <1>1, EventsInitInv, PTL DEF EventsSpec

\* An event is dispatched once, and only to somebody.
THEOREM EventsDispatchedOnce == EventsSpec => []DispatchedOnce
<1>1. DispatcherInv => DispatchedOnce
  <2> SUFFICES ASSUME DispatcherInv, NEW e \in Events
               PROVE  /\ listeners[e] <= 1
                      /\ listeners[e] > 0 => Dispatcher!HandlersOf(e) # {}
    BY DEF DispatchedOnce
  <2>1. listeners[e] \in {0, 1}
    BY DEF DispatcherInv, DispatcherTypes
  <2>2. ASSUME listeners[e] > 0 PROVE Dispatcher!HandlersOf(e) # {}
    <3>1. eventHandlers[e] # NoSet
      BY <2>1, <2>2 DEF DispatcherInv, ListenersRemembered
    <3>2. PICK s \in stored : captured[s] = eventHandlers[e]
      BY <3>1 DEF DispatcherInv, SetsInhabited
    <3>3. EventOf[s] = e /\ s \in Subscriptions
      BY <3>1, <3>2 DEF DispatcherInv, DispatcherTypes, SetsMatch
    <3> QED
      BY <3>2, <3>3 DEF Dispatcher!HandlersOf
  <2> QED
    BY <2>1, <2>2
<1> QED
  BY <1>1, DispatcherInvariance, PTL

-----------------------------------------------------------------------------
(* What a step may never do *)

HeardAction ==
    \A s \in Subscriptions :
        Heard(s) /\ ~Heard(s)' =>
            \/ Dispatcher!Unsubscribe(s)
            \/ link' \in {"none", "opening"}
            \/ \E t \in Subscriptions :
                  Dispatcher!Unsubscribe(t) /\ captured[t] # captured[s]

\* What it takes to be heard, and to stay heard.
LEMMA HeardMeans ==
    ASSUME DispatcherInv, NEW s \in Subscriptions
    PROVE  Heard(s) <=> /\ s \in stored
                        /\ captured[s] = eventHandlers[EventOf[s]]
                        /\ listeners[EventOf[s]] # 0
<1>1. listeners[EventOf[s]] \in {0, 1}
  BY EventOfType DEF DispatcherInv, DispatcherTypes
<1> QED
  BY <1>1 DEF Heard, Dispatcher!HandlersOf

LEMMA HeardStays ==
    ASSUME DispatcherInv, DispatcherInv', NEW s \in Subscriptions, Heard(s), s \in stored',
           captured'[s] = captured[s],
           eventHandlers'[EventOf[s]] = eventHandlers[EventOf[s]],
           listeners'[EventOf[s]] # 0
    PROVE  Heard(s)'
<1>1. listeners'[EventOf[s]] \in {0, 1}
  BY EventOfType DEF DispatcherInv, DispatcherTypes
<1> QED
  BY <1>1, HeardMeans DEF Heard, Dispatcher!HandlersOf

LEMMA OnKeepsHeard ==
    ASSUME DispatcherInv, DispatcherInv', NEW s \in Subscriptions, Heard(s),
           NEW t \in Subscriptions, Dispatcher!On(t)
    PROVE  Heard(s)'
<1> SUFFICES ASSUME NEW e \in Events, e = EventOf[s] PROVE Heard(s)'
  BY EventOfType
<1>1. s \in stored /\ captured[s] = eventHandlers[e] /\ listeners[e] # 0
  BY HeardMeans
<1>2. eventHandlers[e] # NoSet /\ s # t
  BY <1>1 DEF Dispatcher!On, DispatcherInv, ListenersRemembered, NoSet
<1>3. eventHandlers'[e] = eventHandlers[e] /\ captured'[s] = captured[s] /\ s \in stored'
  <2>1. PICK set : /\ set = IF eventHandlers[EventOf[t]] = NoSet THEN t
                                                             ELSE eventHandlers[EventOf[t]]
                   /\ eventHandlers' = [eventHandlers EXCEPT ![EventOf[t]] = set]
                   /\ captured' = [captured EXCEPT ![t] = set]
                   /\ stored' = stored \cup {t}
    BY DEF Dispatcher!On, NoSet
  <2> QED
    BY <1>1, <1>2, <2>1 DEF DispatcherInv, DispatcherTypes
<1>4. listeners'[e] # 0
  <2>1. Dispatcher!RegisterSocketEvents({EventOf[t]}) /\ {EventOf[t]} \in SUBSET Events
    BY EventOfType DEF Dispatcher!On
  <2> QED
    BY <1>1, <2>1, RegisterInv DEF DispatcherInv
<1> QED
  BY <1>1, <1>3, <1>4, HeardStays

\* One that shares the closure's Set is only silenced by its own.
LEMMA UnsubscribeKeepsHeard ==
    ASSUME DispatcherInv, DispatcherInv', NEW s \in Subscriptions, Heard(s),
           NEW t \in Subscriptions, Dispatcher!Unsubscribe(t), t # s, captured[t] = captured[s]
    PROVE  Heard(s)'
<1>1. s \in stored /\ captured[s] = eventHandlers[EventOf[s]] /\ listeners[EventOf[s]] # 0
  BY HeardMeans
<1>2. UNCHANGED <<eventHandlers, listeners, captured>> /\ stored' = stored \ {t}
  BY <1>1 DEF Dispatcher!Unsubscribe
<1> QED
  BY <1>1, <1>2, HeardStays

LEMMA StepKeepsHeard ==
    ASSUME Inv, DispatcherInv, DispatcherInv', EventsNext
    PROVE  HeardAction
<1> SUFFICES ASSUME NEW s \in Subscriptions, Heard(s), ~Heard(s)'
             PROVE  \/ Dispatcher!Unsubscribe(s)
                    \/ link' \in {"none", "opening"}
                    \/ \E t \in Subscriptions :
                          Dispatcher!Unsubscribe(t) /\ captured[t] # captured[s]
  BY DEF HeardAction
<1>1. /\ s \in stored /\ captured[s] = eventHandlers[EventOf[s]] /\ listeners[EventOf[s]] # 0
      /\ EventOf[s] \in Events /\ eventHandlers[EventOf[s]] # NoSet
  BY HeardMeans, EventOfType DEF DispatcherInv, ListenersRemembered
<1>2. ~UNCHANGED <<eventHandlers, captured, stored, listeners>>
  BY <1>1, HeardStays
<1>3. CASE DispatcherStep
  <2>1. ASSUME NEW t \in Subscriptions, Dispatcher!On(t) PROVE FALSE
    BY <2>1, OnKeepsHeard
  <2>2. PICK t \in Subscriptions : Dispatcher!Unsubscribe(t)
    BY <1>2, <1>3, <2>1 DEF DispatcherStep, Dispatcher!Once, Dispatcher!Receive
  <2> QED
    BY <2>2, UnsubscribeKeepsHeard
<1>4. CASE RequestStep \/ OtherStep
  BY <1>2, <1>4 DEF RequestStep, OtherStep, dispatcherVars
<1>5. CASE ConnectStep
  <2>1. /\ Dispatcher!RegisterSocketEvents({e \in Events : eventHandlers[e] # NoSet})
        /\ UNCHANGED <<eventHandlers, captured, stored>>
    BY <1>5 DEF ConnectStep, Dispatcher!RegisterPendingHandlers, NoSet
  <2>2. listeners'[EventOf[s]] # 0
    BY <1>1, <2>1, RegisterInv DEF DispatcherInv
  <2> QED
    BY <1>1, <2>1, <2>2, HeardStays
<1>6. CASE ReconnectStep
  <2>1. Dispatcher!ReregisterHandlers /\ UNCHANGED link
    BY <1>2, <1>6 DEF ReconnectStep, ReconnectWaitEnds, dispatcherVars
  <2>2. listeners'[EventOf[s]] # 0 /\ UNCHANGED <<eventHandlers, captured, stored>>
    BY <1>1, <2>1, ReregisterInv
  <2> QED
    BY <1>1, <2>2, HeardStays
<1>7. CASE SocketStep \/ DisconnectStep
  BY <1>7 DEF SocketStep, DisconnectStep, UserConnect, StartConnect, EstablishConnection, ConnectFails,
     ForceAttemptRejected, ForceAttemptHangs, ForceAttemptConnects, UserDisconnect, DropSocket
<1> QED
  BY <1>3, <1>4, <1>5, <1>6, <1>7 DEF EventsNext, ClientStep

\* Handlers that are heard stay heard while the socket lives: reconnections of
\* tier 1 silence nobody.
THEOREM HandlersStayHeard == EventsSpec => HeardWhileSocketLives
<1>1. ASSUME Inv, DispatcherInv, [EventsNext]_allVars PROVE [HeardAction]_allVars
  BY <1>1, DispatcherKept, StepKeepsHeard
<1> QED
  BY <1>1, EventsImplementClient, Invariance, DispatcherInvariance, PTL
     DEF EventsSpec, HeardWhileSocketLives, HeardAction

RestoresAction ==
    ReconnectWaitEnds /\ CanSetState("connected") /\ ~initialConnectInProgress =>
        \A s \in Subscriptions :
            s \in Dispatcher!HandlersOf(EventOf[s]) => Heard(s)'

\* Nothing but the reconnect handler ends its wait: a socket that is replaced
\* leaves the handler waiting, for a socket that is gone.
LEMMA OnlyHandlerEndsWait ==
    ASSUME EventsNext, reconnectWait = "current", reconnectWait' = "none"
    PROVE  ReconnectStep
<1>1. ~DispatcherStep /\ ~RequestStep
  BY DEF DispatcherStep, RequestStep, vars, socketVars
<1>2. ~ConnectStep
  BY DEF ConnectStep, ConnectSucceeds
<1>3. ~SocketStep /\ ~DisconnectStep
  BY DEF SocketStep, DisconnectStep, UserConnect, StartConnect, EstablishConnection, ConnectFails,
     ForceAttemptRejected, ForceAttemptHangs, ForceAttemptConnects, UserDisconnect, DropSocket,
     SupersededWait
<1>4. ~OtherStep
  BY DEF OtherStep, UserConnectReturnsEarly, UserDisconnectIgnored, SetServerUrlResolver, EngineCloses,
     ServerDisconnects, EngineReopens, HandshakeAnswered, ReconnectFails, StaleWaitEnds,
     ForceAttemptGivesUp, ForceAttemptSkipped, UrlTimerFires, WakeFromSleep, TimePasses, Resolver,
     ResolverFindsUrl, ResolverFindsNothing, socketVars
<1> QED
  BY <1>1, <1>2, <1>3, <1>4 DEF EventsNext, ClientStep

\* The reconnect handler makes every stored handler heard again, whatever came
\* and went before.
THEOREM ReconnectionRestores == EventsSpec => ReconnectRestoresHandlers
<1>1. ASSUME DispatcherInv, EventsNext PROVE RestoresAction
  <2> SUFFICES ASSUME ReconnectWaitEnds, CanSetState("connected"), ~initialConnectInProgress,
                      NEW s \in Subscriptions, s \in Dispatcher!HandlersOf(EventOf[s])
               PROVE  Heard(s)'
    BY DEF RestoresAction
  <2>1. s \in stored /\ captured[s] = eventHandlers[EventOf[s]] /\ EventOf[s] \in Events
    BY EventOfType DEF Dispatcher!HandlersOf
  <2>2. eventHandlers[EventOf[s]] # NoSet
    BY <1>1, <2>1 DEF DispatcherInv, SetsMatch
  <2>3. ReconnectStep /\ UNCHANGED link
    BY <1>1, OnlyHandlerEndsWait DEF ReconnectWaitEnds
  <2>4. Dispatcher!ReregisterHandlers
    BY <2>3 DEF ReconnectStep
  <2>5. UNCHANGED <<eventHandlers, captured, stored>> /\ listeners'[EventOf[s]] = 1
    BY <1>1, <2>1, <2>2, <2>3, <2>4, ReregisterInv
  <2> QED
    BY <2>1, <2>5 DEF Heard, Dispatcher!HandlersOf
<1>2. DispatcherInv /\ [EventsNext]_allVars => [RestoresAction]_allVars
  BY <1>1
<1> QED
  BY <1>2, DispatcherInvariance, PTL DEF EventsSpec, ReconnectRestoresHandlers, RestoresAction

-----------------------------------------------------------------------------
(* Requests *)

\* request is a function of the calls.
RequestsFunction == request = [q \in Requests |-> request[q]]

LEMMA RequestsKept ==
    ASSUME RequestsFunction, TimersArmed, [EventsNext]_allVars
    PROVE  RequestsFunction' /\ TimersArmed'
<1> USE DEF RequestsFunction, TimersArmed, Server!IsOpen
<1>1. CASE UNCHANGED request
  BY <1>1
<1>2. ASSUME NEW q \in Requests, NEW now, request' = [request EXCEPT ![q] = now],
             now.phase = "open" /\ now.kind # "request" => now.timer
      PROVE  RequestsFunction' /\ TimersArmed'
  <2>1. request' = [p \in Requests |-> IF p = q THEN now ELSE request[p]]
    BY <1>2
  <2> HIDE DEF RequestsFunction
  <2>2. \A p \in Requests : request'[p] = IF p = q THEN now ELSE request[p]
    BY <2>1
  <2>3. RequestsFunction'
    BY <2>1 DEF RequestsFunction
  <2> QED
    BY <1>2, <2>2, <2>3
<1>3. CASE RequestStep
  <2>1. PICK q \in Requests : Server!Call(q) \/ Server!AnswerArrives(q) \/ Server!TimesOut(q)
    BY <1>3 DEF RequestStep
  <2>2. CASE Server!Call(q)
    <3>1. PICK kind \in Server!Kinds : request' = [request EXCEPT ![q] = Server!Open(kind)]
      BY <2>2 DEF Server!Call, Server!Becomes
    <3>2. Server!Open(kind).phase = "open" /\ Server!Open(kind).kind = kind
          /\ Server!Open(kind).timer = (kind # "request")
      BY DEF Server!Open
    <3> QED
      BY <1>2, <3>1, <3>2
  <2>3. \A outcome : Server!Settled(outcome).phase = "settled"
    BY DEF Server!Settled
  <2>4. CASE Server!AnswerArrives(q)
    <3>1. PICK outcome : request' = [request EXCEPT ![q] = Server!Settled(outcome)]
                         \/ UNCHANGED request
      BY <2>4 DEF Server!AnswerArrives
    <3> QED
      BY <1>1, <1>2, <2>3, <3>1
  <2>5. CASE Server!TimesOut(q)
    BY <1>2, <2>3, <2>5 DEF Server!TimesOut, Server!Becomes
  <2> QED
    BY <2>1, <2>2, <2>4, <2>5
<1>4. CASE DispatcherStep \/ ClientStep \/ UNCHANGED allVars
  BY <1>1, <1>4 DEF DispatcherStep, ClientStep, RequestsFollow, Server!SessionLost, requestVars, allVars
<1> QED
  BY <1>3, <1>4 DEF EventsNext

\* A requestWithAck() or isConnected() that waits has its timer, whatever answers
\* come and whenever sessions end: what RequestsSettle rests on.
THEOREM WaitsAreTimed == EventsSpec => []TimersArmed
<1>1. EventsInit => RequestsFunction /\ TimersArmed
  BY EventsInitInv DEF EventsInit, Server!Init, RequestsFunction
<1>2. RequestsFunction /\ TimersArmed /\ [EventsNext]_allVars => RequestsFunction' /\ TimersArmed'
  BY RequestsKept
<1> QED
  BY <1>1, <1>2, PTL DEF EventsSpec

=============================================================================
