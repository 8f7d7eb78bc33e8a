---------------------------- MODULE EventDispatcher ----------------------------
(***************************************************************************)
(* EventDispatcher (infra/event-dispatcher.ts): persistent handlers, kept  *)
(* per event in a Set the unsubscribe closures capture; one-time handlers; *)
(* and the listeners both need on the current socket.                      *)
(*                                                                         *)
(* The dispatcher does not own the socket: it asks its provider for it, so *)
(* the socket is a variable this module only reads.  Event names, payloads *)
(* and the isolation of throwing handlers are left out.                    *)
(***************************************************************************)
EXTENDS Naturals, FiniteSets

CONSTANTS
    Events,
    Subscriptions,      \* calls of on(), each made at most once
    OnceHandlers,       \* calls of once(), each made at most once
    EventOf,            \* the event each of these calls names
    MaxPendingOnce      \* maxPendingOnceHandlers

NoSet == "no set"

VARIABLES
    socket,                 \* what the provider returns
    eventHandlers,          \* event -> its Set, named by the call that made it
    captured,               \* subscription -> the Set its closure captured
    stored,                 \* the subscriptions whose handler is in its Set
    onceHandlers,           \* once() call -> where its handler is
    registeredSocketEvents,
    listeners               \* event -> dispatch listeners on the current socket

TypeOK ==
    /\ socket \in {"none", "unconnected", "connected"}
    /\ eventHandlers \in [Events -> Subscriptions \cup {NoSet}]
    /\ captured \in [Subscriptions -> Subscriptions \cup {NoSet}]
    /\ stored \subseteq Subscriptions
    /\ onceHandlers \in [OnceHandlers -> {"unused", "pending", "listening", "fired", "dropped"}]
    /\ registeredSocketEvents \subseteq Events
    /\ listeners \in [Events -> 0 .. Cardinality(Subscriptions)]

Init ==
    /\ eventHandlers = [e \in Events |-> NoSet]
    /\ captured = [s \in Subscriptions |-> NoSet]
    /\ stored = {}
    /\ onceHandlers = [o \in OnceHandlers |-> "unused"]
    /\ registeredSocketEvents = {}
    /\ listeners = [e \in Events |-> 0]

\* The handlers a dispatch listener for e runs.
HandlersOf(e) == {s \in stored : EventOf[s] = e /\ captured[s] = eventHandlers[e]}

OnceIn(place) == {o \in OnceHandlers : onceHandlers[o] = place}

\* The once handlers in os, moved to another place.
Moved(os, place) ==
    [o \in OnceHandlers |-> IF o \in os THEN place ELSE onceHandlers[o]]

-----------------------------------------------------------------------------
(* Socket listeners *)

MutRegisterSocketEvents(es) ==
    IF socket = "none"
    THEN UNCHANGED <<registeredSocketEvents, listeners>>
    ELSE /\ registeredSocketEvents' = registeredSocketEvents \cup es
         /\ listeners' = [e \in Events |->
                IF e \in es THEN listeners[e] + 1 ELSE listeners[e]]

\* registerSocketEventIfNeeded, for every event in es.
RegisterSocketEvents(es) ==
    IF socket = "none"
    THEN UNCHANGED <<registeredSocketEvents, listeners>>
    ELSE /\ registeredSocketEvents' = registeredSocketEvents \cup es
         /\ listeners' = [e \in Events |->
                IF e \in es \ registeredSocketEvents THEN listeners[e] + 1 ELSE listeners[e]]

\* socket.off(event) for the events in es: it takes one-time listeners too.
ListeningFor(es) == {o \in OnceIn("listening") : EventOf[o] \in es}

\* removeSocketEventListener(e).
RemoveSocketEventListener(e) ==
    IF socket = "none" \/ e \notin registeredSocketEvents
    THEN UNCHANGED <<registeredSocketEvents, listeners, onceHandlers>>
    ELSE /\ registeredSocketEvents' = registeredSocketEvents \ {e}
         /\ listeners' = [listeners EXCEPT ![e] = 0]
         /\ onceHandlers' = Moved(ListeningFor({e}), "dropped")

-----------------------------------------------------------------------------
(* Calls of the program *)

\* on(event, handler).
On(s) ==
    /\ captured[s] = NoSet
    /\ LET e == EventOf[s]
           set == IF eventHandlers[e] = NoSet THEN s ELSE eventHandlers[e]
       IN  /\ eventHandlers' = [eventHandlers EXCEPT ![e] = set]
           /\ captured' = [captured EXCEPT ![s] = set]
           /\ RegisterSocketEvents({e})
    /\ stored' = stored \cup {s}
    /\ UNCHANGED onceHandlers

MutUnsubscribe(s) ==
    /\ captured[s] # NoSet
    /\ stored' = stored \ {s}
    /\ eventHandlers' = [eventHandlers EXCEPT ![EventOf[s]] = NoSet]
    /\ RemoveSocketEventListener(EventOf[s])
    /\ UNCHANGED captured

\* The closure on() returned, called once or again.  When the Set it captured
\* is empty it deletes the event, whichever Set the event has by now.
Unsubscribe(s) ==
    /\ captured[s] # NoSet
    /\ stored' = stored \ {s}
    /\ IF \E t \in stored \ {s} : captured[t] = captured[s]
       THEN UNCHANGED <<eventHandlers, registeredSocketEvents, listeners, onceHandlers>>
       ELSE /\ eventHandlers' = [eventHandlers EXCEPT ![EventOf[s]] = NoSet]
            /\ RemoveSocketEventListener(EventOf[s])
    /\ UNCHANGED captured

\* once(event, handler), which throws when too many handlers are pending.
Once(o) ==
    /\ onceHandlers[o] = "unused"
    /\ socket = "connected" \/ Cardinality(OnceIn("pending")) < MaxPendingOnce
    /\ onceHandlers' = Moved({o}, IF socket = "connected" THEN "listening" ELSE "pending")
    /\ UNCHANGED <<eventHandlers, captured, stored, registeredSocketEvents, listeners>>

\* The server sends e: the socket runs and forgets the one-time listeners.
\* (Persistent handlers run too, HandlersOf(e) once per dispatch listener.)
Receive(e) ==
    /\ socket = "connected"
    /\ ListeningFor({e}) # {}
    /\ onceHandlers' = Moved(ListeningFor({e}), "fired")
    /\ UNCHANGED <<eventHandlers, captured, stored, registeredSocketEvents, listeners>>

-----------------------------------------------------------------------------
(* Calls of the transport client *)

\* registerPendingHandlers().
RegisterPendingHandlers ==
    /\ RegisterSocketEvents({e \in Events : eventHandlers[e] # NoSet})
    /\ onceHandlers' = IF socket = "none" THEN onceHandlers
                                          ELSE Moved(OnceIn("pending"), "listening")
    /\ UNCHANGED <<eventHandlers, captured, stored>>

\* clearSocketListeners() and registerPendingHandlers() on the current socket:
\* every event is registered afresh.
ReregisterHandlers ==
    LET current == {e \in Events : eventHandlers[e] # NoSet}
        kept == [e \in Events |-> IF e \in registeredSocketEvents THEN 0 ELSE listeners[e]]
    IN  /\ socket # "none"
        /\ registeredSocketEvents' = current
        /\ listeners' = [e \in Events |-> IF e \in current THEN kept[e] + 1 ELSE kept[e]]
        /\ onceHandlers' =
               [o \in OnceHandlers |->
                   CASE o \in OnceIn("pending") -> "listening"
                     [] o \in ListeningFor(registeredSocketEvents) -> "dropped"
                     [] OTHER -> onceHandlers[o]]
        /\ UNCHANGED <<eventHandlers, captured, stored>>

\* The client lets go of its socket, and the listeners go with it.  The call of
\* clearSocketListeners() in cleanupExistingSocket() comes after the provider
\* has no socket any more, and returns at once.
LoseSocket ==
    /\ listeners' = [e \in Events |-> 0]
    /\ onceHandlers' = Moved(OnceIn("listening"), "dropped")
    /\ UNCHANGED <<eventHandlers, captured, stored, registeredSocketEvents>>

\* clearAllHandlers(), after disconnect() let go of the socket.  The Sets stay
\* with the closures that captured them.
ClearAllHandlers ==
    /\ eventHandlers' = [e \in Events |-> NoSet]
    /\ registeredSocketEvents' = {}
    /\ listeners' = [e \in Events |-> 0]
    /\ onceHandlers' = Moved(OnceIn("pending") \cup OnceIn("listening"), "dropped")
    /\ UNCHANGED <<captured, stored>>

=============================================================================
