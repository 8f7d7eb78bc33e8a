------------------------------ MODULE StateHandlers ------------------------------
(***************************************************************************)
(* The handlers of onStateChange() and what they do to the client when     *)
(* they call it back.  setState() (connection-state-manager.ts) tells the  *)
(* handlers one after the other, on the stack of whoever set the state: a  *)
(* handler may call onStateChange() and unsubscribe handlers, itself       *)
(* included, and connect() and disconnect(), which set the state again;    *)
(* when it returns the older notification and the interrupted function of  *)
(* the client (socket-io-client.ts) go on.                                 *)
(*                                                                         *)
(* A frame of `stack` is a notification that goes through the handlers, a  *)
(* handler that runs, or the rest of a function after its call of          *)
(* setState() or of socket.disconnect().  With an empty stack the event    *)
(* loop runs: the program, the sockets and the timers take their turns.    *)
(***************************************************************************)
EXTENDS Naturals, Sequences, SequencesExt

CONSTANTS
    Handlers,       \* state handlers
    Sockets,        \* bound: sockets the client may make
    MaxCalls        \* bound: calls of connect() and disconnect()

None == "none"

ASSUME StateHandlersAssumption == None \notin Sockets /\ MaxCalls \in Nat

VARIABLES
    connState,
    handlers,       \* ConnectionStateManager.#handlers, in order of insertion
    stack,
    socket,         \* each socket, as Socket.IO drives it
    current,        \* #socket
    id,             \* the connection id each socket's onConnect remembers
    connectionId,
    persistentHandlersRegistered,
    wired,          \* sockets with the persistent handlers
    connectPromise, \* who waits for it: nobody, the program or a force attempt
    scheduled,      \* a force attempt is scheduled
    wakeSubscribed,
    calls,          \* calls made
    told,           \* history: what each handler was told last since it subscribed
    outrun,         \* history: handlers told last by a notification that had moved
    closed,         \* history: the program's last call closed the client
    entangled,      \* history: connect() began inside an unfinished connect() or disconnect()
    interrupted     \* history: disconnect() ran inside a function that goes on

clientVars == <<socket, current, id, connectionId, persistentHandlersRegistered, wired,
                connectPromise, scheduled, wakeSubscribed>>
historyVars == <<told, outrun, closed, entangled, interrupted>>
vars == <<connState, handlers, stack, clientVars, calls, historyVars>>

ConnStates == {"disconnected", "connecting", "connected", "reconnecting"}
Live == {"opening", "up", "retrying"}

Init ==
    /\ connState = "disconnected"
    /\ handlers = <<>>
    /\ stack = <<>>
    /\ socket = [s \in Sockets |-> "unused"]
    /\ current = None
    /\ id = [s \in Sockets |-> 0]
    /\ connectionId = 0
    /\ persistentHandlersRegistered = FALSE
    /\ wired = {}
    /\ connectPromise = None
    /\ scheduled = FALSE
    /\ wakeSubscribed = FALSE
    /\ calls = 0
    /\ told = [h \in Handlers |-> None]
    /\ outrun = {}
    /\ closed = FALSE
    /\ entangled = FALSE
    /\ interrupted = FALSE

-----------------------------------------------------------------------------
(* ConnectionStateManager *)

ValidTransitions ==
    [disconnected |-> {"connecting"},
     connecting   |-> {"connected", "disconnected"},
     connected    |-> {"reconnecting", "disconnected"},
     reconnecting |-> {"connected", "disconnected"}]

\* `moved` is history: a handler that it told has called the client.
Notification(new) == [op |-> "notify", state |-> new, visited |-> {}, moved |-> FALSE]
Rest(op) == [op |-> op]
Holds(frames, ops) == \E i \in DOMAIN frames : frames[i].op \in ops

MutSetState(new, rest, caller) ==
    CASE new = connState -> stack' = rest /\ UNCHANGED connState
      [] new # connState /\ new \in ValidTransitions[connState] ->
             /\ connState' = new
             /\ stack' = IF Holds(rest, {"notify"}) THEN rest
                         ELSE Append(rest, Notification(new))
      [] OTHER -> stack' = caller /\ UNCHANGED connState

\* setState(new) by a function that goes on with the frames of `rest`.  A
\* transition that is not allowed throws, and `caller` is all that is left.
SetState(new, rest, caller) ==
    CASE new = connState -> stack' = rest /\ UNCHANGED connState
      [] new # connState /\ new \in ValidTransitions[connState] ->
             /\ connState' = new
             /\ stack' = Append(rest, Notification(new))
      [] OTHER -> stack' = caller /\ UNCHANGED connState

\* The live Set is iterated in order of insertion: who unsubscribes is not told any
\* more, who subscribes is told as well.
Untold(frame) == {i \in DOMAIN handlers : handlers[i] \notin frame.visited}

Top == stack[Len(stack)]
Below == SubSeq(stack, 1, Len(stack) - 1)
Turn == stack = <<>>
Running(op) == ~Turn /\ Top.op = op

\* The program's code runs in a turn of its own, and in its handlers.
Program == Turn \/ Running("handler")

\* onStateChange(h) by the program: a handler that is in the Set stays where it is.
OnStateChange(h) ==
    /\ Program
    /\ h \notin ToSet(handlers)
    /\ handlers' = Append(handlers, h)
    /\ told' = [told EXCEPT ![h] = None]
    /\ outrun' = outrun \ {h}
    /\ UNCHANGED <<connState, stack, clientVars, calls, closed, entangled, interrupted>>

\* A notification under way visits a handler again that is deleted and added again.
Forget(frame, h) ==
    IF frame.op = "notify" THEN [frame EXCEPT !.visited = @ \ {h}] ELSE frame

\* The function that onStateChange() returned.
Unsubscribe(i) ==
    /\ Program
    /\ handlers' = RemoveAt(handlers, i)
    /\ stack' = [k \in DOMAIN stack |-> Forget(stack[k], handlers[i])]
    /\ UNCHANGED <<connState, clientVars, calls, historyVars>>

\* notifyHandlers calls the next handler.
TellHandler ==
    /\ Running("notify")
    /\ \E i \in Untold(Top) :
        /\ \A j \in Untold(Top) : i <= j
        /\ told' = [told EXCEPT ![handlers[i]] = Top.state]
        /\ outrun' = IF Top.moved THEN outrun \cup {handlers[i]} ELSE outrun \ {handlers[i]}
        /\ stack' = Below \o <<[Top EXCEPT !.visited = @ \cup {handlers[i]}], Rest("handler")>>
    /\ UNCHANGED <<connState, handlers, clientVars, calls, closed, entangled, interrupted>>

\* The notification ends when everyone is told; a handler returns or throws, which
\* the notification catches.
Return ==
    /\ \/ Running("notify") /\ Untold(Top) = {}
       \/ Running("handler")
    /\ stack' = Below
    /\ UNCHANGED <<connState, handlers, clientVars, calls, historyVars>>

-----------------------------------------------------------------------------
(* connect() and disconnect(), on top of the frames of `caller` *)

MutCleanupExistingSocket ==
    /\ current' = None
    /\ IF current = None
       THEN UNCHANGED <<socket, wired, persistentHandlersRegistered>>
       ELSE /\ socket' = [socket EXCEPT ![current] = "closed"]
            /\ wired' = wired \ {current}
            /\ UNCHANGED persistentHandlersRegistered

MutCleanupLeavesOpen ==
    /\ current' = None
    /\ IF current = None
       THEN UNCHANGED <<socket, wired, persistentHandlersRegistered>>
       ELSE /\ wired' = wired \ {current}
            /\ persistentHandlersRegistered' = FALSE
            /\ UNCHANGED socket

\* A socket that is cleaned up has lost its handlers before it is closed.
CleanupExistingSocket ==
    /\ current' = None
    /\ IF current = None
       THEN UNCHANGED <<socket, wired, persistentHandlersRegistered>>
       ELSE /\ socket' = [socket EXCEPT ![current] = "closed"]
            /\ wired' = wired \ {current}
            /\ persistentHandlersRegistered' = FALSE

\* What connect() does past its guards, up to the first setState().
BeginConnect(caller, who) ==
    /\ CleanupExistingSocket
    /\ scheduled' = FALSE
    /\ connectionId' = connectionId + 1
    /\ SetState("connecting",
                Append(caller, [op |-> "create", who |-> who, id |-> connectionId + 1]), caller)
    /\ entangled' = (entangled \/ Holds(caller, {"create", "close", "clear"}))
    /\ UNCHANGED <<id, connectPromise, wakeSubscribed>>

\* connect(): it throws unless the client is disconnected, returns when the socket
\* is connected and shares the promise of a connect() under way.
Connect(caller) ==
    IF /\ connState = "disconnected"
       /\ current # None => socket[current] # "up"
       /\ connectPromise = None
    THEN BeginConnect(caller, "program") /\ closed' = FALSE
    ELSE stack' = caller /\ UNCHANGED <<connState, clientVars, closed, entangled>>

\* disconnect(): socket.disconnect() tells the 'disconnect' handler of a connected
\* socket before it returns.
Disconnect(caller) ==
    IF connState = "disconnected"
    THEN stack' = caller /\ UNCHANGED <<connState, clientVars, closed, interrupted>>
    ELSE /\ scheduled' = FALSE /\ wakeSubscribed' = FALSE
         /\ closed' = TRUE
         /\ interrupted' = (interrupted \/ Holds(caller, {"create", "opened", "schedule"}))
         /\ IF current = None
            THEN SetState("disconnected", caller, caller) /\ UNCHANGED socket
            ELSE /\ socket' = [socket EXCEPT ![current] = "closed"]
                 /\ LET rest == Append(caller, Rest("close"))
                    IN  IF socket[current] = "up" /\ current \in wired
                        THEN SetState("disconnected", rest, rest)
                        ELSE stack' = rest /\ UNCHANGED connState
         /\ UNCHANGED <<current, id, connectionId, persistentHandlersRegistered, wired,
                        connectPromise>>

\* Who called the client in a handler has moved the notification that told it.
Caller == IF Turn THEN stack ELSE [stack EXCEPT ![Len(stack) - 1].moved = TRUE]

\* One call of the program.
Call ==
    /\ Program
    /\ calls < MaxCalls
    /\ calls' = calls + 1
    /\ \/ Connect(Caller) /\ UNCHANGED interrupted
       \/ Disconnect(Caller) /\ UNCHANGED entangled
    /\ UNCHANGED <<handlers, told, outrun>>

-----------------------------------------------------------------------------
(* The rest of a function *)

\* The rest of establishConnection() makes a socket, whatever became of the state;
\* connect() stores the promise.
Create ==
    /\ Running("create")
    /\ \E s \in Sockets :
          /\ socket[s] = "unused"
          /\ socket' = [socket EXCEPT ![s] = "opening"]
          /\ current' = s
          /\ id' = [id EXCEPT ![s] = Top.id]
          /\ wired' = IF persistentHandlersRegistered THEN wired ELSE wired \cup {s}
    /\ persistentHandlersRegistered' = TRUE
    /\ connectPromise' = Top.who
    /\ stack' = Below
    /\ UNCHANGED <<connState, handlers, connectionId, scheduled, wakeSubscribed, calls, historyVars>>

\* disconnect() after socket.disconnect(), and after its setState().
Close ==
    /\ Running("close")
    /\ current' = None
    /\ LET rest == Append(Below, Rest("clear")) IN SetState("disconnected", rest, Below)
    /\ UNCHANGED <<handlers, socket, id, connectionId, persistentHandlersRegistered, wired,
                   connectPromise, scheduled, wakeSubscribed, calls, historyVars>>

Clear ==
    /\ Running("clear")
    /\ persistentHandlersRegistered' = FALSE
    /\ stack' = Below
    /\ UNCHANGED <<connState, handlers, socket, current, id, connectionId, wired,
                   connectPromise, scheduled, wakeSubscribed, calls, historyVars>>

\* onConnect after its setState(): wake detection, and the promise is settled.
Opened ==
    /\ Running("opened")
    /\ wakeSubscribed' = TRUE
    /\ connectPromise' = None
    /\ stack' = Below
    /\ UNCHANGED <<connState, handlers, socket, current, id, connectionId,
                   persistentHandlersRegistered, wired, scheduled, calls, historyVars>>

\* onConnectError after its setState(): it lets go of whatever the socket is now.
\* A force attempt that failed schedules the next one.
Failed ==
    /\ Running("failed")
    /\ CleanupExistingSocket
    /\ scheduled' = (scheduled \/ connectPromise = "force")
    /\ connectPromise' = None
    /\ stack' = Below
    /\ UNCHANGED <<connState, handlers, id, connectionId, wakeSubscribed, calls, historyVars>>

\* schedule() or restart(), after the setState() before it.
Schedule ==
    /\ Running("schedule")
    /\ scheduled' = TRUE
    /\ stack' = Below
    /\ UNCHANGED <<connState, handlers, socket, current, id, connectionId,
                   persistentHandlersRegistered, wired, connectPromise, wakeSubscribed,
                   calls, historyVars>>

-----------------------------------------------------------------------------
(* The event loop *)

\* An event of socket s, which is `to` afterwards, sets the state if its handler
\* still stands for the client, and goes on with `rest`.
Event(s, from, to, heeded, new, rest) ==
    /\ Turn
    /\ socket[s] \in from
    /\ socket' = [socket EXCEPT ![s] = to]
    /\ IF heeded THEN SetState(new, rest, <<>>) ELSE UNCHANGED <<connState, stack>>
    /\ UNCHANGED <<handlers, current, id, connectionId, persistentHandlersRegistered, wired,
                   connectPromise, scheduled, wakeSubscribed, calls, historyVars>>

Attended(s) == s = current /\ s \in wired
Latest(s) == id[s] = connectionId

\* Socket.IO retries the connection of a socket that no error handler closes.
SocketOpens(s) == Event(s, {"opening"}, "up", Latest(s), "connected", <<Rest("opened")>>)
OpeningFails(s) == Event(s, {"opening"}, "opening", Latest(s), "disconnected", <<Rest("failed")>>)
SocketLost(s) == Event(s, {"up"}, "retrying", Attended(s), "reconnecting", <<>>)
ServerDisconnects(s) == Event(s, {"up"}, "closed", Attended(s), "disconnected", <<>>)
Reopens(s) == Event(s, {"retrying"}, "up", Attended(s), "connected", <<>>)
ReopeningFails(s) ==
    Event(s, {"retrying"}, "closed", Attended(s), "disconnected", <<Rest("schedule")>>)

\* handleForceReconnectAttempt; an unsettled promise makes it wait.
ForceTimer ==
    /\ Turn /\ scheduled
    /\ IF connState # "disconnected"
       THEN /\ scheduled' = FALSE
            /\ UNCHANGED <<connState, stack, socket, current, id, connectionId,
                           persistentHandlersRegistered, wired, connectPromise,
                           wakeSubscribed, entangled>>
       ELSE IF connectPromise = None
            THEN BeginConnect(<<>>, "force")
            ELSE /\ CleanupExistingSocket
                 /\ scheduled' = FALSE
                 /\ UNCHANGED <<connState, stack, id, connectionId, connectPromise,
                                wakeSubscribed, entangled>>
    /\ UNCHANGED <<handlers, calls, told, outrun, closed, interrupted>>

\* handleWakeFromSleep, for a client that has connected before.
WakeFromSleep ==
    /\ Turn /\ wakeSubscribed
    /\ \/ connState = "disconnected" /\ stack' = <<Rest("schedule")>> /\ UNCHANGED connState
       \/ /\ connState = "connected" /\ (current = None \/ socket[current] # "up")
          /\ SetState("disconnected", <<Rest("schedule")>>, <<>>)
    /\ UNCHANGED <<handlers, clientVars, calls, historyVars>>

Next ==
    \/ TellHandler \/ Return
    \/ Create \/ Close \/ Clear \/ Opened \/ Failed \/ Schedule
    \/ Call \/ ForceTimer \/ WakeFromSleep
    \/ \E h \in Handlers : OnStateChange(h)
    \/ \E i \in DOMAIN handlers : Unsubscribe(i)
    \/ \E s \in Sockets : SocketOpens(s) \/ OpeningFails(s) \/ SocketLost(s)
                              \/ ServerDisconnects(s) \/ Reopens(s) \/ ReopeningFails(s)

Spec == Init /\ [][Next]_vars

-----------------------------------------------------------------------------
(* Properties *)

\* When the event loop is idle, a handler that was told anything since it subscribed
\* was told the present state last, whatever the handlers subscribed, unsubscribed and
\* called; unless a notification told it last that a handler before it had moved: the
\* state had changed under that notification.
HandlersKnow ==
    Turn => \A h \in ToSet(handlers) : told[h] \in {None, connState} \/ h \in outrun

\* The client has no socket but its current one, and attends to that, however its
\* handlers call it back; unless one of them begins a connect() while an older
\* connect() or disconnect() has yet to go on.
OneSocketAttended ==
    Turn /\ ~entangled => \A s \in Sockets : socket[s] \in Live => Attended(s)

\* A client that was closed stays silent; unless disconnect() was called from a
\* notification of a function that goes on regardless: it makes its socket, starts
\* the wake detection or schedules a force attempt after all.
ClosedStaysSilent ==
    Turn /\ closed /\ ~entangled /\ ~interrupted =>
        /\ connState = "disconnected"
        /\ ~scheduled /\ ~wakeSubscribed
        /\ \A s \in Sockets : socket[s] \notin Live

=============================================================================
