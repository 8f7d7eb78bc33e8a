--------------------------- MODULE DaemonReconnector ---------------------------
(***************************************************************************)
(* createDaemonReconnector (infra/daemon-reconnector.ts): it watches a     *)
(* client and replaces it by a new one when it is disconnected, with a     *)
(* backoff between attempts.  An attempt is a timer, then a call of        *)
(* connectToDaemon; the client it is to replace meanwhile follows its own  *)
(* tiers of reconnection.  One action is one turn of the event loop.       *)
(***************************************************************************)
EXTENDS ClientFactory, FiniteSets, FiniteSetsExt

CONSTANTS
    InitialDelay, MaxDelay, BackoffMultiplier,
    FirstClient,    \* the client createDaemonReconnector is given
    MaxTimers       \* timers pending at once

ASSUME ReconnectorAssumption ==
    /\ IsFiniteSet(Calls)
    /\ FirstClient \in Clients
    /\ InitialDelay \in Nat /\ MaxDelay \in Nat /\ InitialDelay <= MaxDelay
    /\ BackoffMultiplier \in Nat \ {0}
    /\ MaxTimers \in Nat

VARIABLES
    reconnector,    \* the variables of the closure, see ReconnectorTypeOK
    missed,         \* history: how the loss of the current client was missed
    rescued         \* history: attempts are under way, and a client connected by
                    \*   itself meanwhile, or the consumer threw

vars == <<factoryVars, reconnector, missed, rescued>>

(* busy is isReconnecting, watched the client that stateUnsubscribe belongs   *)
(* to; timers are the timers pending, among them or not that of               *)
(* reconnectTimer.                                                            *)
ReconnectorTypeOK ==
    /\ FactoryTypeOK
    /\ reconnector \in [cancelled : BOOLEAN, busy : BOOLEAN, delay : InitialDelay .. MaxDelay,
                        timers : 0 .. MaxTimers, latestPending : BOOLEAN,
                        client : Clients, watched : Clients \cup {NoClient}]
    /\ missed \in {"nothing", "lost before it was wired", "the consumer threw"}
    /\ rescued \in BOOLEAN

Init ==
    /\ conn = [c \in Clients |-> IF c = FirstClient THEN "up" ELSE "down"]
    /\ retrying = {} /\ waking = {FirstClient}
    /\ call = [a \in Calls |-> Idle]
    /\ registration = [c \in Clients |-> Unregistered]
    /\ abandoned = {}
    /\ reconnector = [cancelled |-> FALSE, busy |-> FALSE, delay |-> InitialDelay,
                      timers |-> 0, latestPending |-> FALSE,
                      client |-> FirstClient, watched |-> FirstClient]
    /\ missed = "nothing"
    /\ rescued = FALSE

Current == reconnector.client
AttemptsOf(r, calls) ==
    r.timers + Cardinality({a \in Calls : calls[a].stage \notin {"none", "notifying"}})
Attempts == AttemptsOf(reconnector, call)
Rescue(now) == rescued' = ((rescued \/ now) /\ AttemptsOf(reconnector', call') > 0)

-----------------------------------------------------------------------------
(* The functions of the closure, on the record of its variables *)

MutAttemptReconnect(r) ==
    IF r.busy THEN r
    ELSE [r EXCEPT !.busy = TRUE, !.timers = @ + 1, !.latestPending = TRUE]

MutAttemptReconnectTwice(r) ==
    IF r.cancelled THEN r
    ELSE [r EXCEPT !.busy = TRUE, !.timers = @ + 1, !.latestPending = TRUE]

AttemptReconnect(r) ==
    IF r.cancelled \/ r.busy THEN r
    ELSE [r EXCEPT !.busy = TRUE, !.timers = @ + 1, !.latestPending = TRUE]

MutFailed(r) ==
    AttemptReconnect([r EXCEPT !.delay = @ * BackoffMultiplier, !.busy = FALSE])

MutFailedBusy(r) ==
    AttemptReconnect([r EXCEPT !.delay = Min({@ * BackoffMultiplier, MaxDelay})])

\* The catch block: a longer delay, and another attempt.
Failed(r) ==
    AttemptReconnect([r EXCEPT !.delay = Min({@ * BackoffMultiplier, MaxDelay}), !.busy = FALSE])

\* cancel() clears reconnectTimer; an older timer is not cleared.
Cancelled(r) ==
    [r EXCEPT !.cancelled = TRUE, !.timers = IF r.latestPending THEN @ - 1 ELSE @,
              !.latestPending = FALSE, !.watched = NoClient]

\* The handler wireStateHandler subscribes hears what becomes of client c.
Hears(c) == ~reconnector.cancelled /\ reconnector.watched = c

\* What it does of its own when the client is up or down.
Reacts(r, state) ==
    CASE state = "up" -> [r EXCEPT !.delay = InitialDelay, !.busy = FALSE]
      [] state = "down" -> AttemptReconnect(r)
      [] OTHER -> r

-----------------------------------------------------------------------------

Cancel ==
    /\ ~reconnector.cancelled
    /\ reconnector' = Cancelled(reconnector)
    /\ UNCHANGED <<factoryVars, missed>>
    /\ Rescue(FALSE)

\* A timer fires, reconnectTimer's or an older one.
TimerFires(a) ==
    /\ reconnector.timers > 0
    /\ call[a] = Idle
    /\ \E latest \in BOOLEAN :
          /\ latest => reconnector.latestPending
          /\ ~latest => reconnector.timers > (IF reconnector.latestPending THEN 1 ELSE 0)
          /\ reconnector' = [reconnector EXCEPT !.timers = @ - 1, !.latestPending = @ /\ ~latest]
    /\ IF reconnector.cancelled THEN UNCHANGED call ELSE Begins(a)
    /\ Rescue(FALSE)
    /\ UNCHANGED <<conn, retrying, waking, registration, abandoned, missed>>

\* connectToDaemon goes on.
CallGoesOn(a) ==
    /\ \/ FindingSucceeds(a) \/ WarmUpEnds(a, {Current}) \/ NextAttempt(a, {Current})
       \/ AttemptFails(a) \/ AttemptSucceeds(a) \/ RegistrationTimesOut(a)
    /\ UNCHANGED <<reconnector, missed, rescued>>

Registration(c) ==
    /\ DaemonAnswers(c) \/ AnswerArrives(c)
    /\ UNCHANGED <<reconnector, missed, rescued>>

\* connectToDaemon throws.
CallFails(a) ==
    /\ FindingFails(a) \/ LastAttemptFails(a) \/ JoinFails(a)
    /\ Ends(a)
    /\ reconnector' = Failed(reconnector)
    /\ Rescue(FALSE)
    /\ UNCHANGED missed

MutReturnsCancelled(a) ==
    /\ reconnector.cancelled
    /\ Returns(a)
    /\ Ends(a)
    /\ UNCHANGED <<conn, retrying, waking, registration, abandoned, reconnector, missed>>
    /\ Rescue(FALSE)

\* connectToDaemon returns after cancel(): its client is disconnected.
ReturnsCancelled(a) ==
    /\ reconnector.cancelled
    /\ Returns(a)
    /\ GiveUp(call[a].client)
    /\ Ends(a)
    /\ UNCHANGED <<reconnector, missed>>
    /\ Rescue(FALSE)

\* The consumer's onStateChange comes first.  It may cancel, or throw, which is the end
\* of the handler and nobody but the log hears of it.
Heeds(state) == reconnector' \in {Reacts(reconnector, state), Reacts(Cancelled(reconnector), state)}
ConsumerThrows == UNCHANGED reconnector

\* connectToDaemon returns: the old client is disconnected, which its handler hears
\* if the old client was not 'disconnected'.
Replace(a) ==
    /\ ~reconnector.cancelled
    /\ Returns(a)
    /\ IF conn[Current] # "down" /\ Hears(Current)
       THEN Heeds("down") \/ ConsumerThrows
       ELSE UNCHANGED reconnector
    /\ GiveUp(Current)
    /\ call' = [call EXCEPT ![a].stage = "replacing"]
    /\ UNCHANGED missed
    /\ Rescue(FALSE)

MutWire(a) ==
    LET new == call[a].client
    IN  /\ call[a].stage = "replacing"
        /\ call' = [call EXCEPT ![a].stage = "notifying"]
        /\ reconnector' = [reconnector EXCEPT !.client = new, !.watched = new,
                                              !.delay = InitialDelay]
        /\ missed' = IF conn[new] = "down" THEN "lost before it was wired" ELSE "nothing"
        /\ UNCHANGED <<conn, retrying, waking, registration, abandoned>>
        /\ Rescue(FALSE)

\* The await of that disconnect() ends, and the new client takes the old one's place.
\* The program may have called cancel() from what disconnect() calls, or in a microtask
\* before this one; nobody asks.
Wire(a) ==
    LET new == call[a].client
    IN  /\ call[a].stage = "replacing"
        /\ call' = [call EXCEPT ![a].stage = "notifying"]
        /\ reconnector' = [reconnector EXCEPT !.client = new, !.watched = new, !.busy = FALSE,
                                              !.delay = InitialDelay]
        /\ missed' = IF conn[new] = "down" THEN "lost before it was wired" ELSE "nothing"
        /\ UNCHANGED <<conn, retrying, waking, registration, abandoned>>
        /\ Rescue(FALSE)

\* The consumer's onReconnected settles; a consumer that throws makes for another
\* attempt, although the new client is connected.
Notified(a) ==
    /\ call[a].stage = "notifying"
    /\ Ends(a)
    /\ \/ UNCHANGED reconnector /\ Rescue(FALSE)
       \/ reconnector' = Failed(reconnector) /\ Rescue(TRUE)
    /\ UNCHANGED <<conn, retrying, waking, registration, abandoned, missed>>

\* A client moves by itself, and the reconnector hears of it.
ClientMoves(c) ==
    /\ Loses(c) \/ Recovers(c) \/ GoesDown(c) \/ RetryStarts(c) \/ RetryStops(c) \/ Wakes(c)
    /\ IF conn'[c] # conn[c] /\ Hears(c)
       THEN \/ Heeds(conn'[c]) /\ missed' = "nothing"
            \/ /\ ConsumerThrows
               /\ missed' = IF conn'[c] = "down" /\ Attempts = 0
                            THEN "the consumer threw" ELSE "nothing"
       ELSE /\ UNCHANGED reconnector
            /\ missed' = IF conn'[Current] = "down" THEN missed ELSE "nothing"
    /\ UNCHANGED <<call, abandoned>>
    /\ Rescue(c = Current /\ conn'[c] = "up")

CallStep(a) == CallGoesOn(a) \/ CallFails(a) \/ ReturnsCancelled(a) \/ Replace(a) \/ Wire(a)

\* The old client's disconnect() has nothing to wait for: only microtasks run between
\* it and what comes after its await.
Replacing == \E a \in Calls : call[a].stage = "replacing"

Next ==
    /\ \/ Cancel
       \/ \E a \in Calls : Wire(a) \/ Notified(a)
       \/ ~Replacing /\ \E a \in Calls : TimerFires(a) \/ CallStep(a)
       \/ ~Replacing /\ \E c \in Clients : ClientMoves(c) \/ Registration(c)
    /\ reconnector'.timers <= MaxTimers

Spec == Init /\ [][Next]_vars

-----------------------------------------------------------------------------

\* isReconnecting is set only while an attempt is under way that will reset it,
\* and a current client that is down is being replaced, unless it went down before
\* it was wired, or the consumer threw when it was told.
Tended ==
    ~reconnector.cancelled =>
        /\ reconnector.busy => Attempts > 0
        /\ conn[Current] = "down" => Attempts > 0 \/ missed # "nothing"

\* Every client that is alive, or may come alive when the machine wakes, is the
\* current one or in a call, or was given up: while its tiers were at work, while it
\* was 'disconnected' with its wake detection on, with a resolver call under way, or
\* because its rooms could not be joined.
LiveClientsOwned ==
    \A c \in Clients :
        MayLive(c) => c = Current \/ InCall(c) \/ c \in abandoned

\* A client has a version only from the daemon that knows it, unless the version
\* outlived its session; and while a call waits for its registration, an answer that
\* says success is not lost on it.
RegistrationAgrees ==
    \A c \in Clients :
       /\ registration[c].version => registration[c].enrolled \/ registration[c].outlived
       /\ registration[c].enrolled /\ (\E a \in Calls : call[a].client = c /\ call[a].stage = "registering")
             => registration[c].request = "success"

\* After cancel() no attempt begins and no client is disconnected to be replaced.  An
\* attempt that was disconnecting the old client goes on, and puts the client it has
\* connected in the old one's place.
CancelledStays ==
    [][reconnector.cancelled =>
          /\ reconnector'.timers <= reconnector.timers
          /\ \A a \in Calls : call[a] = Idle => call'[a] = Idle
          /\ \A a \in Calls : call'[a].stage = "replacing" => call[a].stage = "replacing"
          /\ reconnector'.client # Current =>
                 \E a \in Calls : call[a].stage = "replacing" /\ reconnector'.client = call[a].client]_vars

\* A connected client is disconnected to be replaced only if it, or one before it,
\* connected by itself while an attempt was under way, or the consumer threw.
HealthyKept ==
    [][~Replacing /\ Replacing' /\ conn[Current] = "up" => rescued]_vars

(* Fairness: timers fire; every await of a call ends, for each has a deadline;  *)
(* a consumer's callback ends; a client's tier 1 recovers or gives up, and its  *)
(* tiers 2 and 3 go on or stop.  A daemon that is looked for again and again is *)
(* found again and again, connected to, and not always lost before the client   *)
(* is used.                                                                     *)

Waits(c) == Recovers(c) \/ (conn[c] = "trying" /\ GoesDown(c)) \/ RetryStarts(c) \/ RetryStops(c)

Fairness ==
    /\ WF_vars(\E a \in Calls : TimerFires(a))
    /\ \A a \in Calls : WF_vars(CallStep(a)) /\ WF_vars(Notified(a))
    /\ \A c \in Clients : WF_vars(ClientMoves(c) /\ Waits(c))
    /\ SF_vars(\E a \in Calls : CallGoesOn(a) /\ call[a].stage = "finding")
    /\ SF_vars(\E a \in Calls : CallGoesOn(a) /\ AttemptSucceeds(a))
    /\ SF_vars(\E a \in Calls : Replace(a))

FairSpec == Spec /\ Fairness

NoSpare == \A c \in Clients : c = Current \/ Live(c) \/ InCall(c)

\* A client that is down is connected or replaced in the end.
Reconnects ==
    conn[Current] = "down" /\ ~reconnector.cancelled ~>
        conn[Current] # "down" \/ reconnector.cancelled \/ missed # "nothing" \/ NoSpare

=============================================================================
