----------------------------- MODULE ClientFactory -----------------------------
(***************************************************************************)
(* connectToDaemon (infra/daemon-connector.ts) and the factory behind it   *)
(* (infra/client-factory.ts): find or start a daemon, connect a client,    *)
(* register it and join its rooms.  Several calls may be under way; each   *)
(* awaits one thing at a time.                                             *)
(*                                                                         *)
(* Clients are seen from outside, as ClientView has one of them.  When a   *)
(* client moves by itself is TransportClient's matter; any order of it is  *)
(* allowed here.                                                           *)
(***************************************************************************)
EXTENDS Naturals

CONSTANTS
    Clients,        \* TransportClient objects that exist at once
    Calls,          \* calls of connectToDaemon that are under way at once
    MaxRetries,     \* maxRetries of the factory
    AutoRegister,   \* the options do not skip the registration
    JoinsRooms      \* the options name rooms to join

ASSUME FactoryAssumption ==
    /\ MaxRetries \in Nat \ {0}
    /\ AutoRegister \in BOOLEAN
    /\ JoinsRooms \in BOOLEAN

NoClient == "no client"

ASSUME NoClientAssumption == NoClient \notin Clients

VARIABLES
    conn,           \* the state of each client
    retrying,       \* disconnected clients that will connect again by themselves
    waking,         \* clients that watch for the machine to wake
    call,           \* what each call awaits
    registration,   \* the client:register request of each client
    abandoned       \* history: live clients whose owner gave up the reference

factoryVars == <<conn, retrying, waking, call, registration, abandoned>>

(* "trying": to get a lost connection back; "down": 'disconnected', or not    *)
(* made yet.                                                                  *)
ConnStates == {"opening", "up", "trying", "down"}

(* "finding": ensureDaemonRunning and discovery; "warming": a request by HTTP *)
(* and a pause; "waiting": the delay between two attempts; "registering": no  *)
(* answer yet; "joining": no answer yet to a joinRoom(), or about to return;  *)
(* "notifying": connectToDaemon has returned, and its caller's continuation   *)
(* awaits something; "replacing": that is the disconnect() of another client.   *)
Stages == {"none", "finding", "warming", "connecting", "waiting", "registering", "joining",
           "replacing", "notifying"}

Idle == [stage |-> "none", try |-> 0, client |-> NoClient]

(* Of the session of the client - request: on its way, or its answer on its   *)
(* way back, one that says success or another; enrolled: the daemon knows the *)
(* client.  Of the client - version: #daemonVersion is set; outlived, history: *)
(* it was set in a session that ended.                                        *)
Registrations == [request : {"none", "sent", "success", "other"},
                  version : BOOLEAN, enrolled : BOOLEAN, outlived : BOOLEAN]

Unregistered == [request |-> "none", version |-> FALSE, enrolled |-> FALSE, outlived |-> FALSE]

FactoryTypeOK ==
    /\ conn \in [Clients -> ConnStates]
    /\ retrying \subseteq {c \in Clients : conn[c] = "down"}
    /\ waking \subseteq Clients
    /\ call \in [Calls -> [stage : Stages, try : 0 .. MaxRetries, client : Clients \cup {NoClient}]]
    /\ registration \in [Clients -> Registrations]
    /\ abandoned \subseteq Clients

Await(a, stage, try, c) ==
    call' = [call EXCEPT ![a] = [stage |-> stage, try |-> try, client |-> c]]
Ends(a) == call' = [call EXCEPT ![a] = Idle]

\* When a connection ends, request and answer are lost and the daemon forgets the
\* client, which keeps the version; nothing registers it anew when it connects again.
Move(c, next) ==
    /\ conn' = [conn EXCEPT ![c] = next]
    /\ registration' = [registration EXCEPT ![c].request = "none", ![c].enrolled = FALSE,
                                             ![c].outlived = registration[c].version]

Live(c) == conn[c] # "down" \/ c \in retrying
MayLive(c) == Live(c) \/ c \in waking
InCall(c) == \E a \in Calls : call[a].client = c

\* disconnect() leaves a client that is 'disconnected' already as it is, with the
\* tiers that may be at work and the wake detection.  Of any other client it leaves
\* a resolver call that is under way, which may connect it again.
GiveUp(c) ==
    /\ Move(c, "down")
    /\ \/ /\ conn[c] = "down"
          /\ abandoned' = abandoned \cup ({c} \cap (retrying \cup waking))
          /\ UNCHANGED <<retrying, waking>>
       \/ /\ conn[c] # "down"
          /\ waking' = waking \ {c}
          /\ \/ UNCHANGED <<retrying, abandoned>>
             \/ retrying' = retrying \cup {c} /\ abandoned' = abandoned \cup {c}

-----------------------------------------------------------------------------
(* The calls.  A step that ends a call leaves the call to its caller. *)

\* A call looks for a daemon, and makes a factory of its own.
Begins(a) == call[a] = Idle /\ Await(a, "finding", 0, NoClient)

\* No daemon in time (DaemonSpawnError), or discovery finds none
\* (NoInstanceRunningError, InstanceCrashedError, InstanceStaleError).
FindingFails(a) ==
    /\ call[a].stage = "finding"
    /\ UNCHANGED <<conn, retrying, waking, registration, abandoned>>

\* connectWithRetry makes a client for each attempt.  Bound: one that was given up
\* may wake no more and be this one.
Attempt(a, try, kept) ==
    \E c \in Clients \ kept :
        /\ ~Live(c) /\ ~InCall(c)
        /\ conn' = [conn EXCEPT ![c] = "opening"]
        /\ registration' = [registration EXCEPT ![c] = Unregistered]
        /\ Await(a, "connecting", try, c)
        /\ abandoned' = abandoned \ {c} /\ waking' = waking \ {c}
        /\ UNCHANGED retrying

FindingSucceeds(a) ==
    /\ call[a].stage = "finding"
    /\ Await(a, "warming", 0, NoClient)
    /\ UNCHANGED <<conn, retrying, waking, registration, abandoned>>

\* httpWarmUp is answered, fails or times out: the attempts begin all the same.
WarmUpEnds(a, kept) == call[a].stage = "warming" /\ Attempt(a, 1, kept)

\* The delay depends on the error and grows with the attempts.
NextAttempt(a, kept) == call[a].stage = "waiting" /\ Attempt(a, call[a].try + 1, kept)

\* A client whose first connect() failed has nothing under way.
ConnectFails(a) ==
    /\ call[a].stage = "connecting"
    /\ Move(call[a].client, "down")
    /\ UNCHANGED <<retrying, waking, abandoned>>

AttemptFails(a) ==
    /\ call[a].try < MaxRetries
    /\ ConnectFails(a)
    /\ Await(a, "waiting", call[a].try, NoClient)

LastAttemptFails(a) == call[a].try = MaxRetries /\ ConnectFails(a)

AttemptSucceeds(a) ==
    LET c == call[a].client
    IN  /\ call[a].stage = "connecting"
        /\ conn' = [conn EXCEPT ![c] = "up"]
        /\ waking' = waking \cup {c}
        /\ IF AutoRegister
           THEN /\ registration' = [registration EXCEPT ![c].request = "sent"]
                /\ Await(a, "registering", 0, c)
           ELSE Await(a, "joining", 0, c) /\ UNCHANGED registration
        /\ UNCHANGED <<retrying, abandoned>>

\* performRegistration: the daemon handles the request ...
DaemonAnswers(c) ==
    /\ registration[c].request = "sent"
    /\ \E answer \in {"success", "other"} :
          registration' = [registration EXCEPT ![c].request = answer,
                                               ![c].enrolled = (answer = "success")]
    /\ UNCHANGED <<conn, retrying, waking, call, abandoned>>

MutAnswerArrives(c) ==
    LET waiting == {a \in Calls : call[a].stage = "registering" /\ call[a].client = c}
    IN  /\ registration[c].request \in {"success", "other"}
        /\ registration' = [registration EXCEPT ![c].request = "none",
                               ![c].version = @ \/ waiting # {}]
        /\ call' = [a \in Calls |-> IF a \in waiting THEN [call[a] EXCEPT !.stage = "joining"]
                                                      ELSE call[a]]
        /\ UNCHANGED <<conn, retrying, waking, abandoned>>

\* ... and its answer arrives: if it says success and the call still waits for it, the
\* version it names is set, which may be none.
AnswerArrives(c) ==
    LET waiting == {a \in Calls : call[a].stage = "registering" /\ call[a].client = c}
        accepted == registration[c].request = "success" /\ waiting # {}
    IN  /\ registration[c].request \in {"success", "other"}
        /\ \E named \in BOOLEAN :
              registration' = [registration EXCEPT ![c].request = "none",
                                  ![c].version = IF accepted THEN named ELSE @]
        /\ call' = [a \in Calls |-> IF a \in waiting THEN [call[a] EXCEPT !.stage = "joining"]
                                                      ELSE call[a]]
        /\ UNCHANGED <<conn, retrying, waking, abandoned>>

\* No answer in time.  The call goes on with its client all the same.
RegistrationTimesOut(a) ==
    /\ call[a].stage = "registering"
    /\ Await(a, "joining", 0, call[a].client)
    /\ UNCHANGED <<conn, retrying, waking, registration, abandoned>>

\* connect() has nothing left to await.
Returns(a) == call[a].stage = "joining"

\* joinRoom() is refused, times out or finds the client not connected: connect()
\* throws, and nobody disconnects its client.
JoinFails(a) ==
    /\ JoinsRooms
    /\ call[a].stage = "joining"
    /\ abandoned' = abandoned \cup {call[a].client}
    /\ UNCHANGED <<conn, retrying, waking, registration>>

-----------------------------------------------------------------------------
(* The clients by themselves *)

Loses(c) == conn[c] = "up" /\ Move(c, "trying") /\ UNCHANGED <<retrying, waking>>

Recovers(c) ==
    /\ conn[c] = "trying"
    /\ Move(c, "up")
    /\ waking' = waking \cup {c}
    /\ UNCHANGED retrying

\* Tier 1 gives up, a force attempt fails, the server ends the connection, or the
\* machine woke with a connection that is not one; a tier takes over or none does.
GoesDown(c) ==
    /\ conn[c] \in {"up", "trying"}
    /\ Move(c, "down")
    /\ retrying' \in {retrying, retrying \cup {c}}
    /\ UNCHANGED waking

\* Tier 2 or 3 opens a new connection, or stops.
RetryStarts(c) ==
    c \in retrying /\ Move(c, "trying") /\ retrying' = retrying \ {c} /\ UNCHANGED waking

RetryStops(c) ==
    c \in retrying /\ retrying' = retrying \ {c} /\ UNCHANGED <<conn, waking, registration>>

\* The machine wakes, or tier 1 gives up: force attempts begin anew.
Wakes(c) ==
    /\ conn[c] = "down" /\ c \in waking \ retrying
    /\ retrying' = retrying \cup {c}
    /\ UNCHANGED <<conn, waking, registration>>

=============================================================================
