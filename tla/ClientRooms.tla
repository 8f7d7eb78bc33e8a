------------------------------- MODULE ClientRooms -------------------------------
(***************************************************************************)
(* The transport client together with its RoomManager and the server's     *)
(* memberships: which steps of the client begin or end a session, and      *)
(* which of them rejoin the tracked rooms.                                 *)
(***************************************************************************)
EXTENDS TransportClient

CONSTANTS Rooms, MaxRejoinAttempts, MaxInFlight

ASSUME RoomsAssumption ==
    /\ MaxRejoinAttempts \in Nat \ {0}
    /\ MaxInFlight \in Nat

VARIABLES joinedRooms, rejoin, inFlight, members, left, strays, failed, skipped,
          renewed     \* history: rooms were rejoined in this session

RM == INSTANCE RoomManager WITH connected <- (link = "up")

managerVars == <<joinedRooms, rejoin, inFlight, members, left, strays, failed, skipped>>
roomVars == <<managerVars, renewed>>
allVars == <<vars, roomVars>>

RoomsInit == Init /\ RM!Init /\ renewed = FALSE

\* The program, the server and the room manager's timers.
RoomStep == RM!RoomStep /\ UNCHANGED <<vars, renewed>>

\* A connection opens.  Rooms are rejoined only if a force attempt opened it:
\* connect() of the program leaves that to the program.
ConnectStep ==
    /\ ConnectSucceeds
    /\ IF connectPromise = "force" THEN RM!RejoinRooms ELSE UNCHANGED managerVars
    /\ renewed' = (connectPromise = "force" \/ joinedRooms = {})

\* The wait of a reconnect handler ends: rooms are rejoined unless its
\* setState() throws, a first connection is in progress, or it timed out.
ReconnectStep ==
    /\ ReconnectWaitEnds
    /\ IF CanSetState("connected") /\ ~initialConnectInProgress /\ link = "up"
       THEN RM!RejoinRooms /\ renewed' = TRUE
       ELSE UNCHANGED roomVars

DisconnectStep == UserDisconnect /\ RM!ClearRooms /\ renewed' = FALSE

\* Every other step of the client: a session ends with its connection.
OtherStep ==
    /\ \/ \E url \in ValidUrls : UserConnect(url)
       \/ UserConnectReturnsEarly \/ UserDisconnectIgnored \/ SetServerUrlResolver
       \/ ConnectFails \/ EngineCloses \/ ServerDisconnects \/ EngineReopens
       \/ HandshakeAnswered \/ ReconnectFails \/ StaleWaitEnds
       \/ ForceAttemptGivesUp \/ ForceAttemptSkipped \/ ForceAttemptRejected
       \/ ForceAttemptHangs \/ ForceAttemptConnects \/ UrlTimerFires
       \/ WakeFromSleep \/ TimePasses
       \/ Resolver
    /\ IF link = "up" /\ link' # "up"
       THEN RM!SessionLost /\ renewed' = FALSE
       ELSE UNCHANGED roomVars

RoomsNext == RoomStep \/ ConnectStep \/ ReconnectStep \/ DisconnectStep \/ OtherStep

RoomsSpec == RoomsInit /\ [][RoomsNext]_allVars

-----------------------------------------------------------------------------
(* Properties *)

RoomsTypeOK == RM!TypeOK

\* Rooms are rejoined only while they are tracked: neither leaveRoom() nor
\* disconnect() leaves a rejoin operation behind that would enter the room again.
RejoinOnlyTracked == \A r \in Rooms : rejoin[r] # RM!Idle => r \in joinedRooms

\* Once the client rejoined its rooms in a session, the server has it in every
\* room it tracks, or a rejoin is under way, or one was tried and failed; the
\* rooms that rejoinRooms() skipped and those an overtaken joinRoom() put back
\* are excepted.
TrackedIsMember ==
    link = "up" /\ renewed =>
        \A r \in joinedRooms : r \in members \/ rejoin[r] # RM!Idle
                                  \/ r \in failed \cup skipped \cup left

\* Conversely, the server has the client in a room it does not track only while a
\* request is under way, or after a joinRoom() timed out or a leave was refused.
MemberIsTracked ==
    \A r \in members : r \in joinedRooms \cup strays
                          \/ \E i \in DOMAIN inFlight : inFlight[i].room = r

-----------------------------------------------------------------------------
(* Liveness.  The timers of the room manager fire. *)

FairRoomsSpec ==
    /\ RoomsSpec
    /\ \A r \in Rooms : WF_allVars((RM!RejoinAgain(r) \/ RM!RejoinTimesOut(r))
                                      /\ UNCHANGED <<vars, renewed>>)

\* A rejoin operation ends, whatever the server and the network do: a room that
\* is skipped because one is under way is not skipped for ever.
RejoinEnds == \A r \in Rooms : rejoin[r] # RM!Idle ~> rejoin[r] = RM!Idle

=============================================================================
