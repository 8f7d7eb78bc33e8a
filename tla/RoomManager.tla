------------------------------ MODULE RoomManager ------------------------------
(***************************************************************************)
(* RoomManager (infra/room-manager.ts) and the server it talks to: rooms   *)
(* joined and left by the program, and one rejoin operation per room that  *)
(* retries after a reconnection.                                           *)
(*                                                                         *)
(* Requests and their acks travel in order over one session, the life of a *)
(* namespace connection; when the session ends they are lost and the       *)
(* server forgets the client's memberships.  Whether there is a connected  *)
(* socket is a variable this module only reads.                            *)
(***************************************************************************)
EXTENDS Naturals, Sequences, SequencesExt

CONSTANTS
    Rooms,
    MaxRejoinAttempts,  \* maxRejoinAttempts
    MaxInFlight         \* bound: requests without an ack when the program calls

VARIABLES
    connected,      \* the provider's socket is connected
    joinedRooms,    \* #joinedRooms
    rejoin,         \* the live rejoin operation of each room, or Idle
    inFlight,       \* requests of this session whose ack did not arrive, in order
    members,        \* server: the rooms this session is in
    left,           \* history: rooms the program left and was not granted since
    strays,         \* history: rooms a joinRoom() timed out for, or the server
                    \*   refused to let the client leave, in this session
    failed,         \* history: rooms an attempt of this session failed to rejoin
    skipped         \* history: rooms rejoinRooms() skipped in this session

Idle == [phase |-> "idle", attempt |-> 0]

(* "who" is the call an ack is for: a joinRoom(), one the program called       *)
(* leaveRoom() after ("overtaken"), a rejoin attempt, or nobody, when the call *)
(* has settled or its ack changes nothing.                                     *)
Requests == [op : {"join", "leave"}, room : Rooms,
             who : {"call", "overtaken", "rejoin", "nobody"},
             answer : {"none", "success", "failure"}]

TypeOK ==
    /\ connected \in BOOLEAN
    /\ joinedRooms \subseteq Rooms
    /\ rejoin \in [Rooms -> [phase : {"idle", "joining", "delay"},
                             attempt : 0 .. MaxRejoinAttempts - 1]]
    /\ inFlight \in Seq(Requests)
    /\ members \subseteq Rooms
    /\ left \subseteq Rooms
    /\ strays \subseteq Rooms
    /\ failed \subseteq Rooms
    /\ skipped \subseteq Rooms

Init ==
    /\ joinedRooms = {}
    /\ rejoin = [r \in Rooms |-> Idle]
    /\ inFlight = <<>>
    /\ members = {}
    /\ left = {}
    /\ strays = {}
    /\ failed = {}
    /\ skipped = {}

Request(op, r, who) == [op |-> op, room |-> r, who |-> who, answer |-> "none"]

\* The requests of r in flight, whose acks are now for somebody else.
Reassigned(r, to) ==
    [i \in DOMAIN inFlight |->
        IF inFlight[i].room = r /\ inFlight[i].who \in DOMAIN to
        THEN [inFlight[i] EXCEPT !.who = to[@]] ELSE inFlight[i]]

\* An ack of this session that a call for r waits for.
Awaits(q, r, calls) == q.room = r /\ q.who \in calls
Awaited(r, calls) == \E i \in DOMAIN inFlight : Awaits(inFlight[i], r, calls)

-----------------------------------------------------------------------------
(* Rejoin operations *)

\* rejoinRooms(), on a connected socket: a first attempt for every tracked room
\* that has no operation under way.
RejoinRooms ==
    LET rejoined == {r \in joinedRooms : rejoin[r] = Idle}
    IN  /\ rejoin' = [r \in Rooms |-> IF r \in rejoined
                                       THEN [phase |-> "joining", attempt |-> 0] ELSE rejoin[r]]
        /\ inFlight' = inFlight \o [i \in DOMAIN SetToSeq(rejoined) |->
                                       Request("join", SetToSeq(rejoined)[i], "rejoin")]
        /\ skipped' = skipped \cup (joinedRooms \ rejoined)
        /\ UNCHANGED <<joinedRooms, members, left, strays, failed>>

MutAttemptFailed(r) == [rejoin EXCEPT ![r] = [phase |-> "delay", attempt |-> 0]]

MutAttemptFailedOffByOne(r) ==
    [rejoin EXCEPT ![r] = IF @.attempt < MaxRejoinAttempts
                          THEN [phase |-> "delay", attempt |-> @.attempt] ELSE Idle]

\* An attempt failed: wait for the next one, or give up.
AttemptFailed(r) ==
    [rejoin EXCEPT ![r] = IF @.attempt < MaxRejoinAttempts - 1
                          THEN [phase |-> "delay", attempt |-> @.attempt] ELSE Idle]

\* The delay is over: attemptRoomJoin, which fails at once without a connection.
RejoinAgain(r) ==
    LET next == [phase |-> "joining", attempt |-> rejoin[r].attempt + 1]
    IN  /\ rejoin[r].phase = "delay"
        /\ IF connected
           THEN /\ rejoin' = [rejoin EXCEPT ![r] = next]
                /\ inFlight' = Append(inFlight, Request("join", r, "rejoin"))
           ELSE /\ rejoin' = [rejoin EXCEPT ![r] =
                                 IF next.attempt < MaxRejoinAttempts - 1
                                 THEN [next EXCEPT !.phase = "delay"] ELSE Idle]
                /\ UNCHANGED inFlight
        /\ UNCHANGED <<joinedRooms, members, left, strays, failed, skipped>>

\* No ack within roomTimeoutMs; the request may have been lost with its session.
RejoinTimesOut(r) ==
    /\ rejoin[r].phase = "joining"
    /\ rejoin' = AttemptFailed(r)
    /\ failed' = IF Awaited(r, {"rejoin"}) THEN failed \cup {r} ELSE failed
    /\ inFlight' = Reassigned(r, [rejoin |-> "nobody"])
    /\ UNCHANGED <<joinedRooms, members, left, strays, skipped>>

-----------------------------------------------------------------------------
(* Calls of the program *)

\* joinRoom(r).
JoinRoom(r) ==
    /\ connected
    /\ Len(inFlight) < MaxInFlight
    /\ inFlight' = Append(inFlight, Request("join", r, "call"))
    /\ UNCHANGED <<joinedRooms, rejoin, members, left, strays, failed, skipped>>

\* The oldest joinRoom(r) without an ack times out.
JoinTimesOut(r) ==
    /\ Awaited(r, {"call", "overtaken"})
    /\ LET i == SelectInSeq(inFlight, LAMBDA q : Awaits(q, r, {"call", "overtaken"}))
       IN  inFlight' = [inFlight EXCEPT ![i].who = "nobody"]
    /\ strays' = strays \cup {r}
    /\ UNCHANGED <<joinedRooms, rejoin, members, left, failed, skipped>>

MutLeaveRoom(r) ==
    /\ connected
    /\ Len(inFlight) < MaxInFlight
    /\ joinedRooms' = joinedRooms \ {r}
    /\ inFlight' = Append(Reassigned(r, [call |-> "overtaken"]), Request("leave", r, "nobody"))
    /\ left' = left \cup {r}
    /\ UNCHANGED <<rejoin, members, strays, failed, skipped>>

MutLeaveRoomSilently(r) ==
    /\ connected
    /\ joinedRooms' = joinedRooms \ {r}
    /\ rejoin' = [rejoin EXCEPT ![r] = Idle]
    /\ inFlight' = Reassigned(r, [rejoin |-> "nobody", call |-> "overtaken"])
    /\ left' = left \cup {r}
    /\ UNCHANGED <<members, strays, failed, skipped>>

\* leaveRoom(r).  Its ack and its timeout settle the promise and no more.
LeaveRoom(r) ==
    /\ connected
    /\ Len(inFlight) < MaxInFlight
    /\ joinedRooms' = joinedRooms \ {r}
    /\ rejoin' = [rejoin EXCEPT ![r] = Idle]
    /\ inFlight' = Append(Reassigned(r, [rejoin |-> "nobody", call |-> "overtaken"]),
                          Request("leave", r, "nobody"))
    /\ left' = left \cup {r}
    /\ UNCHANGED <<members, strays, failed, skipped>>

-----------------------------------------------------------------------------
(* The server, and its acks *)

\* The server handles the next request: it grants it or refuses it.
ServerAnswers ==
    /\ \E i \in DOMAIN inFlight : inFlight[i].answer = "none"
    /\ LET i == SelectInSeq(inFlight, LAMBDA q : q.answer = "none")
           r == inFlight[i].room
       IN  \/ /\ inFlight' = [inFlight EXCEPT ![i].answer = "success"]
              /\ members' = IF inFlight[i].op = "join" THEN members \cup {r} ELSE members \ {r}
              /\ UNCHANGED strays
           \/ /\ inFlight' = [inFlight EXCEPT ![i].answer = "failure"]
              /\ strays' = IF inFlight[i].op = "leave" THEN strays \cup {r} ELSE strays
              /\ UNCHANGED members
    /\ UNCHANGED <<joinedRooms, rejoin, left, failed, skipped>>

MutAckArrives ==
    /\ inFlight # <<>>
    /\ Head(inFlight).answer # "none"
    /\ inFlight' = Tail(inFlight)
    /\ LET q == Head(inFlight)
       IN  /\ joinedRooms' = IF q.who \in {"call", "overtaken"} /\ q.answer = "success"
                             THEN joinedRooms \cup {q.room} ELSE joinedRooms
           /\ rejoin' = IF q.who = "rejoin" THEN [rejoin EXCEPT ![q.room] = Idle] ELSE rejoin
    /\ UNCHANGED <<members, left, strays, failed, skipped>>

\* The next ack arrives, at the call that waits for it if one still does.
AckArrives ==
    /\ inFlight # <<>>
    /\ Head(inFlight).answer # "none"
    /\ inFlight' = Tail(inFlight)
    /\ LET q == Head(inFlight)
           granted == q.answer = "success"
       IN  /\ joinedRooms' = IF q.who \in {"call", "overtaken"} /\ granted
                             THEN joinedRooms \cup {q.room} ELSE joinedRooms
           /\ left' = IF q.who = "call" /\ granted THEN left \ {q.room} ELSE left
           /\ rejoin' = CASE q.who # "rejoin" -> rejoin
                          [] q.who = "rejoin" /\ granted -> [rejoin EXCEPT ![q.room] = Idle]
                          [] OTHER -> AttemptFailed(q.room)
           /\ failed' = IF q.who = "rejoin" /\ ~granted THEN failed \cup {q.room} ELSE failed
    /\ UNCHANGED <<members, strays, skipped>>

-----------------------------------------------------------------------------
(* Calls of the transport client, and the end of a session *)

\* The session ends: requests and acks under way never arrive.
EndSession ==
    /\ inFlight' = <<>>
    /\ members' = {}
    /\ strays' = {}
    /\ failed' = {}
    /\ skipped' = {}

SessionLost == EndSession /\ UNCHANGED <<joinedRooms, rejoin, left>>

\* clearRooms(), called by disconnect().
ClearRooms ==
    /\ joinedRooms' = {}
    /\ rejoin' = [r \in Rooms |-> Idle]
    /\ left' = {}
    /\ EndSession

RoomStep ==
    \/ \E r \in Rooms : JoinRoom(r) \/ LeaveRoom(r) \/ JoinTimesOut(r)
    \/ \E r \in Rooms : RejoinAgain(r) \/ RejoinTimesOut(r)
    \/ ServerAnswers
    \/ AckArrives

=============================================================================
