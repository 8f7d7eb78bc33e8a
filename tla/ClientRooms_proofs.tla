--------------------------- MODULE ClientRooms_proofs ---------------------------
(***************************************************************************)
(* Proofs about ClientRooms, for any rooms, any number of rejoin attempts  *)
(* and any number of requests in flight.                                   *)
(*                                                                         *)
(* What the client tracks and where the server has it are apart while      *)
(* requests travel, so the invariant is about the requests: whom an ack is *)
(* for, that the server answers in order, and that whoever makes an ack    *)
(* count for nothing has either a leave behind it or a trace in the        *)
(* history.  Of the transport client the proofs use only which steps begin *)
(* and end a session.                                                      *)
(***************************************************************************)
EXTENDS ClientRooms, FiniteSetTheorems, FunctionTheorems, SequenceTheorems, WellFoundedInduction,
        TLAPS

Positions == 1 .. Len(inFlight)

RoomTypes == RM!TypeOK /\ IsFiniteSet(joinedRooms)

\* A rejoin operation is of a tracked room, has an attempt left if it waits for
\* one, and an ack it waits for finds it joining; there is one such ack at most.
RejoinsMatch ==
    /\ \A r \in Rooms : rejoin[r] # RM!Idle => r \in joinedRooms
    /\ \A r \in Rooms : rejoin[r].phase = "delay" => rejoin[r].attempt < MaxRejoinAttempts - 1
    /\ \A i \in Positions :
          inFlight[i].who = "rejoin" => rejoin[inFlight[i].room].phase = "joining"
    /\ \A i, j \in Positions :
          inFlight[i].who = "rejoin" /\ inFlight[j].who = "rejoin"
             /\ inFlight[i].room = inFlight[j].room => i = j

\* The requests that a leave of the same room is behind.
Overtaken ==
    {i \in Positions : \E j \in Positions :
        i < j /\ inFlight[j].op = "leave" /\ inFlight[j].room = inFlight[i].room}

\* Nobody waits for the ack of a leave, whose room is remembered as left; the
\* joins before it are overtaken; the server answers in order.
RequestsInOrder ==
    /\ \A i \in Positions :
          inFlight[i].op = "leave" => inFlight[i].who = "nobody" /\ inFlight[i].room \in left
    /\ \A i \in Positions : inFlight[i].who = "call" => i \notin Overtaken
    /\ \A i, j \in Positions :
          i < j /\ inFlight[j].answer # "none" => inFlight[i].answer # "none"

\* A join the server granted still holds, or a leave undid it.
GrantedJoins ==
    \A i \in Positions :
        inFlight[i].op = "join" /\ inFlight[i].answer = "success" =>
            inFlight[i].room \in members \/ i \in Overtaken

\* A join whose ack counts for nothing is of a tracked or a stray room, or a
\* leave will undo it.
ForgottenJoins ==
    \A i \in Positions :
        inFlight[i].op = "join" /\ inFlight[i].who = "nobody" =>
            inFlight[i].room \in joinedRooms \cup strays \/ i \in Overtaken

\* In a session whose rooms were rejoined, a rejoin operation waits for an ack
\* of this session, or its room is known to have failed or to have been skipped.
RejoinsAccounted ==
    link = "up" /\ renewed =>
        \A r \in Rooms : rejoin[r] # RM!Idle =>
            \/ r \in failed \cup skipped
            \/ rejoin[r].phase = "joining" /\ RM!Awaited(r, {"rejoin"})

SessionIsUp == renewed => link = "up"

\* What will make a room the server has the client in tracked, or take the
\* client out of it: a granted ack somebody waits for, or a leave.
Settles(i) ==
    \/ /\ inFlight[i].op = "join" /\ inFlight[i].who \in {"call", "overtaken"}
       /\ inFlight[i].answer = "success"
    \/ inFlight[i].op = "leave" /\ inFlight[i].answer = "none"

MembersSettle ==
    \A r \in members \ (joinedRooms \cup strays) :
        \E i \in Positions : inFlight[i].room = r /\ Settles(i)

RoomsInv ==
    /\ RoomTypes /\ RejoinsMatch /\ RequestsInOrder
    /\ GrantedJoins /\ ForgottenJoins /\ RejoinsAccounted /\ SessionIsUp
    /\ MembersSettle /\ TrackedIsMember

-----------------------------------------------------------------------------
(* Positions in a sequence, and a set as a sequence *)

\* A set of positions that is not empty has a least one.
LEMMA LeastPosition ==
    ASSUME NEW I \in SUBSET Nat, I # {}
    PROVE  RM!Min(I) \in I /\ \A i \in I : RM!Min(I) <= i
<1> DEFINE Less == OpToRel(<, Nat)
<1>1. IsWellFoundedOn(Less, Nat)
  BY NatLessThanWellFounded
<1>2. Less = {p \in Nat \X Nat : p[1] < p[2]}
  BY Zenon DEF OpToRel
<1> HIDE DEF Less
<1>3. PICK m \in I : \A i \in I : <<i, m>> \notin Less
  BY <1>1, WFMin
<1>4. ASSUME NEW i \in I PROVE m <= i
  <2> DEFINE p == <<i, m>>
  <2>1. p \in Nat \X Nat /\ p[1] = i /\ p[2] = m
    OBVIOUS
  <2>2. ~(p[1] < p[2])
    <3> HIDE DEF p
    <3> QED
      BY <1>2, <2>1, <1>3 DEF p
  <2> QED
    BY <2>1, <2>2
<1> QED
  BY <1>4 DEF RM!Min

\* The first request without an answer.
LEMMA FirstUnanswered ==
    ASSUME inFlight \in Seq(RM!Requests), NEW k \in DOMAIN inFlight, inFlight[k].answer = "none"
    PROVE  \E i \in 1 .. Len(inFlight) :
              /\ RM!SelectInSeq(inFlight, LAMBDA q : q.answer = "none") = i
              /\ inFlight[i].answer = "none"
              /\ \A j \in 1 .. Len(inFlight) : j < i => inFlight[j].answer # "none"
<1> DEFINE I == {i \in 1 .. Len(inFlight) : inFlight[i].answer = "none"}
<1>1. I \in SUBSET Nat /\ I # {}
  OBVIOUS
<1>2. RM!SelectInSeq(inFlight, LAMBDA q : q.answer = "none") = RM!Min(I)
  BY <1>1 DEF RM!SelectInSeq
<1>3. RM!Min(I) \in I /\ \A i \in I : RM!Min(I) <= i
  BY <1>1, LeastPosition
<1>4. \A j \in 1 .. Len(inFlight) : j < RM!Min(I) => inFlight[j].answer # "none"
  BY <1>3
<1> QED
  BY <1>2, <1>3, <1>4, Zenon

LEMMA OldestCall ==
    ASSUME inFlight \in Seq(RM!Requests), NEW r \in Rooms, NEW calls,
           RM!Awaited(r, calls)
    PROVE  \E i \in 1 .. Len(inFlight) :
              /\ RM!SelectInSeq(inFlight, LAMBDA q : RM!Awaits(q, r, calls)) = i
              /\ inFlight[i].room = r /\ inFlight[i].who \in calls
<1> DEFINE I == {i \in 1 .. Len(inFlight) : RM!Awaits(inFlight[i], r, calls)}
<1>1. I \in SUBSET Nat /\ I # {}
  BY DEF RM!Awaited
<1>2. RM!SelectInSeq(inFlight, LAMBDA q : RM!Awaits(q, r, calls)) = RM!Min(I)
  BY <1>1 DEF RM!SelectInSeq
<1>3. RM!Min(I) \in I
  BY <1>1, LeastPosition
<1> QED
  BY <1>2, <1>3 DEF RM!Awaits

\* A finite set as a sequence: every element once.
LEMMA SetToSeqProperties ==
    ASSUME NEW S, IsFiniteSet(S)
    PROVE  /\ RM!SetToSeq(S) \in Seq(S)
           /\ \A i, j \in 1 .. Len(RM!SetToSeq(S)) :
                 RM!SetToSeq(S)[i] = RM!SetToSeq(S)[j] => i = j
           /\ \A x \in S : \E i \in 1 .. Len(RM!SetToSeq(S)) : RM!SetToSeq(S)[i] = x
<1>1. /\ Cardinality(S) \in Nat
      /\ ExistsBijection(1 .. Cardinality(S), S)
  BY FS_CardinalityType
<1>2. PICK f \in Bijection(1 .. Cardinality(S), S) : TRUE
  BY <1>1, Fun_ExistsBij
<1>c. RM!Cardinality(S) = Cardinality(S)
  BY Zenon DEF RM!Cardinality, Cardinality
<1>3. f \in [1 .. Cardinality(S) -> S] /\ RM!IsInjective(f)
  <2>1. f \in [1 .. Cardinality(S) -> S] /\ \A a, b \in 1 .. Cardinality(S) : f[a] = f[b] => a = b
    BY <1>2, Fun_BijectionProperties
  <2> QED
    BY <2>1 DEF RM!IsInjective
<1>4. /\ RM!SetToSeq(S) \in [1 .. Cardinality(S) -> S]
      /\ RM!IsInjective(RM!SetToSeq(S))
  BY <1>3, <1>c DEF RM!SetToSeq
<1> DEFINE q == RM!SetToSeq(S)
<1>5. q \in Seq(S) /\ DOMAIN q = 1 .. Cardinality(S) /\ Len(q) = Cardinality(S)
  BY <1>1, <1>4
<1>6. \A i, j \in 1 .. Len(q) : q[i] = q[j] => i = j
  BY <1>4, <1>5 DEF RM!IsInjective
<1>7. q \in Injection(1 .. Cardinality(S), S)
  BY <1>4, <1>5, <1>6, Fun_IsInj
<1>8. IsFiniteSet(1 .. Cardinality(S)) /\ Cardinality(1 .. Cardinality(S)) = Cardinality(S)
  BY <1>1, FS_Interval
<1>9. q \in Surjection(1 .. Cardinality(S), S)
  BY <1>7, <1>8, FS_Injection
<1> QED
  BY <1>5, <1>6, <1>9, Fun_SurjectionProperties

-----------------------------------------------------------------------------
(* What the operations do to the requests in flight *)

\* A request is added.
LEMMA Appended ==
    ASSUME inFlight \in Seq(RM!Requests), NEW q \in RM!Requests, inFlight' = Append(inFlight, q)
    PROVE  /\ inFlight' \in Seq(RM!Requests)
           /\ Len(inFlight') = Len(inFlight) + 1 /\ Len(inFlight) \in Nat
           /\ \A i \in Positions : inFlight'[i] = inFlight[i]
           /\ inFlight'[Len(inFlight) + 1] = q
BY AppendProperties, LenProperties DEF Positions

\* The oldest request leaves the sequence.
LEMMA Removed ==
    ASSUME inFlight \in Seq(RM!Requests), inFlight # <<>>, inFlight' = Tail(inFlight)
    PROVE  /\ inFlight' \in Seq(RM!Requests)
           /\ Len(inFlight') = Len(inFlight) - 1
           /\ Len(inFlight) \in Nat \ {0}
           /\ Head(inFlight) = inFlight[1] /\ inFlight[1] \in RM!Requests
           /\ \A i \in 1 .. Len(inFlight') : inFlight'[i] = inFlight[i + 1]
BY HeadTailProperties, EmptySeq

\* The acks of a room are now for somebody else.
LEMMA ReassignedRequests ==
    ASSUME inFlight \in Seq(RM!Requests), NEW r \in Rooms, NEW to,
           to \in {[rejoin |-> "nobody"], [rejoin |-> "nobody", call |-> "overtaken"]}
    PROVE  /\ RM!Reassigned(r, to) \in Seq(RM!Requests)
           /\ Len(RM!Reassigned(r, to)) = Len(inFlight)
           /\ \A i \in Positions :
                 /\ RM!Reassigned(r, to)[i].op = inFlight[i].op
                 /\ RM!Reassigned(r, to)[i].room = inFlight[i].room
                 /\ RM!Reassigned(r, to)[i].answer = inFlight[i].answer
                 /\ RM!Reassigned(r, to)[i].who =
                       IF inFlight[i].room = r /\ inFlight[i].who = "rejoin" THEN "nobody"
                       ELSE IF inFlight[i].room = r /\ inFlight[i].who = "call"
                               /\ to # [rejoin |-> "nobody"] THEN "overtaken"
                       ELSE inFlight[i].who
<1> DEFINE q == RM!Reassigned(r, to)
<1>1. Len(inFlight) \in Nat /\ DOMAIN inFlight = Positions
  BY LenProperties DEF Positions
<1>2. \A i \in Positions : inFlight[i] \in RM!Requests
  BY ElementOfSeq DEF Positions
<1>3. q = [i \in Positions |->
            IF inFlight[i].room = r /\ inFlight[i].who \in DOMAIN to
            THEN [inFlight[i] EXCEPT !.who = to[@]] ELSE inFlight[i]]
  BY <1>1 DEF RM!Reassigned
<1>4. CASE to = [rejoin |-> "nobody"]
  <2>1. DOMAIN to = {"rejoin"} /\ to["rejoin"] = "nobody"
    BY <1>4
  <2>2. \A i \in Positions :
           q[i] = IF inFlight[i].room = r /\ inFlight[i].who = "rejoin"
                  THEN [inFlight[i] EXCEPT !.who = "nobody"] ELSE inFlight[i]
    BY <1>3, <2>1
  <2>3. \A i \in Positions : q[i] \in RM!Requests
    BY <1>2, <2>2 DEF RM!Requests
  <2>4. q \in Seq(RM!Requests) /\ Len(q) = Len(inFlight)
    BY <1>1, <1>3, <2>3 DEF Positions
  <2> HIDE DEF q
  <2>5. to # [rejoin |-> "nobody", call |-> "overtaken"]
    BY <2>1
  <2> QED
    BY <1>2, <1>4, <2>2, <2>4 DEF RM!Requests, q
<1>5. CASE to = [rejoin |-> "nobody", call |-> "overtaken"]
  <2>1. DOMAIN to = {"rejoin", "call"} /\ to["rejoin"] = "nobody" /\ to["call"] = "overtaken"
    BY <1>5
  <2>2. to # [rejoin |-> "nobody"]
    <3>1. DOMAIN [rejoin |-> "nobody"] = {"rejoin"}
      OBVIOUS
    <3> QED
      BY <2>1, <3>1
  <2>3. \A i \in Positions :
           q[i] = IF inFlight[i].room = r /\ inFlight[i].who = "rejoin"
                  THEN [inFlight[i] EXCEPT !.who = "nobody"]
                  ELSE IF inFlight[i].room = r /\ inFlight[i].who = "call"
                  THEN [inFlight[i] EXCEPT !.who = "overtaken"] ELSE inFlight[i]
    BY <1>3, <2>1
  <2>4. \A i \in Positions : q[i] \in RM!Requests
    BY <1>2, <2>3 DEF RM!Requests
  <2>5. q \in Seq(RM!Requests) /\ Len(q) = Len(inFlight)
    BY <1>1, <1>3, <2>4 DEF Positions
  <2> HIDE DEF q
  <2> QED
    BY <1>2, <2>2, <2>3, <2>5 DEF RM!Requests, q
<1> QED
  BY <1>4, <1>5

LEMMA RequestTypes ==
    ASSUME inFlight \in Seq(RM!Requests)
    PROVE  /\ Len(inFlight) \in Nat /\ DOMAIN inFlight = Positions
           /\ \A i \in Positions : inFlight[i] \in RM!Requests
BY LenProperties, ElementOfSeq DEF Positions

\* Joins somebody waits for are added: nothing about the others changes.
LEMMA JoinsAdded ==
    ASSUME RoomsInv, inFlight' \in Seq(RM!Requests), Len(inFlight) <= Len(inFlight'),
           \A i \in Positions : inFlight'[i] = inFlight[i],
           \A i \in Positions' \ Positions :
              inFlight'[i].op = "join" /\ inFlight'[i].who # "nobody" /\ inFlight'[i].answer = "none",
           \A i \in Positions' \ Positions : inFlight'[i].who \in {"call", "rejoin"},
           UNCHANGED <<joinedRooms, members, left, strays>>
    PROVE  RequestsInOrder' /\ GrantedJoins' /\ ForgottenJoins' /\ MembersSettle'
<1> USE DEF RoomsInv
<1>1. Len(inFlight) \in Nat /\ Len(inFlight') \in Nat
  BY LenProperties DEF RoomTypes, RM!TypeOK
<1>2. /\ Positions \subseteq Positions'
      /\ \A i \in Positions' : \A j \in Positions' \ Positions : i < j \/ i \in Positions' \ Positions
      /\ \A i \in Positions : \A j \in Positions' \ Positions : i < j
  BY <1>1 DEF Positions
<1>3. \A i \in Positions : i \in Overtaken' <=> i \in Overtaken
  BY <1>2 DEF Overtaken
<1>4. \A i \in Positions' \ Positions : i \notin Overtaken'
  BY <1>1, <1>2 DEF Overtaken, Positions
<1>5. RequestsInOrder'
  <2>1. \A i \in Positions' :
           inFlight'[i].op = "leave" => inFlight'[i].who = "nobody" /\ inFlight'[i].room \in left'
    BY <1>2 DEF RequestsInOrder
  <2>2. \A i \in Positions' : inFlight'[i].who = "call" => i \notin Overtaken'
    BY <1>2, <1>3, <1>4 DEF RequestsInOrder
  <2>3. \A i, j \in Positions' :
           i < j /\ inFlight'[j].answer # "none" => inFlight'[i].answer # "none"
    BY <1>1 DEF RequestsInOrder, Positions
  <2> QED
    BY <2>1, <2>2, <2>3 DEF RequestsInOrder
<1>6. GrantedJoins'
  BY <1>2, <1>3 DEF GrantedJoins
<1>7. ForgottenJoins'
  BY <1>2, <1>3 DEF ForgottenJoins
<1>8. MembersSettle'
  BY <1>2 DEF MembersSettle, Settles
<1> QED
  BY <1>5, <1>6, <1>7, <1>8

\* An ack is for somebody else from now on, its request where it was.
LEMMA AcksReassigned ==
    ASSUME RoomsInv, Len(inFlight') = Len(inFlight),
           \A i \in Positions : /\ inFlight'[i].op = inFlight[i].op
                                /\ inFlight'[i].room = inFlight[i].room
                                /\ inFlight'[i].answer = inFlight[i].answer
                                /\ inFlight'[i].who \in {inFlight[i].who, "nobody"},
           UNCHANGED <<joinedRooms, members, left>>
    PROVE  /\ Positions' = Positions /\ Overtaken' = Overtaken
           /\ RequestsInOrder' /\ GrantedJoins'
<1> USE DEF RoomsInv
<1>1. Positions' = Positions
  BY DEF Positions
<1>2. Overtaken' = Overtaken
  BY <1>1 DEF Overtaken
<1>3. RequestsInOrder'
  BY <1>1, <1>2 DEF RequestsInOrder
<1>4. GrantedJoins'
  BY <1>1, <1>2 DEF GrantedJoins
<1> QED
  BY <1>1, <1>2, <1>3, <1>4

-----------------------------------------------------------------------------
(* Calls of the program *)

LEMMA JoinRoomInv ==
    ASSUME RoomsInv, NEW r \in Rooms, RM!JoinRoom(r), UNCHANGED <<link, renewed>>
    PROVE  RoomsInv'
<1> USE DEF RoomsInv
<1> DEFINE q == RM!Request("join", r, "call")
<1>1. /\ q \in RM!Requests
      /\ q.op = "join" /\ q.room = r /\ q.who = "call" /\ q.answer = "none"
  BY DEF RM!Request, RM!Requests
<1>2. /\ inFlight' = Append(inFlight, q)
      /\ UNCHANGED <<joinedRooms, rejoin, members, left, strays, failed, skipped>>
  BY DEF RM!JoinRoom
<1> HIDE DEF q
<1>3. inFlight \in Seq(RM!Requests)
  BY DEF RoomTypes, RM!TypeOK
<1>4. /\ inFlight' \in Seq(RM!Requests)
      /\ Len(inFlight) \in Nat /\ Len(inFlight') = Len(inFlight) + 1
      /\ \A i \in Positions : inFlight'[i] = inFlight[i]
      /\ inFlight'[Len(inFlight) + 1] = q
  BY <1>1, <1>2, <1>3, Appended DEF Positions
<1>5. /\ \A i \in Positions' : i \in Positions \/ i = Len(inFlight) + 1
      /\ Positions \subseteq Positions'
  BY <1>4 DEF Positions
<1>6. RoomTypes'
  BY <1>2, <1>4 DEF RoomTypes, RM!TypeOK
<1>7. RejoinsMatch'
  BY <1>1, <1>2, <1>4, <1>5 DEF RejoinsMatch, RM!Idle
<1>8. RequestsInOrder' /\ GrantedJoins' /\ ForgottenJoins' /\ MembersSettle'
  <2>1. \A i \in Positions' \ Positions : inFlight'[i] = q
    BY <1>4, <1>5
  <2>2. Len(inFlight) <= Len(inFlight')
    BY <1>4
  <2> QED
    BY <1>1, <1>2, <1>4, <2>1, <2>2, JoinsAdded
<1>9. RejoinsAccounted'
  BY <1>2, <1>3, <1>4, RequestTypes DEF RejoinsAccounted, RM!Awaited, RM!Awaits, RM!Idle, Positions
<1> QED
  BY <1>2, <1>6, <1>7, <1>8, <1>9 DEF SessionIsUp, TrackedIsMember, RM!Idle

LEMMA LeaveRoomInv ==
    ASSUME RoomsInv, NEW r \in Rooms, RM!LeaveRoom(r), UNCHANGED <<link, renewed>>
    PROVE  RoomsInv'
<1> USE DEF RoomsInv
<1> DEFINE q == RM!Request("leave", r, "nobody")
           old == RM!Reassigned(r, [rejoin |-> "nobody", call |-> "overtaken"])
           n == Len(inFlight) + 1
<1>1. /\ q \in RM!Requests
      /\ q.op = "leave" /\ q.room = r /\ q.who = "nobody" /\ q.answer = "none"
  BY DEF RM!Request, RM!Requests
<1>2. /\ joinedRooms' = joinedRooms \ {r}
      /\ rejoin' = [rejoin EXCEPT ![r] = RM!Idle]
      /\ inFlight' = Append(old, q)
      /\ left' = left \cup {r}
      /\ UNCHANGED <<members, strays, failed, skipped>>
  BY DEF RM!LeaveRoom
<1>3. inFlight \in Seq(RM!Requests) /\ rejoin' \in [Rooms -> {rejoin[s] : s \in Rooms} \cup {RM!Idle}]
  BY <1>2 DEF RoomTypes, RM!TypeOK
<1>t. /\ rejoin'[r] = RM!Idle /\ \A s \in Rooms : s # r => rejoin'[s] = rejoin[s]
      /\ rejoin' \in [Rooms -> [phase : {"idle", "joining", "delay"}, attempt : 0 .. MaxRejoinAttempts - 1]]
  BY <1>2, RoomsAssumption DEF RoomTypes, RM!TypeOK, RM!Idle
<1>4. /\ old \in Seq(RM!Requests) /\ Len(old) = Len(inFlight)
      /\ \A i \in Positions :
           /\ old[i].op = inFlight[i].op
           /\ old[i].room = inFlight[i].room
           /\ old[i].answer = inFlight[i].answer
           /\ old[i].who = IF inFlight[i].room = r /\ inFlight[i].who = "rejoin" THEN "nobody"
                           ELSE IF inFlight[i].room = r /\ inFlight[i].who = "call"
                           THEN "overtaken" ELSE inFlight[i].who
  <2> DEFINE to == [rejoin |-> "nobody", call |-> "overtaken"]
  <2>1. to # [rejoin |-> "nobody"]
    <3>1. DOMAIN to = {"rejoin", "call"} /\ DOMAIN [rejoin |-> "nobody"] = {"rejoin"}
      OBVIOUS
    <3> QED
      BY <3>1
  <2> HIDE DEF to
  <2>2. to \in {[rejoin |-> "nobody"], [rejoin |-> "nobody", call |-> "overtaken"]}
    BY DEF to
  <2>3. old = RM!Reassigned(r, to)
    BY DEF to
  <2> HIDE DEF old
  <2> QED
    BY <1>3, <2>1, <2>2, <2>3, ReassignedRequests
<1> HIDE DEF q, old
<1>5. /\ inFlight' \in Seq(RM!Requests)
      /\ Len(inFlight) \in Nat /\ Len(inFlight') = n
      /\ \A i \in Positions : inFlight'[i] = old[i]
      /\ inFlight'[n] = q
  BY <1>1, <1>2, <1>3, <1>4, AppendProperties, LenProperties DEF Positions
<1>6. /\ \A i \in Positions' : i \in Positions \/ i = n
      /\ Positions \subseteq Positions' /\ n \in Positions'
      /\ \A i \in Positions : i < n
  BY <1>5 DEF Positions
<1> HIDE DEF n
<1>7. RoomTypes'
  <2>1. IsFiniteSet(joinedRooms')
    BY <1>2, FS_RemoveElement DEF RoomTypes
  <2> QED
    BY <1>2, <1>5, <1>t, <2>1 DEF RoomTypes, RM!TypeOK
<1>8. \A i \in Positions : inFlight[i].room \in Rooms
  BY <1>3, RequestTypes DEF RM!Requests
<1>9. RejoinsMatch'
  <2>1. \A i \in Positions' : inFlight'[i].who = "rejoin" =>
           /\ i \in Positions /\ inFlight[i].who = "rejoin"
           /\ inFlight'[i].room = inFlight[i].room /\ inFlight[i].room # r
    BY <1>1, <1>4, <1>5, <1>6
  <2>2. \A i \in Positions' : inFlight'[i].who = "rejoin" => rejoin'[inFlight'[i].room].phase = "joining"
    BY <1>t, <1>8, <2>1 DEF RejoinsMatch
  <2>3. \A i, j \in Positions' :
           inFlight'[i].who = "rejoin" /\ inFlight'[j].who = "rejoin"
              /\ inFlight'[i].room = inFlight'[j].room => i = j
    BY <2>1 DEF RejoinsMatch
  <2>4. \A s \in Rooms : rejoin'[s] # RM!Idle => s \in joinedRooms'
    BY <1>2, <1>t DEF RejoinsMatch
  <2>5. \A s \in Rooms : rejoin'[s].phase = "delay" => rejoin'[s].attempt < MaxRejoinAttempts - 1
    BY <1>t DEF RejoinsMatch, RM!Idle
  <2> QED
    BY <2>2, <2>3, <2>4, <2>5 DEF RejoinsMatch, RM!Idle
<1>10. \A i \in Positions : i \in Overtaken' <=> i \in Overtaken \/ inFlight[i].room = r
  BY <1>1, <1>4, <1>5, <1>6 DEF Overtaken
<1>11. n \notin Overtaken'
  BY <1>5, <1>6 DEF Overtaken, Positions, n
<1>12. RequestsInOrder'
  <2>1. \A i \in Positions' :
           inFlight'[i].op = "leave" => inFlight'[i].who = "nobody" /\ inFlight'[i].room \in left'
    <3> SUFFICES ASSUME NEW i \in Positions', inFlight'[i].op = "leave"
                 PROVE  inFlight'[i].who = "nobody" /\ inFlight'[i].room \in left'
      OBVIOUS
    <3>1. CASE i \in Positions
      BY <1>2, <1>4, <1>5, <3>1 DEF RequestsInOrder
    <3>2. CASE i = n
      BY <1>1, <1>2, <1>5, <3>2
    <3> QED
      BY <1>6, <3>1, <3>2
  <2>2. \A i \in Positions' : inFlight'[i].who = "call" => i \notin Overtaken'
    BY <1>1, <1>4, <1>5, <1>6, <1>10, <1>11 DEF RequestsInOrder
  <2>3. \A i, j \in Positions' :
           i < j /\ inFlight'[j].answer # "none" => inFlight'[i].answer # "none"
    <3> SUFFICES ASSUME NEW i \in Positions', NEW j \in Positions', i < j, inFlight'[j].answer # "none"
                 PROVE  inFlight'[i].answer # "none"
      OBVIOUS
    <3>1. j \in Positions /\ i \in Positions
      BY <1>1, <1>5, <1>6 DEF Positions, n
    <3> QED
      BY <1>4, <1>5, <3>1 DEF RequestsInOrder
  <2> QED
    BY <2>1, <2>2, <2>3 DEF RequestsInOrder
<1>13. GrantedJoins'
  BY <1>1, <1>2, <1>4, <1>5, <1>6, <1>10 DEF GrantedJoins
<1>14. ForgottenJoins'
  <2> SUFFICES ASSUME NEW i \in Positions, inFlight[i].op = "join", inFlight'[i].who = "nobody"
               PROVE  inFlight[i].room \in (joinedRooms \ {r}) \cup strays \/ i \in Overtaken'
    BY <1>1, <1>2, <1>4, <1>5, <1>6 DEF ForgottenJoins
  <2>1. CASE inFlight[i].room = r
    BY <1>10, <2>1
  <2>2. CASE inFlight[i].room # r
    <3>1. inFlight[i].who = "nobody"
      BY <1>4, <1>5, <2>2
    <3> QED
      BY <1>10, <2>2, <3>1 DEF ForgottenJoins
  <2> QED
    BY <2>1, <2>2
<1>15. RejoinsAccounted'
  <2> SUFFICES ASSUME link = "up", renewed, NEW s \in Rooms, rejoin'[s] # RM!Idle
               PROVE  \/ s \in failed \cup skipped
                      \/ rejoin'[s].phase = "joining" /\ RM!Awaited(s, {"rejoin"})'
    BY <1>2 DEF RejoinsAccounted, RM!Idle
  <2>1. s # r /\ rejoin'[s] = rejoin[s]
    BY <1>t
  <2>2. CASE s \in failed \cup skipped
    BY <2>2
  <2>3. CASE rejoin[s].phase = "joining" /\ RM!Awaited(s, {"rejoin"})
    <3>1. PICK i \in Positions : inFlight[i].room = s /\ inFlight[i].who = "rejoin"
      BY <1>3, <2>3, RequestTypes DEF RM!Awaited, RM!Awaits
    <3>2. inFlight'[i].room = s /\ inFlight'[i].who = "rejoin" /\ i \in Positions'
      BY <1>4, <1>5, <1>6, <2>1, <3>1
    <3>3. DOMAIN inFlight' = Positions'
      BY <1>5, LenProperties DEF Positions
    <3> QED
      BY <2>1, <2>3, <3>2, <3>3 DEF RM!Awaited, RM!Awaits
  <2> QED
    BY <2>1, <2>2, <2>3 DEF RejoinsAccounted
<1>16. MembersSettle'
  <2> SUFFICES ASSUME NEW s \in members, s \notin (joinedRooms \ {r}) \cup strays
               PROVE  \E i \in Positions' : inFlight'[i].room = s /\ Settles(i)'
    BY <1>2 DEF MembersSettle
  <2>1. CASE s = r
    BY <1>1, <1>5, <1>6, <2>1 DEF Settles
  <2>2. CASE s # r
    <3>1. PICK i \in Positions : inFlight[i].room = s /\ Settles(i)
      BY <2>2 DEF MembersSettle
    <3> QED
      BY <1>4, <1>5, <1>6, <2>2, <3>1 DEF Settles
  <2> QED
    BY <2>1, <2>2
<1> QED
  BY <1>2, <1>t, <1>7, <1>9, <1>12, <1>13, <1>14, <1>15, <1>16 DEF SessionIsUp, TrackedIsMember, RM!Idle

LEMMA JoinTimesOutInv ==
    ASSUME RoomsInv, NEW r \in Rooms, RM!JoinTimesOut(r), UNCHANGED <<link, renewed>>
    PROVE  RoomsInv'
<1> USE DEF RoomsInv
<1>1. inFlight \in Seq(RM!Requests)
  BY DEF RoomTypes, RM!TypeOK
<1>2. RM!Awaited(r, {"call", "overtaken"})
  BY Zenon DEF RM!JoinTimesOut
<1>3. PICK k \in 1 .. Len(inFlight) :
          /\ RM!SelectInSeq(inFlight, LAMBDA q : RM!Awaits(q, r, {"call", "overtaken"})) = k
          /\ inFlight[k].room = r /\ inFlight[k].who \in {"call", "overtaken"}
  BY <1>1, <1>2, OldestCall, Zenon
<1>4. /\ inFlight' = [inFlight EXCEPT ![k].who = "nobody"]
      /\ strays' = strays \cup {r}
      /\ UNCHANGED <<joinedRooms, rejoin, members, left, failed, skipped>>
  BY <1>3, Zenon DEF RM!JoinTimesOut
<1>5. /\ Len(inFlight) \in Nat /\ DOMAIN inFlight = Positions /\ k \in Positions
      /\ \A i \in Positions : inFlight[i] \in RM!Requests
  BY <1>1, RequestTypes DEF Positions
<1>6. \A i \in Positions : inFlight'[i] = IF i = k THEN [inFlight[i] EXCEPT !.who = "nobody"] ELSE inFlight[i]
  BY <1>4, <1>5
<1>7. \A i \in Positions : inFlight'[i] \in RM!Requests
  BY <1>5, <1>6 DEF RM!Requests
<1>8. inFlight' \in Seq(RM!Requests) /\ Len(inFlight') = Len(inFlight)
  <2>1. PICK e \in RM!Requests : inFlight' = [inFlight EXCEPT ![k] = e]
    BY <1>4, <1>5, <1>6, <1>7
  <2> QED
    BY <1>1, <1>5, <2>1, ExceptSeq DEF Positions
<1>9. \A i \in Positions : /\ inFlight'[i].op = inFlight[i].op
                           /\ inFlight'[i].room = inFlight[i].room
                           /\ inFlight'[i].answer = inFlight[i].answer
                           /\ inFlight'[i].who = IF i = k THEN "nobody" ELSE inFlight[i].who
  BY <1>5, <1>6 DEF RM!Requests
<1>10. /\ Positions' = Positions /\ Overtaken' = Overtaken
       /\ RequestsInOrder' /\ GrantedJoins'
  BY <1>4, <1>8, <1>9, AcksReassigned
<1>11. RoomTypes'
  BY <1>4, <1>8 DEF RoomTypes, RM!TypeOK
<1>12. RejoinsMatch'
  BY <1>4, <1>9, <1>10 DEF RejoinsMatch, RM!Idle
<1>13. ForgottenJoins'
  BY <1>3, <1>4, <1>9, <1>10 DEF ForgottenJoins
<1>14. RejoinsAccounted'
  <2>1. \A s \in Rooms : RM!Awaited(s, {"rejoin"}) => RM!Awaited(s, {"rejoin"})'
    <3>1. DOMAIN inFlight' = Positions
      BY <1>8 DEF Positions
    <3> QED
      BY <1>3, <1>5, <1>9, <3>1 DEF RM!Awaited, RM!Awaits
  <2> QED
    BY <1>4, <2>1 DEF RejoinsAccounted, RM!Idle
<1>15. MembersSettle'
  <2> SUFFICES ASSUME NEW s \in members, s \notin joinedRooms \cup strays, s # r
               PROVE  \E i \in Positions : inFlight'[i].room = s /\ Settles(i)'
    BY <1>4, <1>10 DEF MembersSettle
  <2>1. PICK i \in Positions : inFlight[i].room = s /\ Settles(i)
    BY DEF MembersSettle
  <2>2. i # k
    BY <1>3, <2>1
  <2> QED
    BY <1>9, <2>1, <2>2 DEF Settles
<1> QED
  BY <1>4, <1>10, <1>11, <1>12, <1>13, <1>14, <1>15 DEF SessionIsUp, TrackedIsMember, RM!Idle

-----------------------------------------------------------------------------
(* Rejoin operations *)

\* A failed attempt leaves the operation idle or with an attempt left.
LEMMA AttemptFailedProperties ==
    ASSUME RoomTypes, NEW r \in Rooms
    PROVE  /\ RM!AttemptFailed(r) \in [Rooms -> [phase : {"idle", "joining", "delay"},
                                                attempt : 0 .. MaxRejoinAttempts - 1]]
           /\ \A s \in Rooms : s # r => RM!AttemptFailed(r)[s] = rejoin[s]
           /\ \/ RM!AttemptFailed(r)[r] = RM!Idle
              \/ /\ RM!AttemptFailed(r)[r].phase = "delay"
                 /\ RM!AttemptFailed(r)[r].attempt < MaxRejoinAttempts - 1
<1>1. RM!Idle \in [phase : {"idle", "joining", "delay"}, attempt : 0 .. MaxRejoinAttempts - 1]
  BY RoomsAssumption DEF RM!Idle
<1> DEFINE d == [phase |-> "delay", attempt |-> rejoin[r].attempt]
           v == IF rejoin[r].attempt < MaxRejoinAttempts - 1 THEN d ELSE RM!Idle
<1>2. rejoin[r] \in [phase : {"idle", "joining", "delay"}, attempt : 0 .. MaxRejoinAttempts - 1]
  BY DEF RoomTypes, RM!TypeOK
<1>3. d \in [phase : {"idle", "joining", "delay"}, attempt : 0 .. MaxRejoinAttempts - 1]
      /\ d.phase = "delay" /\ d.attempt = rejoin[r].attempt
  BY <1>2
<1>4. RM!AttemptFailed(r) = [rejoin EXCEPT ![r] = v]
  BY DEF RM!AttemptFailed
<1> HIDE DEF d
<1>5. v \in [phase : {"idle", "joining", "delay"}, attempt : 0 .. MaxRejoinAttempts - 1]
      /\ (v = RM!Idle \/ (v.phase = "delay" /\ v.attempt < MaxRejoinAttempts - 1))
  <2>1. CASE rejoin[r].attempt < MaxRejoinAttempts - 1
    <3>1. v = d
      BY <2>1
    <3> QED
      BY <1>3, <2>1, <3>1
  <2>2. CASE ~(rejoin[r].attempt < MaxRejoinAttempts - 1)
    BY <1>1, <2>2
  <2> QED
    BY <2>1, <2>2
<1> HIDE DEF v
<1> QED
  BY <1>4, <1>5 DEF RoomTypes, RM!TypeOK

LEMMA RejoinTimesOutInv ==
    ASSUME RoomsInv, NEW r \in Rooms, RM!RejoinTimesOut(r), UNCHANGED <<link, renewed>>
    PROVE  RoomsInv'
<1> USE DEF RoomsInv
<1>1. inFlight \in Seq(RM!Requests)
  BY DEF RoomTypes, RM!TypeOK
<1>2. /\ rejoin[r].phase = "joining"
      /\ rejoin' = RM!AttemptFailed(r)
      /\ failed' = IF RM!Awaited(r, {"rejoin"}) THEN failed \cup {r} ELSE failed
      /\ inFlight' = RM!Reassigned(r, [rejoin |-> "nobody"])
      /\ UNCHANGED <<joinedRooms, members, left, strays, skipped>>
  BY DEF RM!RejoinTimesOut
<1>3. rejoin[r] # RM!Idle /\ r \in joinedRooms
  BY <1>2 DEF RM!Idle, RejoinsMatch
<1>4. /\ inFlight' \in Seq(RM!Requests) /\ Len(inFlight') = Len(inFlight)
      /\ \A i \in Positions :
           /\ inFlight'[i].op = inFlight[i].op
           /\ inFlight'[i].room = inFlight[i].room
           /\ inFlight'[i].answer = inFlight[i].answer
           /\ inFlight'[i].who = IF inFlight[i].room = r /\ inFlight[i].who = "rejoin"
                                 THEN "nobody" ELSE inFlight[i].who
  <2> DEFINE to == [rejoin |-> "nobody"]
  <2>1. to \in {[rejoin |-> "nobody"], [rejoin |-> "nobody", call |-> "overtaken"]}
    OBVIOUS
  <2>2. inFlight' = RM!Reassigned(r, to) /\ to = [rejoin |-> "nobody"]
    BY <1>2
  <2> HIDE DEF to
  <2> QED
    BY <1>1, <2>1, <2>2, ReassignedRequests
<1>5. /\ Len(inFlight) \in Nat /\ DOMAIN inFlight = Positions /\ DOMAIN inFlight' = Positions
      /\ \A i \in Positions : inFlight[i].room \in Rooms
  BY <1>1, <1>4, RequestTypes, LenProperties DEF Positions, RM!Requests
<1>6. /\ Positions' = Positions /\ Overtaken' = Overtaken
      /\ RequestsInOrder' /\ GrantedJoins'
  BY <1>2, <1>4, AcksReassigned
<1>7. /\ rejoin' \in [Rooms -> [phase : {"idle", "joining", "delay"}, attempt : 0 .. MaxRejoinAttempts - 1]]
      /\ \A s \in Rooms : s # r => rejoin'[s] = rejoin[s]
      /\ rejoin'[r] = RM!Idle \/ (rejoin'[r].phase = "delay" /\ rejoin'[r].attempt < MaxRejoinAttempts - 1)
  <2> DEFINE f == RM!AttemptFailed(r)
  <2>1. /\ f \in [Rooms -> [phase : {"idle", "joining", "delay"}, attempt : 0 .. MaxRejoinAttempts - 1]]
        /\ \A s \in Rooms : s # r => f[s] = rejoin[s]
        /\ f[r] = RM!Idle \/ (f[r].phase = "delay" /\ f[r].attempt < MaxRejoinAttempts - 1)
    BY AttemptFailedProperties
  <2>2. rejoin' = f
    BY <1>2
  <2> HIDE DEF f
  <2> QED
    BY <2>1, <2>2
<1>8. failed \subseteq failed' /\ failed' \subseteq failed \cup {r}
  BY <1>2
<1>9. RoomTypes'
  BY <1>2, <1>4, <1>7, <1>8 DEF RoomTypes, RM!TypeOK
<1>10. RejoinsMatch'
  <2>1. \A i \in Positions : inFlight'[i].who = "rejoin" =>
           inFlight[i].who = "rejoin" /\ inFlight'[i].room = inFlight[i].room /\ inFlight[i].room # r
    BY <1>4
  <2>2. \A i \in Positions : inFlight'[i].who = "rejoin" => rejoin'[inFlight'[i].room].phase = "joining"
    BY <1>5, <1>7, <2>1 DEF RejoinsMatch
  <2>3. \A i, j \in Positions :
           inFlight'[i].who = "rejoin" /\ inFlight'[j].who = "rejoin"
              /\ inFlight'[i].room = inFlight'[j].room => i = j
    BY <2>1 DEF RejoinsMatch
  <2>4. \A s \in Rooms : rejoin'[s] # RM!Idle => s \in joinedRooms'
    BY <1>2, <1>3, <1>7 DEF RejoinsMatch
  <2>5. \A s \in Rooms : rejoin'[s].phase = "delay" => rejoin'[s].attempt < MaxRejoinAttempts - 1
    BY <1>7 DEF RejoinsMatch, RM!Idle
  <2> QED
    BY <1>6, <2>2, <2>3, <2>4, <2>5 DEF RejoinsMatch, RM!Idle
<1>11. ForgottenJoins'
  BY <1>2, <1>3, <1>4, <1>6 DEF ForgottenJoins
<1>12. RejoinsAccounted'
  <2> SUFFICES ASSUME link = "up", renewed, NEW s \in Rooms, rejoin'[s] # RM!Idle
               PROVE  \/ s \in failed' \cup skipped
                      \/ rejoin'[s].phase = "joining" /\ RM!Awaited(s, {"rejoin"})'
    BY <1>2 DEF RejoinsAccounted, RM!Idle
  <2>1. CASE s = r
    BY <1>2, <1>3, <2>1 DEF RejoinsAccounted
  <2>2. CASE s # r /\ s \notin failed \cup skipped
    <3>1. rejoin'[s] = rejoin[s] /\ rejoin[s].phase = "joining" /\ RM!Awaited(s, {"rejoin"})
      BY <1>7, <2>2 DEF RejoinsAccounted
    <3>2. RM!Awaited(s, {"rejoin"})'
      BY <1>4, <1>5, <2>2, <3>1 DEF RM!Awaited, RM!Awaits
    <3> QED
      BY <3>1, <3>2
  <2> QED
    BY <1>8, <2>1, <2>2
<1>13. MembersSettle'
  BY <1>2, <1>4, <1>6 DEF MembersSettle, Settles
<1>14. TrackedIsMember'
  <2> SUFFICES ASSUME link = "up", renewed, NEW s \in joinedRooms, s \notin members,
                      rejoin'[s] = RM!Idle
               PROVE  s \in failed' \cup skipped \cup left
    BY <1>2 DEF TrackedIsMember, RM!Idle
  <2>1. CASE s = r
    BY <1>2, <1>3, <2>1 DEF RejoinsAccounted
  <2>2. CASE s # r
    <3>1. s \in Rooms
      BY DEF RoomTypes, RM!TypeOK
    <3>2. rejoin[s] = RM!Idle
      BY <1>7, <2>2, <3>1
    <3> QED
      BY <1>8, <3>2 DEF TrackedIsMember
  <2> QED
    BY <2>1, <2>2
<1> QED
  BY <1>6, <1>9, <1>10, <1>11, <1>12, <1>13, <1>14 DEF SessionIsUp

LEMMA RejoinAgainInv ==
    ASSUME RoomsInv, NEW r \in Rooms, RM!RejoinAgain(r), UNCHANGED <<link, renewed>>
    PROVE  RoomsInv'
<1> USE DEF RoomsInv
<1> DEFINE a == rejoin[r].attempt + 1
           next == [phase |-> "joining", attempt |-> a]
           q == RM!Request("join", r, "rejoin")
<1>1. /\ inFlight \in Seq(RM!Requests)
      /\ rejoin \in [Rooms -> [phase : {"idle", "joining", "delay"}, attempt : 0 .. MaxRejoinAttempts - 1]]
  BY DEF RoomTypes, RM!TypeOK
<1>2. rejoin[r].phase = "delay" /\ UNCHANGED <<joinedRooms, members, left, strays, failed, skipped>>
  BY DEF RM!RejoinAgain
<1>3. rejoin[r] # RM!Idle /\ r \in joinedRooms
  BY <1>2 DEF RM!Idle, RejoinsMatch
<1>4. a \in 0 .. MaxRejoinAttempts - 1
  BY <1>1, <1>2, RoomsAssumption DEF RejoinsMatch
<1>5. /\ Len(inFlight) \in Nat /\ DOMAIN inFlight = Positions
      /\ \A i \in Positions : inFlight[i].room \in Rooms
      /\ \A i \in Positions : inFlight[i].who = "rejoin" => inFlight[i].room # r
  BY <1>1, <1>2, RequestTypes DEF RM!Requests, RejoinsMatch
<1>6. CASE link = "up"
  <2>1. rejoin' = [rejoin EXCEPT ![r] = next] /\ inFlight' = Append(inFlight, q)
    BY <1>6 DEF RM!RejoinAgain
  <2>2. /\ q \in RM!Requests
        /\ q.op = "join" /\ q.room = r /\ q.who = "rejoin" /\ q.answer = "none"
    BY DEF RM!Request, RM!Requests
  <2>3. /\ next \in [phase : {"idle", "joining", "delay"}, attempt : 0 .. MaxRejoinAttempts - 1]
        /\ next.phase = "joining"
    BY <1>4
  <2> HIDE DEF q, next
  <2>4. /\ inFlight' \in Seq(RM!Requests) /\ Len(inFlight') = Len(inFlight) + 1
        /\ \A i \in Positions : inFlight'[i] = inFlight[i]
        /\ inFlight'[Len(inFlight) + 1] = q
    BY <1>1, <2>1, <2>2, Appended DEF Positions
  <2>5. /\ \A i \in Positions' : i \in Positions \/ i = Len(inFlight) + 1
        /\ Positions \subseteq Positions' /\ Len(inFlight) + 1 \in Positions'
        /\ DOMAIN inFlight' = Positions'
    BY <1>5, <2>4, LenProperties DEF Positions
  <2>6. /\ rejoin' \in [Rooms -> [phase : {"idle", "joining", "delay"}, attempt : 0 .. MaxRejoinAttempts - 1]]
        /\ rejoin'[r].phase = "joining"
        /\ \A s \in Rooms : s # r => rejoin'[s] = rejoin[s]
    BY <1>1, <2>1, <2>3
  <2>7. RoomTypes'
    BY <1>2, <2>4, <2>6 DEF RoomTypes, RM!TypeOK
  <2>8. RejoinsMatch'
    <3>1. \A i \in Positions' : inFlight'[i].who = "rejoin" => rejoin'[inFlight'[i].room].phase = "joining"
      BY <1>5, <2>2, <2>4, <2>5, <2>6 DEF RejoinsMatch
    <3>2. \A i, j \in Positions' :
             inFlight'[i].who = "rejoin" /\ inFlight'[j].who = "rejoin"
                /\ inFlight'[i].room = inFlight'[j].room => i = j
      BY <1>5, <2>2, <2>4, <2>5 DEF RejoinsMatch
    <3>3. \A s \in Rooms : rejoin'[s] # RM!Idle => s \in joinedRooms'
      BY <1>2, <1>3, <2>6 DEF RejoinsMatch
    <3>4. \A s \in Rooms : rejoin'[s].phase = "delay" => rejoin'[s].attempt < MaxRejoinAttempts - 1
      BY <2>6 DEF RejoinsMatch
    <3> QED
      BY <3>1, <3>2, <3>3, <3>4 DEF RejoinsMatch, RM!Idle
  <2>9. RequestsInOrder' /\ GrantedJoins' /\ ForgottenJoins' /\ MembersSettle'
    <3>1. \A i \in Positions' \ Positions : inFlight'[i] = q
      BY <2>4, <2>5
    <3>2. Len(inFlight) <= Len(inFlight')
      BY <1>5, <2>4
    <3> QED
      BY <1>2, <2>2, <2>4, <3>1, <3>2, JoinsAdded
  <2>10. RejoinsAccounted'
    <3> SUFFICES ASSUME link = "up", renewed, NEW s \in Rooms, rejoin'[s] # RM!Idle,
                        s \notin failed \cup skipped
                 PROVE  rejoin'[s].phase = "joining" /\ RM!Awaited(s, {"rejoin"})'
      BY <1>2 DEF RejoinsAccounted, RM!Idle
    <3>1. CASE s = r
      BY <2>2, <2>4, <2>5, <2>6, <3>1 DEF RM!Awaited, RM!Awaits
    <3>2. CASE s # r
      <4>1. rejoin'[s] = rejoin[s] /\ rejoin[s].phase = "joining" /\ RM!Awaited(s, {"rejoin"})
        BY <2>6, <3>2 DEF RejoinsAccounted
      <4> QED
        BY <1>5, <2>4, <2>5, <4>1 DEF RM!Awaited, RM!Awaits
    <3> QED
      BY <3>1, <3>2
  <2>11. TrackedIsMember'
    <3>1. rejoin'[r] # RM!Idle
      BY <2>6 DEF RM!Idle
    <3> QED
      BY <1>2, <2>6, <3>1 DEF TrackedIsMember, RoomTypes, RM!TypeOK, RM!Idle
  <2> QED
    BY <2>7, <2>8, <2>9, <2>10, <2>11 DEF SessionIsUp
<1>7. CASE link # "up"
  <2> DEFINE v == IF a < MaxRejoinAttempts - 1 THEN [next EXCEPT !.phase = "delay"] ELSE RM!Idle
  <2>1. rejoin' = [rejoin EXCEPT ![r] = v] /\ UNCHANGED inFlight
    BY <1>7 DEF RM!RejoinAgain
  <2>2. /\ v \in [phase : {"idle", "joining", "delay"}, attempt : 0 .. MaxRejoinAttempts - 1]
        /\ v.phase = "delay" => v.attempt < MaxRejoinAttempts - 1
    <3>1. CASE a < MaxRejoinAttempts - 1
      <4>1. v = [phase |-> "delay", attempt |-> a]
        BY <3>1
      <4> HIDE DEF v
      <4> QED
        BY <1>4, <3>1, <4>1
    <3>2. CASE ~(a < MaxRejoinAttempts - 1)
      <4>1. v = RM!Idle
        BY <3>2
      <4> HIDE DEF v
      <4> QED
        BY <4>1, RoomsAssumption DEF RM!Idle
    <3> QED
      BY <3>1, <3>2
  <2> HIDE DEF v
  <2>3. /\ rejoin' \in [Rooms -> [phase : {"idle", "joining", "delay"}, attempt : 0 .. MaxRejoinAttempts - 1]]
        /\ rejoin'[r] = v
        /\ \A s \in Rooms : s # r => rejoin'[s] = rejoin[s]
    BY <1>1, <2>1, <2>2
  <2>4. RoomTypes'
    BY <1>2, <2>1, <2>3 DEF RoomTypes, RM!TypeOK
  <2>5. RejoinsMatch'
    <3>1. \A i \in Positions : inFlight[i].who = "rejoin" => rejoin'[inFlight[i].room].phase = "joining"
      BY <1>5, <2>3 DEF RejoinsMatch
    <3>2. \A s \in Rooms : rejoin'[s] # RM!Idle => s \in joinedRooms'
      BY <1>2, <1>3, <2>3 DEF RejoinsMatch
    <3>3. \A s \in Rooms : rejoin'[s].phase = "delay" => rejoin'[s].attempt < MaxRejoinAttempts - 1
      BY <2>2, <2>3 DEF RejoinsMatch
    <3> QED
      BY <2>1, <3>1, <3>2, <3>3 DEF RejoinsMatch, RM!Idle, Positions
  <2>6. RequestsInOrder' /\ GrantedJoins' /\ ForgottenJoins' /\ MembersSettle'
    BY <1>2, <2>1
       DEF RequestsInOrder, GrantedJoins, ForgottenJoins, MembersSettle, Settles, Overtaken, Positions
  <2> QED
    BY <1>7, <2>4, <2>5, <2>6 DEF SessionIsUp, RejoinsAccounted, TrackedIsMember
<1> QED
  BY <1>6, <1>7

\* After rejoinRooms() every tracked room has a rejoin operation.
LEMMA RejoinRoomsInv ==
    ASSUME RoomsInv, RM!RejoinRooms, link' = "up", renewed' = TRUE
    PROVE  RoomsInv'
<1> USE DEF RoomsInv
<1> DEFINE rejoined == {r \in joinedRooms : rejoin[r] = RM!Idle}
           order == RM!SetToSeq(rejoined)
           added == [i \in DOMAIN order |-> RM!Request("join", order[i], "rejoin")]
           first == [phase |-> "joining", attempt |-> 0]
           n == Len(inFlight)
<1>1. /\ inFlight \in Seq(RM!Requests) /\ joinedRooms \subseteq Rooms /\ IsFiniteSet(joinedRooms)
      /\ rejoin \in [Rooms -> [phase : {"idle", "joining", "delay"}, attempt : 0 .. MaxRejoinAttempts - 1]]
  BY DEF RoomTypes, RM!TypeOK
<1>2. /\ rejoin' = [r \in Rooms |-> IF r \in rejoined THEN first ELSE rejoin[r]]
      /\ inFlight' = inFlight \o added
      /\ skipped' = skipped \cup (joinedRooms \ rejoined)
      /\ UNCHANGED <<joinedRooms, members, left, strays, failed>>
  BY DEF RM!RejoinRooms
<1>3. rejoined \subseteq Rooms /\ rejoined \subseteq joinedRooms /\ IsFiniteSet(rejoined)
      /\ \A r \in joinedRooms : r \in rejoined <=> rejoin[r] = RM!Idle
  BY <1>1, FS_Subset
<1> HIDE DEF rejoined
<1>4. /\ order \in Seq(rejoined)
      /\ \A i, j \in 1 .. Len(order) : order[i] = order[j] => i = j
      /\ \A r \in rejoined : \E i \in 1 .. Len(order) : order[i] = r
  BY <1>3, SetToSeqProperties
<1> HIDE DEF order
<1>5. Len(order) \in Nat /\ DOMAIN order = 1 .. Len(order)
      /\ \A i \in 1 .. Len(order) : order[i] \in rejoined
  BY <1>4, LenProperties, ElementOfSeq
<1>6. \A i \in 1 .. Len(order) :
         /\ added[i] \in RM!Requests
         /\ added[i].op = "join" /\ added[i].room = order[i] /\ added[i].who = "rejoin"
         /\ added[i].answer = "none"
  BY <1>3, <1>5 DEF RM!Request, RM!Requests
<1>7. added \in Seq(RM!Requests) /\ Len(added) = Len(order)
  BY <1>5, <1>6
<1> HIDE DEF added
<1>8. /\ inFlight' \in Seq(RM!Requests) /\ Len(inFlight') = n + Len(order) /\ n \in Nat
      /\ \A i \in 1 .. n + Len(order) : inFlight'[i] = IF i <= n THEN inFlight[i] ELSE added[i - n]
  BY <1>1, <1>2, <1>7, ConcatProperties, LenProperties
<1>9. /\ \A i \in Positions : i \in Positions' /\ inFlight'[i] = inFlight[i]
      /\ \A i \in Positions' \ Positions : i - n \in 1 .. Len(order) /\ inFlight'[i] = added[i - n]
      /\ \A k \in 1 .. Len(order) : n + k \in Positions' /\ inFlight'[n + k] = added[k]
      /\ DOMAIN inFlight' = Positions'
  BY <1>5, <1>8, LenProperties DEF Positions
<1>10. /\ DOMAIN inFlight = Positions
       /\ \A i \in Positions : inFlight[i].room \in Rooms
       /\ \A i \in Positions : inFlight[i].who = "rejoin" => inFlight[i].room \notin rejoined
  BY <1>1, <1>3, RequestTypes DEF RejoinsMatch, RM!Requests, RM!Idle
<1>11. /\ rejoin' \in [Rooms -> [phase : {"idle", "joining", "delay"}, attempt : 0 .. MaxRejoinAttempts - 1]]
       /\ \A r \in rejoined : rejoin'[r].phase = "joining"
       /\ \A r \in Rooms \ rejoined : rejoin'[r] = rejoin[r]
  <2>1. first \in [phase : {"idle", "joining", "delay"}, attempt : 0 .. MaxRejoinAttempts - 1]
        /\ first.phase = "joining"
    BY RoomsAssumption
  <2> HIDE DEF first
  <2> QED
    BY <1>1, <1>2, <1>3, <2>1
<1> HIDE DEF n, first
<1>12. RoomTypes'
  <2>1. skipped' \subseteq Rooms
    BY <1>1, <1>2 DEF RoomTypes, RM!TypeOK
  <2> QED
    BY <1>2, <1>8, <1>11, <2>1 DEF RoomTypes, RM!TypeOK
<1>13. RejoinsMatch'
  <2>1. \A i \in Positions' : inFlight'[i].who = "rejoin" => rejoin'[inFlight'[i].room].phase = "joining"
    <3> SUFFICES ASSUME NEW i \in Positions', inFlight'[i].who = "rejoin"
                 PROVE  rejoin'[inFlight'[i].room].phase = "joining"
      OBVIOUS
    <3>1. CASE i \in Positions
      BY <1>9, <1>10, <1>11, <3>1 DEF RejoinsMatch
    <3>2. CASE i \notin Positions
      BY <1>5, <1>6, <1>9, <1>11, <3>2
    <3> QED
      BY <3>1, <3>2
  <2>2. \A i, j \in Positions' :
           inFlight'[i].who = "rejoin" /\ inFlight'[j].who = "rejoin"
              /\ inFlight'[i].room = inFlight'[j].room => i = j
    <3> SUFFICES ASSUME NEW i \in Positions', NEW j \in Positions',
                        inFlight'[i].who = "rejoin", inFlight'[j].who = "rejoin",
                        inFlight'[i].room = inFlight'[j].room
                 PROVE  i = j
      OBVIOUS
    <3>1. CASE i \in Positions /\ j \in Positions
      BY <1>9, <3>1 DEF RejoinsMatch
    <3>2. CASE i \notin Positions /\ j \notin Positions
      <4>1. i - n = j - n
        BY <1>4, <1>6, <1>9, <3>2
      <4> QED
        BY <1>8, <4>1 DEF Positions
    <3>3. \A k \in Positions' : k \in Positions /\ inFlight'[k].who = "rejoin" =>
                                 inFlight'[k].room \notin rejoined
      BY <1>9, <1>10
    <3>4. \A k \in Positions' : k \notin Positions => inFlight'[k].room \in rejoined
      BY <1>5, <1>6, <1>9
    <3> QED
      BY <3>1, <3>2, <3>3, <3>4
  <2>3. \A s \in Rooms : rejoin'[s] # RM!Idle => s \in joinedRooms'
    BY <1>2, <1>3, <1>11 DEF RejoinsMatch
  <2>4. \A s \in Rooms : rejoin'[s].phase = "delay" => rejoin'[s].attempt < MaxRejoinAttempts - 1
    BY <1>11 DEF RejoinsMatch
  <2> QED
    BY <2>1, <2>2, <2>3, <2>4 DEF RejoinsMatch, RM!Idle
<1>14. RequestsInOrder' /\ GrantedJoins' /\ ForgottenJoins' /\ MembersSettle'
  <2>1. Len(inFlight) <= Len(inFlight')
    BY <1>5, <1>8 DEF n
  <2>2. \A i \in Positions' \ Positions :
           inFlight'[i].op = "join" /\ inFlight'[i].who = "rejoin" /\ inFlight'[i].answer = "none"
    BY <1>6, <1>9
  <2> QED
    BY <1>2, <1>8, <1>9, <2>1, <2>2, JoinsAdded
<1>15. RejoinsAccounted'
  <2> SUFFICES ASSUME NEW s \in Rooms, rejoin'[s] # RM!Idle, s \notin skipped'
               PROVE  rejoin'[s].phase = "joining" /\ RM!Awaited(s, {"rejoin"})'
    BY DEF RejoinsAccounted, RM!Idle
  <2>1. s \in rejoined
    BY <1>2, <1>11 DEF RejoinsMatch
  <2>2. PICK k \in 1 .. Len(order) : order[k] = s
    BY <1>4, <2>1
  <2>3. n + k \in Positions' /\ inFlight'[n + k].room = s /\ inFlight'[n + k].who = "rejoin"
    BY <1>6, <1>9, <2>2
  <2> QED
    BY <1>9, <1>11, <2>1, <2>3 DEF RM!Awaited, RM!Awaits
<1>16. TrackedIsMember'
  <2>1. \A s \in joinedRooms : rejoin'[s] # RM!Idle
    BY <1>1, <1>3, <1>11 DEF RM!Idle
  <2> QED
    BY <1>2, <2>1 DEF TrackedIsMember, RM!Idle
<1> QED
  BY <1>12, <1>13, <1>14, <1>15, <1>16 DEF SessionIsUp

-----------------------------------------------------------------------------
(* The server, and its acks *)

\* The server handles the oldest request it has not answered.
LEMMA ServerAnswersInv ==
    ASSUME RoomsInv, RM!ServerAnswers, UNCHANGED <<link, renewed>>
    PROVE  RoomsInv'
<1> USE DEF RoomsInv
<1>1. inFlight \in Seq(RM!Requests)
  BY DEF RoomTypes, RM!TypeOK
<1>2. PICK k \in 1 .. Len(inFlight) :
          /\ RM!SelectInSeq(inFlight, LAMBDA q : q.answer = "none") = k
          /\ inFlight[k].answer = "none"
          /\ \A j \in 1 .. Len(inFlight) : j < k => inFlight[j].answer # "none"
  <2>1. \E i \in DOMAIN inFlight : inFlight[i].answer = "none"
    BY Zenon DEF RM!ServerAnswers
  <2> QED
    BY <1>1, <2>1, FirstUnanswered, Zenon
<1>3. /\ \/ /\ inFlight' = [inFlight EXCEPT ![k].answer = "success"]
            /\ members' = IF inFlight[k].op = "join" THEN members \cup {inFlight[k].room}
                                                    ELSE members \ {inFlight[k].room}
            /\ UNCHANGED strays
         \/ /\ inFlight' = [inFlight EXCEPT ![k].answer = "failure"]
            /\ strays' = IF inFlight[k].op = "leave" THEN strays \cup {inFlight[k].room} ELSE strays
            /\ UNCHANGED members
      /\ UNCHANGED <<joinedRooms, rejoin, left, failed, skipped>>
  BY <1>2, Zenon DEF RM!ServerAnswers
<1>4. /\ Len(inFlight) \in Nat /\ DOMAIN inFlight = Positions /\ k \in Positions
      /\ \A i \in Positions : inFlight[i] \in RM!Requests
      /\ inFlight[k].room \in Rooms /\ inFlight[k].op \in {"join", "leave"}
  BY <1>1, RequestTypes DEF Positions, RM!Requests
<1>5. PICK answer \in {"success", "failure"} :
          /\ inFlight' = [inFlight EXCEPT ![k].answer = answer]
          /\ answer = "success" =>
                /\ members' = IF inFlight[k].op = "join" THEN members \cup {inFlight[k].room}
                                                        ELSE members \ {inFlight[k].room}
                /\ strays' = strays
          /\ answer = "failure" =>
                /\ members' = members
                /\ strays' = IF inFlight[k].op = "leave" THEN strays \cup {inFlight[k].room} ELSE strays
  BY <1>3
<1>6. \A i \in Positions : inFlight'[i] = IF i = k THEN [inFlight[i] EXCEPT !.answer = answer] ELSE inFlight[i]
  BY <1>4, <1>5
<1>7. PICK e \in RM!Requests : /\ inFlight' = [inFlight EXCEPT ![k] = e]
                              /\ e = [inFlight[k] EXCEPT !.answer = answer]
  <2>1. [inFlight[k] EXCEPT !.answer = answer] \in RM!Requests
    BY <1>4 DEF RM!Requests
  <2> QED
    BY <1>4, <1>5, <2>1
<1>8. inFlight' \in Seq(RM!Requests) /\ Len(inFlight') = Len(inFlight)
  BY <1>1, <1>4, <1>7, ExceptSeq DEF Positions
<1>9. \A i \in Positions : /\ inFlight'[i].op = inFlight[i].op
                           /\ inFlight'[i].room = inFlight[i].room
                           /\ inFlight'[i].who = inFlight[i].who
                           /\ inFlight'[i].answer = IF i = k THEN answer ELSE inFlight[i].answer
  BY <1>4, <1>6 DEF RM!Requests
<1>10. Positions' = Positions /\ DOMAIN inFlight' = Positions
  BY <1>8, LenProperties DEF Positions
<1>11. Overtaken' = Overtaken
  BY <1>9, <1>10 DEF Overtaken
<1>12. RoomTypes'
  BY <1>3, <1>4, <1>5, <1>8 DEF RoomTypes, RM!TypeOK
<1>13. RejoinsMatch'
  BY <1>3, <1>9, <1>10 DEF RejoinsMatch, RM!Idle
<1>14. RequestsInOrder'
  <2>1. \A i \in Positions :
           inFlight'[i].op = "leave" => inFlight'[i].who = "nobody" /\ inFlight'[i].room \in left'
    BY <1>3, <1>9 DEF RequestsInOrder
  <2>2. \A i \in Positions : inFlight'[i].who = "call" => i \notin Overtaken'
    BY <1>9, <1>11 DEF RequestsInOrder
  <2>3. \A i, j \in Positions :
           i < j /\ inFlight'[j].answer # "none" => inFlight'[i].answer # "none"
    BY <1>2, <1>5, <1>9 DEF RequestsInOrder, Positions
  <2> QED
    BY <1>10, <2>1, <2>2, <2>3 DEF RequestsInOrder
<1>15. GrantedJoins'
  <2> SUFFICES ASSUME NEW i \in Positions, inFlight[i].op = "join", inFlight'[i].answer = "success"
               PROVE  inFlight[i].room \in members' \/ i \in Overtaken
    BY <1>9, <1>10, <1>11 DEF GrantedJoins
  <2>1. CASE i = k
    BY <1>5, <1>9, <2>1
  <2>2. CASE i # k
    <3>1. inFlight[i].answer = "success" /\ (inFlight[i].room \in members \/ i \in Overtaken)
      BY <1>9, <2>2 DEF GrantedJoins
    <3>2. i < k
      BY <1>2, <1>4, <2>2, <3>1 DEF RequestsInOrder, Positions
    <3>3. inFlight[k].op = "leave" /\ inFlight[k].room = inFlight[i].room => i \in Overtaken
      BY <1>4, <3>2 DEF Overtaken
    <3> QED
      BY <1>4, <1>5, <3>1, <3>3
  <2> QED
    BY <2>1, <2>2
<1>16. ForgottenJoins'
  <2>1. strays \subseteq strays'
    BY <1>5
  <2> QED
    BY <1>3, <1>9, <1>10, <1>11, <2>1 DEF ForgottenJoins
<1>17. RejoinsAccounted'
  BY <1>3, <1>4, <1>9, <1>10 DEF RejoinsAccounted, RM!Awaited, RM!Awaits, RM!Idle
<1>18. MembersSettle'
  <2> SUFFICES ASSUME NEW s \in members', s \notin joinedRooms \cup strays'
               PROVE  \E i \in Positions : inFlight'[i].room = s /\ Settles(i)'
    BY <1>3, <1>10 DEF MembersSettle
  <2>1. CASE s \in members /\ s # inFlight[k].room
    <3>1. s \notin strays
      BY <1>5, <2>1
    <3>2. PICK i \in Positions : inFlight[i].room = s /\ Settles(i)
      BY <2>1, <3>1 DEF MembersSettle
    <3> QED
      BY <1>9, <2>1, <3>2 DEF Settles
  <2>2. CASE s = inFlight[k].room /\ inFlight[k].op = "leave"
    BY <1>5, <2>2
  <2>3. CASE s = inFlight[k].room /\ inFlight[k].op = "join" /\ answer = "success"
    <3>1. strays' = strays /\ inFlight'[k].answer = "success" /\ inFlight'[k].op = "join"
      BY <1>4, <1>5, <1>9, <2>3
    <3>2. CASE inFlight[k].who \in {"call", "overtaken"}
      BY <1>4, <1>9, <2>3, <3>1, <3>2 DEF Settles
    <3>3. CASE inFlight[k].who = "rejoin"
      BY <1>4, <2>3, <3>3 DEF RejoinsMatch, RM!Idle
    <3>4. CASE inFlight[k].who = "nobody"
      <4>1. k \in Overtaken
        BY <1>4, <2>3, <3>1, <3>4 DEF ForgottenJoins
      <4>2. PICK j \in Positions : k < j /\ inFlight[j].op = "leave" /\ inFlight[j].room = s
        BY <2>3, <4>1 DEF Overtaken
      <4>3. inFlight[j].answer = "none" /\ j # k
        BY <1>2, <1>4, <4>2 DEF RequestsInOrder, Positions
      <4> QED
        BY <1>9, <4>2, <4>3 DEF Settles
    <3> QED
      BY <1>4, <3>2, <3>3, <3>4 DEF RM!Requests
  <2>4. CASE s = inFlight[k].room /\ inFlight[k].op = "join" /\ answer = "failure"
    <3>1. strays' = strays /\ s \in members
      BY <1>5, <2>4
    <3>2. PICK i \in Positions : inFlight[i].room = s /\ Settles(i)
      BY <3>1 DEF MembersSettle
    <3>3. i # k
      BY <1>2, <2>4, <3>2 DEF Settles
    <3> QED
      BY <1>9, <3>2, <3>3 DEF Settles
  <2> QED
    BY <1>4, <1>5, <2>1, <2>2, <2>3, <2>4
<1>19. TrackedIsMember'
  <2> SUFFICES ASSUME link = "up", renewed, NEW s \in joinedRooms, s \notin members',
                      rejoin[s] = RM!Idle, s \notin failed \cup skipped
               PROVE  s \in left
    BY <1>3 DEF TrackedIsMember, RM!Idle
  <2>1. CASE s \in members
    <3>1. inFlight[k].op = "leave" /\ inFlight[k].room = s
      BY <1>4, <1>5, <2>1
    <3> QED
      BY <1>4, <3>1 DEF RequestsInOrder
  <2>2. CASE s \notin members
    BY <2>2 DEF TrackedIsMember
  <2> QED
    BY <2>1, <2>2
<1> QED
  BY <1>12, <1>13, <1>14, <1>15, <1>16, <1>17, <1>18, <1>19 DEF SessionIsUp

\* The oldest request is answered and its ack arrives: what the request was
\* there to explain is now in the client's own state.
LEMMA AckArrivesInv ==
    ASSUME RoomsInv, RM!AckArrives, UNCHANGED <<link, renewed>>
    PROVE  RoomsInv'
<1> USE DEF RoomsInv
<1>1. /\ inFlight \in Seq(RM!Requests)
      /\ rejoin \in [Rooms -> [phase : {"idle", "joining", "delay"}, attempt : 0 .. MaxRejoinAttempts - 1]]
  BY DEF RoomTypes, RM!TypeOK
<1>2. PICK q \in RM!Requests : q = inFlight[1] /\ q = Head(inFlight) /\ inFlight # <<>>
  BY <1>1, Removed, HeadTailProperties, EmptySeq DEF RM!AckArrives
<1>3. /\ q.answer # "none"
      /\ inFlight' = Tail(inFlight)
      /\ joinedRooms' = IF q.who \in {"call", "overtaken"} /\ q.answer = "success"
                        THEN joinedRooms \cup {q.room} ELSE joinedRooms
      /\ left' = IF q.who = "call" /\ q.answer = "success" THEN left \ {q.room} ELSE left
      /\ q.who # "rejoin" => rejoin' = rejoin
      /\ q.who = "rejoin" /\ q.answer = "success" => rejoin' = [rejoin EXCEPT ![q.room] = RM!Idle]
      /\ q.who = "rejoin" /\ q.answer # "success" => rejoin' = RM!AttemptFailed(q.room)
      /\ failed' = IF q.who = "rejoin" /\ q.answer # "success" THEN failed \cup {q.room} ELSE failed
      /\ UNCHANGED <<members, strays, skipped>>
  BY <1>2 DEF RM!AckArrives
<1>4. /\ q.room \in Rooms /\ q.op \in {"join", "leave"} /\ q.answer \in {"success", "failure"}
      /\ q.who \in {"call", "overtaken", "rejoin", "nobody"}
  BY <1>3 DEF RM!Requests
<1>5. /\ inFlight' \in Seq(RM!Requests) /\ Len(inFlight') = Len(inFlight) - 1
      /\ Len(inFlight) \in Nat \ {0}
      /\ \A i \in 1 .. Len(inFlight') : inFlight'[i] = inFlight[i + 1]
  BY <1>1, <1>2, <1>3, Removed
<1>6. /\ 1 \in Positions /\ Positions' \subseteq Nat
      /\ \A i \in Positions' : i + 1 \in Positions /\ i + 1 # 1 /\ inFlight'[i] = inFlight[i + 1]
      /\ \A i \in Positions : i # 1 => i - 1 \in Positions' /\ inFlight'[i - 1] = inFlight[i]
      /\ \A i \in Positions : i # 1 => 1 < i
      /\ DOMAIN inFlight' = Positions' /\ DOMAIN inFlight = Positions
      /\ \A i \in Positions : inFlight[i].room \in Rooms
  <2>1. \A i \in Positions : i # 1 => i - 1 \in Positions' /\ (i - 1) + 1 = i
    BY <1>5 DEF Positions
  <2>2. \A i \in Positions : i # 1 => i - 1 \in Positions' /\ inFlight'[i - 1] = inFlight[i]
    BY <1>5, <2>1 DEF Positions
  <2> QED
    BY <1>1, <1>5, <2>2, LenProperties, RequestTypes DEF Positions, RM!Requests
<1>7. \A i \in Positions' : i \in Overtaken' <=> i + 1 \in Overtaken
  <2> SUFFICES ASSUME NEW i \in Positions' PROVE i \in Overtaken' <=> i + 1 \in Overtaken
    OBVIOUS
  <2>1. ASSUME i \in Overtaken' PROVE i + 1 \in Overtaken
    <3>1. PICK j \in Positions' : i < j /\ inFlight'[j].op = "leave" /\ inFlight'[j].room = inFlight'[i].room
      BY <2>1 DEF Overtaken
    <3>2. i + 1 < j + 1
      BY <1>6, <3>1
    <3> QED
      BY <1>6, <3>1, <3>2 DEF Overtaken
  <2>2. ASSUME i + 1 \in Overtaken PROVE i \in Overtaken'
    <3>1. PICK j \in Positions :
              i + 1 < j /\ inFlight[j].op = "leave" /\ inFlight[j].room = inFlight[i + 1].room
      BY <2>2 DEF Overtaken
    <3>2. j # 1 /\ i < j - 1
      BY <1>6, <3>1 DEF Positions
    <3> QED
      BY <1>6, <3>1, <3>2 DEF Overtaken
  <2> QED
    BY <2>1, <2>2
<1>8. \A r \in Rooms : (1 \in Overtaken /\ r = q.room) <=>
         (r = q.room /\ \E j \in Positions : j # 1 /\ inFlight[j].op = "leave" /\ inFlight[j].room = q.room)
  BY <1>2, <1>6 DEF Overtaken
<1>9. /\ rejoin' \in [Rooms -> [phase : {"idle", "joining", "delay"}, attempt : 0 .. MaxRejoinAttempts - 1]]
      /\ \A s \in Rooms : s # q.room \/ q.who # "rejoin" => rejoin'[s] = rejoin[s]
      /\ q.who = "rejoin" =>
            \/ rejoin'[q.room] = RM!Idle
            \/ /\ q.answer # "success"
               /\ rejoin'[q.room].phase = "delay" /\ rejoin'[q.room].attempt < MaxRejoinAttempts - 1
  <2>1. CASE q.who # "rejoin"
    BY <1>1, <1>3, <2>1
  <2>2. CASE q.who = "rejoin" /\ q.answer = "success"
    <3>1. RM!Idle \in [phase : {"idle", "joining", "delay"}, attempt : 0 .. MaxRejoinAttempts - 1]
      BY RoomsAssumption DEF RM!Idle
    <3> QED
      BY <1>1, <1>3, <1>4, <2>2, <3>1
  <2>3. CASE q.who = "rejoin" /\ q.answer # "success"
    <3> DEFINE f == RM!AttemptFailed(q.room)
    <3>1. /\ f \in [Rooms -> [phase : {"idle", "joining", "delay"}, attempt : 0 .. MaxRejoinAttempts - 1]]
          /\ \A s \in Rooms : s # q.room => f[s] = rejoin[s]
          /\ \/ f[q.room] = RM!Idle
             \/ f[q.room].phase = "delay" /\ f[q.room].attempt < MaxRejoinAttempts - 1
      BY <1>4, AttemptFailedProperties
    <3>2. rejoin' = f
      BY <1>3, <2>3
    <3> HIDE DEF f
    <3> QED
      BY <2>3, <3>1, <3>2
  <2> QED
    BY <2>1, <2>2, <2>3
<1>10. /\ joinedRooms \subseteq joinedRooms' /\ failed \subseteq failed'
       /\ q.who = "rejoin" => q.room \in joinedRooms /\ rejoin[q.room].phase = "joining" /\ q.op = "join"
  <2>1. q.who = "rejoin" => rejoin[q.room].phase = "joining" /\ q.op = "join"
    BY <1>2, <1>4, <1>6 DEF RejoinsMatch, RequestsInOrder
  <2> QED
    BY <1>3, <1>4, <2>1 DEF RejoinsMatch, RM!Idle
<1>11. RoomTypes'
  <2>1. joinedRooms' \subseteq Rooms /\ left' \subseteq Rooms /\ failed' \subseteq Rooms
    BY <1>3, <1>4 DEF RoomTypes, RM!TypeOK
  <2>2. IsFiniteSet(joinedRooms')
    BY <1>3, FS_AddElement DEF RoomTypes
  <2> QED
    BY <1>3, <1>5, <1>9, <2>1, <2>2 DEF RoomTypes, RM!TypeOK
<1>12. RejoinsMatch'
  <2>1. \A i \in Positions' : inFlight'[i].who = "rejoin" =>
           inFlight'[i].room \in Rooms /\ (inFlight'[i].room # q.room \/ q.who # "rejoin")
    BY <1>2, <1>6 DEF RejoinsMatch
  <2>2. \A i \in Positions' : inFlight'[i].who = "rejoin" => rejoin'[inFlight'[i].room].phase = "joining"
    BY <1>6, <1>9, <2>1 DEF RejoinsMatch
  <2>3. \A i, j \in Positions' :
           inFlight'[i].who = "rejoin" /\ inFlight'[j].who = "rejoin"
              /\ inFlight'[i].room = inFlight'[j].room => i = j
    <3> SUFFICES ASSUME NEW i \in Positions', NEW j \in Positions',
                        inFlight'[i].who = "rejoin", inFlight'[j].who = "rejoin",
                        inFlight'[i].room = inFlight'[j].room
                 PROVE  i = j
      OBVIOUS
    <3>1. i + 1 = j + 1
      BY <1>6 DEF RejoinsMatch
    <3> QED
      BY <1>6, <3>1
  <2>4. \A s \in Rooms : rejoin'[s] # RM!Idle => s \in joinedRooms'
    BY <1>9, <1>10 DEF RejoinsMatch
  <2>5. \A s \in Rooms : rejoin'[s].phase = "delay" => rejoin'[s].attempt < MaxRejoinAttempts - 1
    BY <1>9 DEF RejoinsMatch, RM!Idle
  <2> QED
    BY <2>2, <2>3, <2>4, <2>5 DEF RejoinsMatch, RM!Idle
<1>13. RequestsInOrder'
  <2>1. \A i \in Positions' :
           inFlight'[i].op = "leave" => inFlight'[i].who = "nobody" /\ inFlight'[i].room \in left'
    <3> SUFFICES ASSUME NEW i \in Positions', inFlight'[i].op = "leave"
                 PROVE  inFlight'[i].who = "nobody" /\ inFlight'[i].room \in left'
      OBVIOUS
    <3>1. inFlight'[i].who = "nobody" /\ inFlight'[i].room \in left
      BY <1>6 DEF RequestsInOrder
    <3>2. q.who = "call" => inFlight'[i].room # q.room
      BY <1>2, <1>6, <1>8 DEF RequestsInOrder
    <3> QED
      BY <1>3, <3>1, <3>2
  <2>2. \A i \in Positions' : inFlight'[i].who = "call" => i \notin Overtaken'
    BY <1>6, <1>7 DEF RequestsInOrder
  <2>3. \A i, j \in Positions' :
           i < j /\ inFlight'[j].answer # "none" => inFlight'[i].answer # "none"
    <3> SUFFICES ASSUME NEW i \in Positions', NEW j \in Positions', i < j, inFlight'[j].answer # "none"
                 PROVE  inFlight'[i].answer # "none"
      OBVIOUS
    <3>1. i + 1 < j + 1
      BY <1>6
    <3> QED
      BY <1>6, <3>1 DEF RequestsInOrder
  <2> QED
    BY <2>1, <2>2, <2>3 DEF RequestsInOrder
<1>14. GrantedJoins'
  BY <1>3, <1>6, <1>7 DEF GrantedJoins
<1>15. ForgottenJoins'
  BY <1>3, <1>6, <1>7, <1>10 DEF ForgottenJoins
<1>16. RejoinsAccounted'
  <2> SUFFICES ASSUME link = "up", renewed, NEW s \in Rooms, rejoin'[s] # RM!Idle,
                      s \notin failed' \cup skipped
               PROVE  rejoin'[s].phase = "joining" /\ RM!Awaited(s, {"rejoin"})'
    BY <1>3 DEF RejoinsAccounted, RM!Idle
  <2>1. s # q.room \/ q.who # "rejoin"
    BY <1>3, <1>9
  <2>2. rejoin'[s] = rejoin[s] /\ rejoin[s].phase = "joining" /\ RM!Awaited(s, {"rejoin"})
    BY <1>9, <1>10, <2>1 DEF RejoinsAccounted
  <2>3. PICK i \in Positions : inFlight[i].room = s /\ inFlight[i].who = "rejoin"
    BY <1>6, <2>2 DEF RM!Awaited, RM!Awaits
  <2>4. i # 1
    BY <1>2, <2>1, <2>3
  <2> QED
    BY <1>6, <2>2, <2>3, <2>4 DEF RM!Awaited, RM!Awaits
<1>17. MembersSettle'
  <2> SUFFICES ASSUME NEW s \in members, s \notin joinedRooms' \cup strays
               PROVE  \E i \in Positions' : inFlight'[i].room = s /\ Settles(i)'
    BY <1>3 DEF MembersSettle
  <2>1. PICK i \in Positions : inFlight[i].room = s /\ Settles(i)
    BY <1>10 DEF MembersSettle
  <2>2. i # 1
    BY <1>2, <1>3, <2>1 DEF Settles
  <2> QED
    BY <1>6, <2>1, <2>2 DEF Settles
<1>18. TrackedIsMember'
  <2> SUFFICES ASSUME link = "up", renewed, NEW s \in joinedRooms', s \notin members,
                      rejoin'[s] = RM!Idle, s \notin failed' \cup skipped
               PROVE  s \in left'
    BY <1>3 DEF TrackedIsMember, RM!Idle
  <2>1. s \in Rooms
    BY <1>3, <1>4 DEF RoomTypes, RM!TypeOK
  <2>2. s \in left => s \in left' \/ (s = q.room /\ q.who = "call" /\ q.answer = "success")
    BY <1>3
  \* A granted join undone by a leave is of a room that is remembered as left.
  <2>3. q.op = "join" /\ q.answer = "success" /\ s = q.room => q.who # "call" /\ s \in left
    <3> SUFFICES ASSUME q.op = "join", q.answer = "success", s = q.room
                 PROVE  q.who # "call" /\ s \in left
      OBVIOUS
    <3>1. 1 \in Overtaken
      BY <1>2, <1>6 DEF GrantedJoins
    <3> QED
      BY <1>2, <1>6, <3>1 DEF Overtaken, RequestsInOrder
  <2>4. q.who # "nobody" => q.op = "join"
    BY <1>2, <1>4, <1>6 DEF RequestsInOrder
  <2>5. CASE s = q.room /\ q.who # "nobody" /\ q.answer = "success"
    BY <2>2, <2>3, <2>4, <2>5
  <2>6. CASE s # q.room \/ q.who = "nobody" \/ q.answer # "success"
    <3>1. s \in joinedRooms
      BY <1>3, <2>6
    <3>2. rejoin[s] = RM!Idle
      BY <1>3, <1>9, <2>1, <2>6
    <3> QED
      BY <1>10, <2>2, <2>6, <3>1, <3>2 DEF TrackedIsMember
  <2> QED
    BY <2>5, <2>6
<1> QED
  BY <1>11, <1>12, <1>13, <1>14, <1>15, <1>16, <1>17, <1>18 DEF SessionIsUp

-----------------------------------------------------------------------------
(* The ends of a session, and the whole *)

LEMMA SessionEndsInv ==
    ASSUME RoomsInv, RM!EndSession, renewed' = FALSE,
           \/ UNCHANGED <<joinedRooms, rejoin, left>>
           \/ joinedRooms' = {} /\ rejoin' = [r \in Rooms |-> RM!Idle] /\ left' = {}
    PROVE  RoomsInv'
<1> USE DEF RoomsInv
<1>1. inFlight' = <<>> /\ members' = {} /\ strays' = {} /\ failed' = {} /\ skipped' = {}
  BY DEF RM!EndSession
<1>2. inFlight' \in Seq(RM!Requests) /\ Positions' = {}
  BY <1>1, EmptySeq DEF Positions
<1>3. RoomTypes' /\ RejoinsMatch'
  <2>1. CASE UNCHANGED <<joinedRooms, rejoin, left>>
    BY <1>1, <1>2, <2>1 DEF RoomTypes, RM!TypeOK, RejoinsMatch, RM!Idle
  <2>2. CASE joinedRooms' = {} /\ rejoin' = [r \in Rooms |-> RM!Idle] /\ left' = {}
    <3>1. RM!Idle \in [phase : {"idle", "joining", "delay"}, attempt : 0 .. MaxRejoinAttempts - 1]
          /\ RM!Idle.phase = "idle"
      BY RoomsAssumption DEF RM!Idle
    <3>2. \A r \in Rooms : rejoin'[r] = RM!Idle
      BY <2>2
    <3>3. RoomTypes'
      BY <1>1, <1>2, <2>2, <3>1, FS_EmptySet DEF RoomTypes, RM!TypeOK
    <3>4. RejoinsMatch'
      BY <1>2, <3>1, <3>2 DEF RejoinsMatch, RM!Idle
    <3> QED
      BY <3>3, <3>4
  <2> QED
    BY <2>1, <2>2
<1>4. RequestsInOrder' /\ GrantedJoins' /\ ForgottenJoins' /\ MembersSettle'
  BY <1>1, <1>2 DEF RequestsInOrder, GrantedJoins, ForgottenJoins, MembersSettle
<1> QED
  BY <1>3, <1>4 DEF RejoinsAccounted, TrackedIsMember, SessionIsUp

LEMMA RoomsInit_Inv == RoomsInit => RoomsInv
<1> SUFFICES ASSUME RoomsInit PROVE RoomsInv
  OBVIOUS
<1>1. /\ joinedRooms = {} /\ rejoin = [r \in Rooms |-> RM!Idle] /\ inFlight = <<>>
      /\ members = {} /\ left = {} /\ strays = {} /\ failed = {} /\ skipped = {}
      /\ renewed = FALSE
  BY DEF RoomsInit, RM!Init
<1>2. inFlight \in Seq(RM!Requests) /\ Positions = {}
  BY <1>1, EmptySeq DEF Positions
<1>3. RM!Idle \in [phase : {"idle", "joining", "delay"}, attempt : 0 .. MaxRejoinAttempts - 1]
      /\ RM!Idle.phase = "idle"
  BY RoomsAssumption DEF RM!Idle
<1>4. RoomTypes
  BY <1>1, <1>2, <1>3, FS_EmptySet DEF RoomTypes, RM!TypeOK
<1>5. RejoinsMatch
  BY <1>1, <1>2, <1>3 DEF RejoinsMatch
<1> QED
  BY <1>1, <1>2, <1>4, <1>5
     DEF RoomsInv, RequestsInOrder, GrantedJoins, ForgottenJoins, MembersSettle, RejoinsAccounted,
         TrackedIsMember, SessionIsUp

\* The rooms, the requests and the memberships are as they were.
LEMMA ManagerStutters ==
    ASSUME RoomsInv, UNCHANGED managerVars
    PROVE  /\ RoomTypes' /\ RejoinsMatch' /\ RequestsInOrder' /\ GrantedJoins'
           /\ ForgottenJoins' /\ MembersSettle'
<1>1. UNCHANGED <<joinedRooms, rejoin, inFlight, members, left, strays, failed, skipped>>
  BY DEF managerVars
<1>2. Positions' = Positions /\ Overtaken' = Overtaken
  BY <1>1 DEF Positions, Overtaken
<1> QED
  BY <1>1, <1>2 DEF RoomsInv, RoomTypes, RM!TypeOK, RejoinsMatch, RM!Idle, RequestsInOrder,
                    GrantedJoins, ForgottenJoins, MembersSettle, Settles

\* Nothing changes in a session, or no rooms are rejoined in the one that begins.
LEMMA SessionStutters ==
    ASSUME RoomsInv, UNCHANGED managerVars,
           ~renewed' \/ (link' = link /\ renewed' = renewed)
    PROVE  RoomsInv'
<1>1. UNCHANGED <<joinedRooms, rejoin, inFlight, members, left, strays, failed, skipped>>
  BY DEF managerVars
<1>2. RejoinsAccounted' /\ TrackedIsMember' /\ SessionIsUp'
  BY <1>1 DEF RoomsInv, RejoinsAccounted, TrackedIsMember, SessionIsUp, RM!Idle, RM!Awaited, RM!Awaits
<1> QED
  BY <1>2, ManagerStutters DEF RoomsInv

LEMMA RoomsNext_Inv == RoomsInv /\ [RoomsNext]_allVars => RoomsInv'
<1> SUFFICES ASSUME RoomsInv, [RoomsNext]_allVars PROVE RoomsInv'
  OBVIOUS
<1>1. CASE RoomStep
  <2> UNCHANGED <<link, renewed>>
    BY <1>1 DEF RoomStep, vars, socketVars
  <2>1. RM!RoomStep
    BY <1>1 DEF RoomStep
  <2>2. CASE \E r \in Rooms : RM!JoinRoom(r) \/ RM!LeaveRoom(r) \/ RM!JoinTimesOut(r)
    BY <2>2, JoinRoomInv, LeaveRoomInv, JoinTimesOutInv
  <2>3. CASE \E r \in Rooms : RM!RejoinAgain(r) \/ RM!RejoinTimesOut(r)
    BY <2>3, RejoinAgainInv, RejoinTimesOutInv
  <2>4. CASE RM!ServerAnswers
    BY <2>4, ServerAnswersInv
  <2>5. CASE RM!AckArrives
    BY <2>5, AckArrivesInv
  <2> QED
    BY <2>1, <2>2, <2>3, <2>4, <2>5, Zenon DEF RM!RoomStep
<1>2. CASE ConnectStep
  <2>1. link = "opening" /\ link' = "up"
    BY <1>2 DEF ConnectStep, ConnectSucceeds
  <2>2. CASE connectPromise = "force"
    BY <1>2, <2>1, <2>2, RejoinRoomsInv DEF ConnectStep
  <2>3. CASE connectPromise # "force" /\ joinedRooms # {}
    <3>1. UNCHANGED managerVars /\ ~renewed'
      BY <1>2, <2>3 DEF ConnectStep
    <3> QED
      BY <3>1, SessionStutters
  <2>4. CASE connectPromise # "force" /\ joinedRooms = {}
    <3>1. UNCHANGED managerVars
      BY <1>2, <2>4 DEF ConnectStep
    <3>2. joinedRooms' = {} /\ \A r \in Rooms : rejoin'[r] = RM!Idle
      BY <2>4, <3>1 DEF managerVars, RoomsInv, RejoinsMatch
    <3>3. RejoinsAccounted' /\ TrackedIsMember' /\ SessionIsUp'
      BY <2>1, <3>2 DEF RejoinsAccounted, TrackedIsMember, SessionIsUp, RM!Idle
    <3> QED
      BY <3>1, <3>3, ManagerStutters DEF RoomsInv
  <2> QED
    BY <2>2, <2>3, <2>4
<1>3. CASE ReconnectStep
  <2>1. link' = link
    BY <1>3 DEF ReconnectStep, ReconnectWaitEnds
  <2>2. CASE RM!RejoinRooms /\ renewed' = TRUE /\ link = "up"
    BY <2>1, <2>2, RejoinRoomsInv
  <2>3. CASE UNCHANGED roomVars
    BY <2>1, <2>3, SessionStutters DEF roomVars
  <2> QED
    BY <1>3, <2>2, <2>3, Zenon DEF ReconnectStep
<1>4. CASE DisconnectStep
  <2>1. RM!ClearRooms /\ renewed' = FALSE
    BY <1>4, Zenon DEF DisconnectStep
  <2>2. /\ joinedRooms' = {} /\ rejoin' = [r \in Rooms |-> RM!Idle] /\ left' = {}
        /\ RM!EndSession
    BY <2>1, Zenon DEF RM!ClearRooms
  <2> QED
    BY <2>1, <2>2, SessionEndsInv
<1>5. CASE OtherStep
  <2>1. CASE link = "up" /\ link' # "up"
    <3>1. RM!SessionLost /\ renewed' = FALSE
      BY <1>5, <2>1 DEF OtherStep
    <3>2. RM!EndSession /\ UNCHANGED <<joinedRooms, rejoin, left>>
      BY <3>1 DEF RM!SessionLost
    <3> QED
      BY <3>1, <3>2, SessionEndsInv
  <2>2. CASE ~(link = "up" /\ link' # "up")
    <3>1. UNCHANGED managerVars /\ renewed' = renewed
      BY <1>5, <2>2 DEF OtherStep, roomVars
    <3>2. CASE link = "up"
      BY <2>2, <3>1, <3>2, SessionStutters
    <3>3. CASE link # "up"
      BY <3>1, <3>3, SessionStutters DEF RoomsInv, SessionIsUp
    <3> QED
      BY <3>2, <3>3
  <2> QED
    BY <2>1, <2>2
<1>6. CASE UNCHANGED allVars
  <2>1. link' = link /\ renewed' = renewed /\ UNCHANGED managerVars
    BY <1>6 DEF allVars, vars, socketVars, roomVars
  <2> QED
    BY <2>1, SessionStutters
<1> QED
  BY <1>1, <1>2, <1>3, <1>4, <1>5, <1>6 DEF RoomsNext

THEOREM RoomsInvariant == RoomsSpec => []RoomsInv
<1> QED
  BY RoomsInit_Inv, RoomsNext_Inv, PTL DEF RoomsSpec

-----------------------------------------------------------------------------
(* The theorems *)

\* A client with rooms is a client: a step of the rooms leaves it as it was, and
\* every property of TransportClient holds of it.
THEOREM RoomsImplementClient == RoomsSpec => Spec
<1>1. RoomsInit => Init
  BY DEF RoomsInit
<1>2. [RoomsNext]_allVars => [Next]_vars
  BY DEF RoomsNext, RoomStep, ConnectStep, ReconnectStep, DisconnectStep, OtherStep,
         Next, User, Socket, Timers, allVars
<1> QED
  BY <1>1, <1>2, PTL DEF RoomsSpec, Spec

\* The room manager's state and the requests in flight have their types, a
\* rejoin operation never counts past its last attempt.
THEOREM RoomsTypeCorrect == RoomsSpec => []RoomsTypeOK
<1>1. RoomsInv => RoomsTypeOK
  BY DEF RoomsInv, RoomTypes, RoomsTypeOK
<1> QED
  BY <1>1, RoomsInvariant, PTL

\* Rooms are rejoined only while they are tracked: an ack, a timeout or a retry
\* that comes after leaveRoom() or disconnect() does not bring one back.
THEOREM RejoinsAreTracked == RoomsSpec => []RejoinOnlyTracked
<1>1. RoomsInv => RejoinOnlyTracked
  BY DEF RoomsInv, RejoinsMatch, RejoinOnlyTracked, RM!Idle
<1> QED
  BY <1>1, RoomsInvariant, PTL

\* In a session whose rooms were rejoined, the server has the client in every
\* tracked room, or the room has an excuse the code can be asked about.
THEOREM TrackedRoomsAreJoined == RoomsSpec => []TrackedIsMember
<1>1. RoomsInv => TrackedIsMember
  BY DEF RoomsInv
<1> QED
  BY <1>1, RoomsInvariant, PTL

\* The server has the client in no room that the client neither tracks nor
\* leaves, unless a call of it timed out or was refused.
THEOREM JoinedRoomsAreTracked == RoomsSpec => []MemberIsTracked
<1>1. RoomsInv => MemberIsTracked
  <2> SUFFICES ASSUME RoomsInv, NEW r \in members, r \notin joinedRooms \cup strays
               PROVE  \E i \in DOMAIN inFlight : inFlight[i].room = r
    BY DEF MemberIsTracked
  <2>1. PICK i \in Positions : inFlight[i].room = r
    BY DEF RoomsInv, MembersSettle
  <2>2. DOMAIN inFlight = Positions
    BY RequestTypes DEF RoomsInv, RoomTypes, RM!TypeOK
  <2> QED
    BY <2>1, <2>2
<1> QED
  BY <1>1, RoomsInvariant, PTL

-----------------------------------------------------------------------------
(* What RejoinEnds rests on.  That the timers fire is fairness and stays with   *)
(* TLC; that firing them often enough is enough is a property of the steps.     *)

\* The steps a rejoin operation can still take: every attempt is made and fails.
StepsLeft(r) ==
    IF rejoin[r] = RM!Idle THEN 0
    ELSE IF rejoin[r].phase = "delay" THEN 2 * (MaxRejoinAttempts - rejoin[r].attempt) - 1
    ELSE 2 * (MaxRejoinAttempts - rejoin[r].attempt)

\* An operation under way waits for an ack with a timeout, or for its delay.
RejoinsOnTimer == \A r \in Rooms : rejoin[r] # RM!Idle => rejoin[r].phase \in {"joining", "delay"}

\* What a step does to the operation of one room: nothing, its end, a first
\* attempt where there was none, or a step forward.
Moves(r) ==
    \/ rejoin'[r] = rejoin[r]
    \/ rejoin'[r] = RM!Idle
    \/ rejoin[r] = RM!Idle /\ rejoin'[r].phase = "joining"
    \/ /\ rejoin[r] # RM!Idle
       /\ rejoin'[r].phase \in {"joining", "delay"}
       /\ StepsLeft(r)' < StepsLeft(r)

\* A failed attempt moves its own operation and no other.
LEMMA FailedAttemptMoves ==
    ASSUME RoomTypes, NEW s \in Rooms, rejoin[s].phase = "joining",
           rejoin' = RM!AttemptFailed(s), NEW r \in Rooms
    PROVE  Moves(r)
<1>1. CASE r # s
  BY <1>1, AttemptFailedProperties DEF Moves
<1>2. CASE r = s /\ ~(rejoin[s].attempt < MaxRejoinAttempts - 1)
  BY <1>2 DEF Moves, RM!AttemptFailed, RoomTypes, RM!TypeOK
<1>3. CASE r = s /\ rejoin[s].attempt < MaxRejoinAttempts - 1
  <2>1. rejoin'[r] = [phase |-> "delay", attempt |-> rejoin[r].attempt]
    BY <1>3 DEF RM!AttemptFailed, RoomTypes, RM!TypeOK
  <2>2. rejoin'[r].phase = "delay" /\ rejoin'[r].attempt = rejoin[r].attempt
    BY <2>1
  <2>3. rejoin[r] # RM!Idle /\ rejoin'[r] # RM!Idle
    BY <1>3, <2>2 DEF RM!Idle
  <2>4. rejoin[r].attempt \in Nat
    BY RoomsAssumption DEF RoomTypes, RM!TypeOK
  <2>5. StepsLeft(r)' < StepsLeft(r)
    BY <1>3, <2>2, <2>3, <2>4, RoomsAssumption DEF StepsLeft
  <2> QED
    BY <2>2, <2>3, <2>5 DEF Moves
<1> QED
  BY <1>1, <1>2, <1>3

\* The end of a delay uses up an attempt, with a connection or without.
LEMMA NextAttemptMoves ==
    ASSUME RoomTypes, NEW s \in Rooms, RM!RejoinAgain(s), NEW r \in Rooms
    PROVE  Moves(r)
<1> DEFINE next == [phase |-> "joining", attempt |-> rejoin[s].attempt + 1]
           wait == [phase |-> "delay", attempt |-> rejoin[s].attempt + 1]
<1>1. rejoin[s].phase = "delay" /\ rejoin[s] # RM!Idle
  BY DEF RM!RejoinAgain, RM!Idle
<1>2. \/ rejoin' = [rejoin EXCEPT ![s] = next]
      \/ rejoin' = [rejoin EXCEPT ![s] = RM!Idle]
      \/ rejoin' = [rejoin EXCEPT ![s] = wait]
  <2>1. [next EXCEPT !.phase = "delay"] = wait
    OBVIOUS
  <2> QED
    BY <2>1 DEF RM!RejoinAgain
<1>3. rejoin \in [Rooms -> [phase : {"idle", "joining", "delay"},
                            attempt : 0 .. MaxRejoinAttempts - 1]]
  BY DEF RoomTypes, RM!TypeOK
<1>4. CASE r # s
  BY <1>2, <1>3, <1>4 DEF Moves
<1>5. CASE r = s
  <2>1. rejoin'[r] \in {next, RM!Idle, wait}
    BY <1>2, <1>3, <1>5
  <2>2. CASE rejoin'[r] = RM!Idle
    BY <2>2 DEF Moves
  <2>3. CASE rejoin'[r] # RM!Idle
    <3>1. rejoin'[r].phase \in {"joining", "delay"} /\ rejoin'[r].attempt = rejoin[r].attempt + 1
      BY <1>5, <2>1, <2>3
    <3>2. rejoin[r].attempt \in Nat
      BY <1>3, RoomsAssumption
    <3>3. StepsLeft(r)' < StepsLeft(r)
      BY <1>1, <1>5, <2>3, <3>1, <3>2, RoomsAssumption DEF StepsLeft
    <3> QED
      BY <1>1, <1>5, <3>1, <3>3 DEF Moves
  <2> QED
    BY <2>2, <2>3
<1> QED
  BY <1>4, <1>5

\* Every step of the client, its timers and the server moves every operation so.
LEMMA StepsMove ==
    ASSUME RoomsInv, [RoomsNext]_allVars, NEW r \in Rooms
    PROVE  Moves(r)
<1>1. RoomTypes /\ rejoin \in [Rooms -> [phase : {"idle", "joining", "delay"},
                                         attempt : 0 .. MaxRejoinAttempts - 1]]
  BY DEF RoomsInv, RoomTypes, RM!TypeOK
<1>2. CASE rejoin' = rejoin
  BY <1>2 DEF Moves
<1>3. ASSUME NEW s \in Rooms, RM!RejoinAgain(s) PROVE Moves(r)
  BY <1>1, <1>3, NextAttemptMoves
<1>4. ASSUME NEW s \in Rooms, RM!RejoinTimesOut(s) PROVE Moves(r)
  BY <1>1, <1>4, FailedAttemptMoves DEF RM!RejoinTimesOut
<1>5. ASSUME NEW s \in Rooms, RM!LeaveRoom(s) PROVE Moves(r)
  <2>1. rejoin' = [rejoin EXCEPT ![s] = RM!Idle]
    BY <1>5 DEF RM!LeaveRoom
  <2> QED
    BY <1>1, <2>1 DEF Moves
<1>6. CASE RM!AckArrives
  <2> DEFINE q == Head(inFlight)
  <2>1. inFlight \in Seq(RM!Requests) /\ inFlight # <<>>
    BY <1>1, <1>6 DEF RoomTypes, RM!TypeOK, RM!AckArrives
  <2>2. q = inFlight[1] /\ 1 \in Positions /\ q \in RM!Requests
    BY <2>1 DEF Positions
  <2>3. q.room \in Rooms
    BY <2>2 DEF RM!Requests
  <2>4. q.who = "rejoin" => rejoin[q.room].phase = "joining"
    BY <2>2 DEF RoomsInv, RejoinsMatch
  <2>5. \/ rejoin' = rejoin
        \/ q.who = "rejoin" /\ rejoin' = [rejoin EXCEPT ![q.room] = RM!Idle]
        \/ q.who = "rejoin" /\ rejoin' = RM!AttemptFailed(q.room)
    BY <1>6 DEF RM!AckArrives
  <2>6. CASE q.who = "rejoin" /\ rejoin' = [rejoin EXCEPT ![q.room] = RM!Idle]
    BY <1>1, <2>6 DEF Moves
  <2>7. CASE q.who = "rejoin" /\ rejoin' = RM!AttemptFailed(q.room)
    BY <1>1, <2>3, <2>4, <2>7, FailedAttemptMoves
  <2> QED
    BY <1>2, <2>5, <2>6, <2>7
<1>7. CASE RM!RejoinRooms
  <2> DEFINE first == [phase |-> "joining", attempt |-> 0]
  <2>1. rejoin' = [s \in Rooms |-> IF s \in {t \in joinedRooms : rejoin[t] = RM!Idle}
                                   THEN first ELSE rejoin[s]]
    BY <1>7, Zenon DEF RM!RejoinRooms
  <2>2. CASE r \in joinedRooms /\ rejoin[r] = RM!Idle
    <3>1. rejoin'[r] = first
      BY <2>1, <2>2
    <3> QED
      BY <2>2, <3>1 DEF Moves
  <2>3. CASE ~(r \in joinedRooms /\ rejoin[r] = RM!Idle)
    <3>1. rejoin'[r] = rejoin[r]
      BY <2>1, <2>3
    <3> QED
      BY <3>1 DEF Moves
  <2> QED
    BY <2>2, <2>3
<1>8. CASE rejoin' = [s \in Rooms |-> RM!Idle]
  BY <1>8 DEF Moves
<1>9. CASE RoomStep
  <2>1. RM!RoomStep
    BY <1>9 DEF RoomStep
  <2>2. CASE \E s \in Rooms : RM!JoinRoom(s) \/ RM!LeaveRoom(s) \/ RM!JoinTimesOut(s)
    BY <1>2, <1>5, <2>2 DEF RM!JoinRoom, RM!JoinTimesOut
  <2>3. CASE RM!ServerAnswers
    BY <1>2, <2>3 DEF RM!ServerAnswers
  <2> QED
    BY <1>3, <1>4, <1>6, <2>1, <2>2, <2>3, Zenon DEF RM!RoomStep
<1>10. CASE ConnectStep
  BY <1>2, <1>7, <1>10 DEF ConnectStep, managerVars
<1>11. CASE ReconnectStep
  BY <1>2, <1>7, <1>11 DEF ReconnectStep, roomVars, managerVars
<1>12. CASE DisconnectStep
  BY <1>8, <1>12, Zenon DEF DisconnectStep, RM!ClearRooms
<1>13. CASE OtherStep
  BY <1>2, <1>13 DEF OtherStep, RM!SessionLost, roomVars, managerVars
<1>14. CASE UNCHANGED allVars
  BY <1>2, <1>14 DEF allVars, roomVars, managerVars
<1> QED
  BY <1>9, <1>10, <1>11, <1>12, <1>13, <1>14 DEF RoomsNext

\* A rejoin operation under way always waits for something that times out: no
\* path (a lost session, a refused or late ack, a retry without a connection)
\* leaves one that nothing will continue.
THEOREM RejoinsAreOnTimer == RoomsSpec => []RejoinsOnTimer
<1>1. RoomsInit => RejoinsOnTimer
  BY DEF RoomsInit, RM!Init, RejoinsOnTimer
<1>2. RoomsInv /\ RejoinsOnTimer /\ [RoomsNext]_allVars => RejoinsOnTimer'
  <2> SUFFICES ASSUME RoomsInv, RejoinsOnTimer, [RoomsNext]_allVars,
                      NEW r \in Rooms, rejoin'[r] # RM!Idle
               PROVE  rejoin'[r].phase \in {"joining", "delay"}
    BY DEF RejoinsOnTimer, RM!Idle
  <2> QED
    BY StepsMove DEF Moves, RejoinsOnTimer
<1> QED
  BY <1>1, <1>2, RoomsInvariant, PTL DEF RoomsSpec

\* A rejoin operation under way only moves towards its end: whatever the server
\* answers and however often the connection comes and goes, no step restarts it
\* or gives it back an attempt, so 2 * maxRejoinAttempts steps of it are the most.
THEOREM RejoinsAdvance ==
    RoomsSpec => [][\A r \in Rooms : rejoin[r] # RM!Idle /\ rejoin'[r] # rejoin[r] =>
                        StepsLeft(r)' < StepsLeft(r)]_allVars
<1> DEFINE Advance == \A r \in Rooms : rejoin[r] # RM!Idle /\ rejoin'[r] # rejoin[r] =>
                                           StepsLeft(r)' < StepsLeft(r)
<1>1. RoomsInv /\ [RoomsNext]_allVars => [Advance]_allVars
  <2> SUFFICES ASSUME RoomsInv, [RoomsNext]_allVars, NEW r \in Rooms,
                      rejoin[r] # RM!Idle, rejoin'[r] # rejoin[r]
               PROVE  StepsLeft(r)' < StepsLeft(r)
    OBVIOUS
  <2>1. CASE rejoin'[r] = RM!Idle
    <3>1. rejoin[r].attempt \in 0 .. MaxRejoinAttempts - 1
      BY DEF RoomsInv, RoomTypes, RM!TypeOK
    <3>2. StepsLeft(r)' = 0
      BY <2>1 DEF StepsLeft, RM!Idle
    <3>3. StepsLeft(r) > 0
      BY <3>1, RoomsAssumption DEF StepsLeft
    <3> QED
      BY <3>2, <3>3
  <2>2. CASE rejoin'[r] # RM!Idle
    BY <2>2, StepsMove DEF Moves
  <2> QED
    BY <2>1, <2>2
<1> QED
  BY <1>1, RoomsInvariant, PTL DEF RoomsSpec

=============================================================================
