------------------------- MODULE StateHandlers_proofs -------------------------
(***************************************************************************)
(* Proofs about StateHandlers: for any number of handlers, sockets and     *)
(* calls, handlers know the state, the client attends to its one socket,   *)
(* and a closed client stays silent, however handlers call the client back *)
(* from the notifications.                                                 *)
(*                                                                         *)
(* The invariants are stated of the stack of unfinished notifications and  *)
(* functions.  A step takes the top frame off, or calls the client, and    *)
(* may push frames on what is left: GoesOn says so once for all actions.   *)
(***************************************************************************)
EXTENDS StateHandlers, SequenceTheorems, TLAPS

SocketStates == {"unused", "opening", "up", "retrying", "closed"}
Rests == {"close", "clear", "opened", "failed", "schedule"}

Frames ==
    [op : {"notify"}, state : ConnStates, visited : SUBSET Handlers, moved : BOOLEAN]
        \cup [op : {"handler"}]
        \cup [op : {"create"}, who : {"program", "force"}, id : Nat]
        \cup [op : Rests]

ClientTypes ==
    /\ connState \in ConnStates
    /\ stack \in Seq(Frames)
    /\ socket \in [Sockets -> SocketStates]
    /\ current \in Sockets \cup {None}
    /\ id \in [Sockets -> Nat]
    /\ connectionId \in Nat
    /\ persistentHandlersRegistered \in BOOLEAN
    /\ wired \in SUBSET Sockets
    /\ connectPromise \in {None, "program", "force"}
    /\ scheduled \in BOOLEAN /\ wakeSubscribed \in BOOLEAN
    /\ calls \in Nat
    /\ closed \in BOOLEAN /\ entangled \in BOOLEAN /\ interrupted \in BOOLEAN

HandlerTypes ==
    /\ handlers \in Seq(Handlers)
    /\ told \in [Handlers -> ConnStates \cup {None}]
    /\ outrun \in SUBSET Handlers

Types == ClientTypes /\ HandlerTypes

-----------------------------------------------------------------------------
(* Sequences of frames and of handlers *)

LEMMA Pushed ==
    ASSUME NEW S, NEW s \in Seq(S), NEW e \in S
    PROVE  /\ Append(s, e) \in Seq(S)
           /\ DOMAIN Append(s, e) = 1 .. Len(s) + 1
           /\ Len(Append(s, e)) = Len(s) + 1
           /\ Append(s, e)[Len(s) + 1] = e
           /\ \A i \in 1 .. Len(s) : Append(s, e)[i] = s[i]
BY AppendProperties, LenProperties

LEMMA Popped ==
    ASSUME NEW S, NEW s \in Seq(S), s # <<>>
    PROVE  /\ SubSeq(s, 1, Len(s) - 1) \in Seq(S)
           /\ Len(s) \in Nat \ {0}
           /\ DOMAIN s = 1 .. Len(s)
           /\ DOMAIN SubSeq(s, 1, Len(s) - 1) = 1 .. Len(s) - 1
           /\ Len(SubSeq(s, 1, Len(s) - 1)) = Len(s) - 1
           /\ \A i \in 1 .. Len(s) - 1 : SubSeq(s, 1, Len(s) - 1)[i] = s[i]
           /\ s[Len(s)] \in S
<1>1. Len(s) \in Nat \ {0} /\ DOMAIN s = 1 .. Len(s) /\ \A i \in 1 .. Len(s) : s[i] \in S
  BY EmptySeq, LenProperties, ElementOfSeq
<1>2. \A i \in 1 .. Len(s) - 1 : s[i] \in S
  BY <1>1
<1>3. /\ SubSeq(s, 1, Len(s) - 1) \in Seq(S)
      /\ Len(SubSeq(s, 1, Len(s) - 1)) = Len(s) - 1
      /\ \A i \in 1 .. Len(s) - 1 : SubSeq(s, 1, Len(s) - 1)[i] = s[1 + i - 1]
  BY <1>1, <1>2, SubSeqProperties
<1>4. DOMAIN SubSeq(s, 1, Len(s) - 1) = 1 .. Len(s) - 1
  BY <1>3, LenProperties
<1> QED
  BY <1>1, <1>3, <1>4

\* What is left when one element of a sequence is taken out.
LEMMA Removed ==
    ASSUME NEW S, NEW s \in Seq(S), NEW k \in 1 .. Len(s)
    PROVE  /\ RemoveAt(s, k) \in Seq(S)
           /\ Len(RemoveAt(s, k)) = Len(s) - 1
           /\ ToSet(RemoveAt(s, k)) \subseteq ToSet(s)
<1> DEFINE a == SubSeq(s, 1, k - 1)
           b == SubSeq(s, k + 1, Len(s))
<1>1. Len(s) \in Nat /\ \A i \in 1 .. Len(s) : s[i] \in S
  BY LenProperties, ElementOfSeq
<1>2. a \in Seq(S) /\ Len(a) = k - 1 /\ \A i \in 1 .. k - 1 : a[i] = s[i]
  <2>1. \A i \in 1 .. k - 1 : s[i] \in S
    BY <1>1
  <2>2. a \in Seq(S) /\ Len(a) = k - 1 /\ \A i \in 1 .. k - 1 : a[i] = s[1 + i - 1]
    BY <1>1, <2>1, SubSeqProperties
  <2> QED
    BY <1>1, <2>2
<1>3. b \in Seq(S) /\ Len(b) = Len(s) - k /\ \A i \in 1 .. Len(s) - k : b[i] = s[k + i]
  <2>1. \A i \in k + 1 .. Len(s) : s[i] \in S
    BY <1>1
  <2>2. /\ b \in Seq(S)
        /\ Len(b) = IF k + 1 <= Len(s) THEN Len(s) - (k + 1) + 1 ELSE 0
        /\ \A i \in 1 .. Len(s) - (k + 1) + 1 : b[i] = s[(k + 1) + i - 1]
    BY <1>1, <2>1, SubSeqProperties
  <2> QED
    BY <1>1, <2>2
<1>4. RemoveAt(s, k) = a \o b
  BY DEF RemoveAt
<1> HIDE DEF a, b
<1>5. /\ a \o b \in Seq(S) /\ Len(a \o b) = Len(a) + Len(b)
      /\ \A i \in 1 .. Len(a) + Len(b) : (a \o b)[i] = IF i <= Len(a) THEN a[i] ELSE b[i - Len(a)]
  BY <1>2, <1>3, ConcatProperties
<1>6. \A i \in 1 .. Len(a) + Len(b) : \E j \in 1 .. Len(s) : (a \o b)[i] = s[j]
  <2> TAKE i \in 1 .. Len(a) + Len(b)
  <2>1. CASE i <= Len(a)
    BY <1>1, <1>2, <1>3, <1>5, <2>1
  <2>2. CASE i > Len(a)
    <3>1. /\ i - Len(a) \in 1 .. Len(s) - k /\ k + (i - Len(a)) \in 1 .. Len(s)
          /\ (a \o b)[i] = b[i - Len(a)]
      BY <1>1, <1>2, <1>3, <1>5, <2>2
    <3> QED
      BY <1>3, <3>1
  <2> QED
    BY <1>1, <1>2, <1>3, <2>1, <2>2
<1>7. DOMAIN s = 1 .. Len(s) /\ DOMAIN (a \o b) = 1 .. Len(a) + Len(b)
  BY <1>5, LenProperties
<1>8. ToSet(a \o b) \subseteq ToSet(s)
  BY <1>6, <1>7 DEF ToSet
<1>9. Len(a \o b) = Len(s) - 1
  BY <1>1, <1>2, <1>3, <1>5
<1> QED
  BY <1>4, <1>5, <1>8, <1>9

-----------------------------------------------------------------------------
(* Steps on the stack *)

\* The step goes on with the frames of `caller`: it may push the rests of
\* functions, and a notification on top if and only if the state changes.
GoesOn(caller) ==
    /\ stack' \in Seq(Frames)
    /\ Len(caller) <= Len(stack')
    /\ \A i \in 1 .. Len(caller) : stack'[i] = caller[i]
    /\ \A i \in Len(caller) + 1 .. Len(stack') :
          /\ stack'[i].op # "handler"
          /\ stack'[i].op = "notify" =>
                /\ i = Len(stack') /\ stack'[i].state = connState'
                /\ stack'[i].visited = {} /\ ~stack'[i].moved
    /\ connState' # connState =>
          /\ Len(stack') > Len(caller)
          /\ stack'[Len(stack')].op = "notify" /\ stack'[Len(stack')].visited = {}

LEMMA FrameFacts ==
    /\ \A new \in ConnStates : Notification(new) \in Frames /\ Notification(new).op = "notify"
                                 /\ Notification(new).visited = {} /\ Notification(new).state = new
                                 /\ ~Notification(new).moved
    /\ Rest("handler") \in Frames /\ Rest("handler").op = "handler"
    /\ \A op \in Rests : Rest(op) \in Frames /\ Rest(op).op = op
    /\ \A who \in {"program", "force"}, n \in Nat :
          [op |-> "create", who |-> who, id |-> n] \in Frames
    /\ \A f \in Frames : f.op \in Rests \cup {"notify", "handler", "create"}
    /\ \A f \in Frames : f.op = "notify" =>
          /\ f.state \in ConnStates /\ f.visited \in SUBSET Handlers
          /\ f \in [op : {"notify"}, state : ConnStates, visited : SUBSET Handlers, moved : BOOLEAN]
    /\ \A f \in Frames : f.op = "create" => f.who \in {"program", "force"} /\ f.id \in Nat
BY DEF Frames, Notification, Rest, Rests

LEMMA SetStateEffect ==
    ASSUME connState \in ConnStates, NEW new \in ConnStates, NEW rest, NEW caller,
           SetState(new, rest, caller)
    PROVE  /\ connState' \in ConnStates
           /\ \/ connState' = connState /\ stack' \in {rest, caller}
              \/ connState' = new /\ stack' = Append(rest, Notification(new))
           /\ new = "disconnected" =>
                 /\ connState' = new
                 /\ \/ connState = new /\ stack' = rest
                    \/ stack' = Append(rest, Notification(new))
           /\ new = "connecting" /\ connState = "disconnected" =>
                 connState' = new /\ stack' = Append(rest, Notification(new))
<1>1. "disconnected" \in ValidTransitions["connecting"]
      /\ "disconnected" \in ValidTransitions["connected"]
      /\ "disconnected" \in ValidTransitions["reconnecting"]
      /\ "connecting" \in ValidTransitions["disconnected"]
  BY DEF ValidTransitions
<1>2. CASE new = connState
  BY <1>2 DEF SetState
<1>3. CASE new # connState /\ new \in ValidTransitions[connState]
  BY <1>3 DEF SetState
<1>4. CASE new # connState /\ new \notin ValidTransitions[connState]
  BY <1>1, <1>4 DEF SetState, ConnStates
<1> QED
  BY <1>2, <1>3, <1>4

LEMMA Shapes ==
    ASSUME connState' \in ConnStates, NEW caller \in Seq(Frames),
           \/ UNCHANGED connState /\ stack' = caller
           \/ /\ UNCHANGED connState
              /\ \E f \in Frames : f.op \notin {"notify", "handler"} /\ stack' = Append(caller, f)
           \/ stack' = Append(caller, Notification(connState'))
           \/ \E f \in Frames :
                 /\ f.op \notin {"notify", "handler"}
                 /\ stack' = Append(Append(caller, f), Notification(connState'))
    PROVE  GoesOn(caller)
<1>0. Len(caller) \in Nat
  BY LenProperties
<1>1. CASE UNCHANGED connState /\ stack' = caller
  BY <1>0, <1>1 DEF GoesOn
<1>2. ASSUME UNCHANGED connState, NEW f \in Frames, f.op \notin {"notify", "handler"},
             stack' = Append(caller, f)
      PROVE  GoesOn(caller)
  BY <1>0, <1>2, Pushed DEF GoesOn
<1>3. CASE stack' = Append(caller, Notification(connState'))
  BY <1>0, <1>3, Pushed, FrameFacts DEF GoesOn
<1>4. ASSUME NEW f \in Frames, f.op \notin {"notify", "handler"},
             stack' = Append(Append(caller, f), Notification(connState'))
      PROVE  GoesOn(caller)
  <2>1. /\ Append(caller, f) \in Seq(Frames) /\ Len(Append(caller, f)) = Len(caller) + 1
        /\ Append(caller, f)[Len(caller) + 1] = f
        /\ \A i \in 1 .. Len(caller) : Append(caller, f)[i] = caller[i]
    BY Pushed
  <2>2. /\ stack' \in Seq(Frames) /\ Len(stack') = Len(caller) + 2
        /\ stack'[Len(caller) + 2] = Notification(connState')
        /\ \A i \in 1 .. Len(caller) + 1 : stack'[i] = Append(caller, f)[i]
    BY <1>0, <1>4, <2>1, Pushed, FrameFacts
  <2>3. stack'[Len(caller) + 1] = f /\ \A i \in 1 .. Len(caller) : stack'[i] = caller[i]
    BY <1>0, <2>1, <2>2
  <2> QED
    BY <1>0, <1>4, <2>2, <2>3, FrameFacts DEF GoesOn
<1> QED
  BY <1>1, <1>2, <1>3, <1>4

\* cleanupExistingSocket() leaves nothing of the socket, and nothing else changes.
LEMMA CleanupEffect ==
    ASSUME ClientTypes, CleanupExistingSocket
    PROVE  /\ socket' \in [Sockets -> SocketStates] /\ wired' \in SUBSET Sockets
           /\ current' = None /\ persistentHandlersRegistered' \in BOOLEAN
           /\ current = None => UNCHANGED <<socket, wired, persistentHandlersRegistered>>
           /\ current # None => ~persistentHandlersRegistered'
           /\ \A s \in Sockets : socket'[s] = IF s = current THEN "closed" ELSE socket[s]
BY StateHandlersAssumption DEF ClientTypes, CleanupExistingSocket, SocketStates

LEMMA BeginConnectEffect ==
    ASSUME ClientTypes, connState = "disconnected", NEW caller \in Seq(Frames),
           NEW who \in {"program", "force"}, BeginConnect(caller, who)
    PROVE  /\ \E f \in Frames : /\ f.op = "create" /\ f.who = who
                                /\ stack' = Append(Append(caller, f), Notification("connecting"))
           /\ connState' = "connecting"
           /\ CleanupExistingSocket
           /\ ~scheduled' /\ UNCHANGED <<id, connectPromise, wakeSubscribed>>
           /\ connectionId' \in Nat /\ entangled' \in BOOLEAN
           /\ ~entangled' => ~entangled /\ ~Holds(caller, {"create", "close", "clear"})
<1> DEFINE f == [op |-> "create", who |-> who, id |-> connectionId + 1]
<1>1. f \in Frames /\ f.op = "create" /\ f.who = who
  BY DEF ClientTypes, Frames
<1>2. SetState("connecting", Append(caller, f), caller)
  BY DEF BeginConnect
<1>3. connState' = "connecting" /\ stack' = Append(Append(caller, f), Notification("connecting"))
  BY <1>2, SetStateEffect DEF ConnStates
<1>4. Holds(caller, {"create", "close", "clear"}) \in BOOLEAN
  BY DEF Holds
<1> HIDE DEF f
<1> QED
  BY <1>1, <1>3, <1>4 DEF BeginConnect, ClientTypes

\* disconnect() of a client that is not disconnected.
LEMMA DisconnectEffect ==
    ASSUME ClientTypes, connState # "disconnected", NEW caller \in Seq(Frames), Disconnect(caller)
    PROVE  /\ connState' \in {connState, "disconnected"}
           /\ \/ /\ current = None /\ connState' = "disconnected"
                 /\ stack' = Append(caller, Notification("disconnected"))
              \/ /\ current # None /\ connState' = connState
                 /\ stack' = Append(caller, Rest("close"))
              \/ /\ current # None /\ connState' = "disconnected"
                 /\ stack' = Append(Append(caller, Rest("close")), Notification("disconnected"))
           /\ \A s \in Sockets : socket'[s] = IF s = current THEN "closed" ELSE socket[s]
           /\ socket' \in [Sockets -> SocketStates]
           /\ ~scheduled' /\ ~wakeSubscribed' /\ closed'
           /\ interrupted' \in BOOLEAN
           /\ ~interrupted' => ~interrupted /\ ~Holds(caller, {"create", "opened", "schedule"})
           /\ UNCHANGED <<current, id, connectionId, persistentHandlersRegistered, wired,
                          connectPromise>>
<1> USE DEF ConnStates
<1>1. /\ ~scheduled' /\ ~wakeSubscribed' /\ closed'
      /\ interrupted' = (interrupted \/ Holds(caller, {"create", "opened", "schedule"}))
      /\ UNCHANGED <<current, id, connectionId, persistentHandlersRegistered, wired, connectPromise>>
  BY DEF Disconnect
<1>2. CASE current = None
  <2>1. SetState("disconnected", caller, caller) /\ UNCHANGED socket
    BY <1>2 DEF Disconnect
  <2>2. connState' = "disconnected" /\ stack' = Append(caller, Notification("disconnected"))
    BY <2>1, SetStateEffect DEF ClientTypes
  <2> QED
    BY <1>1, <1>2, <2>1, <2>2, StateHandlersAssumption DEF ClientTypes, Holds
<1>3. CASE current # None
  <2> DEFINE rest == Append(caller, Rest("close"))
  <2>1. /\ socket' = [socket EXCEPT ![current] = "closed"]
        /\ \/ SetState("disconnected", rest, rest)
           \/ stack' = rest /\ UNCHANGED connState
    BY <1>3 DEF Disconnect
  <2>2. \/ connState' = "disconnected" /\ stack' = Append(rest, Notification("disconnected"))
        \/ connState' = connState /\ stack' = rest
    <3> HIDE DEF rest
    <3> QED
      BY <2>1, SetStateEffect DEF ClientTypes
  <2> QED
    BY <1>1, <1>3, <2>1, <2>2 DEF ClientTypes, Holds, SocketStates
<1> QED
  BY <1>2, <1>3

\* A call of the program or of a handler does one of three things.
LEMMA CallEffect ==
    ASSUME ClientTypes, Caller \in Seq(Frames), Call
    PROVE  \/ /\ stack' = Caller
              /\ UNCHANGED <<connState, clientVars, closed, entangled, interrupted>>
           \/ /\ connState = "disconnected" /\ connectPromise = None
              /\ BeginConnect(Caller, "program")
              /\ ~closed' /\ UNCHANGED interrupted
           \/ /\ connState # "disconnected" /\ Disconnect(Caller)
              /\ UNCHANGED entangled
<1>1. CASE Connect(Caller) /\ UNCHANGED interrupted
  BY <1>1 DEF Connect
<1>2. CASE Disconnect(Caller) /\ UNCHANGED entangled
  BY <1>2 DEF Disconnect
<1> QED
  BY <1>1, <1>2 DEF Call

LEMMA CallGoesOn ==
    ASSUME ClientTypes, Caller \in Seq(Frames), Call
    PROVE  ClientTypes' /\ GoesOn(Caller)
<1>0. calls' \in Nat
  BY DEF Call, ClientTypes
<1>1. CASE /\ stack' = Caller
           /\ UNCHANGED <<connState, clientVars, closed, entangled, interrupted>>
  BY <1>0, <1>1, Shapes DEF ClientTypes, clientVars
<1>2. CASE /\ connState = "disconnected" /\ BeginConnect(Caller, "program")
           /\ ~closed' /\ UNCHANGED interrupted
  <2>1. PICK f \in Frames : /\ f.op = "create"
                            /\ stack' = Append(Append(Caller, f), Notification("connecting"))
    BY <1>2, BeginConnectEffect
  <2>2. connState' = "connecting" /\ connState' \in ConnStates
    BY <1>2, BeginConnectEffect DEF ConnStates
  <2>3. GoesOn(Caller)
    BY <2>1, <2>2, Shapes
  <2>4. ClientTypes'
    <3>1. stack' \in Seq(Frames)
      BY <2>3 DEF GoesOn
    <3>2. closed' \in BOOLEAN /\ scheduled' \in BOOLEAN
      <4>1. ~closed' /\ scheduled' = FALSE /\ closed' = FALSE
        BY <1>2, BeginConnectEffect DEF BeginConnect
      <4> QED
        BY <4>1
    <3> QED
      BY <1>0, <1>2, <2>2, <3>1, <3>2, BeginConnectEffect, CleanupEffect DEF ClientTypes
  <2> QED
    BY <2>3, <2>4
<1>3. CASE connState # "disconnected" /\ Disconnect(Caller) /\ UNCHANGED entangled
  <2>1. connState' \in ConnStates
    BY <1>3, DisconnectEffect DEF ClientTypes, ConnStates
  <2>2. GoesOn(Caller)
    <3>1. Rest("close") \in Frames /\ Rest("close").op = "close"
      BY FrameFacts DEF Rests
    <3> QED
      BY <1>3, <2>1, <3>1, DisconnectEffect, Shapes
  <2>3. closed' \in BOOLEAN /\ scheduled' \in BOOLEAN /\ wakeSubscribed' \in BOOLEAN
    BY <1>3 DEF Disconnect
  <2>4. stack' \in Seq(Frames)
    BY <2>2 DEF GoesOn
  <2> QED
    BY <1>0, <1>3, <2>1, <2>2, <2>3, <2>4, DisconnectEffect DEF ClientTypes
<1> QED
  BY <1>1, <1>2, <1>3, CallEffect

-----------------------------------------------------------------------------
(* Types, and how every step treats the stack *)

\* The top frame is done: a function goes on, a handler returns or all are told.
FrameEnds == Return \/ Create \/ Close \/ Clear \/ Opened \/ Failed \/ Schedule

\* What begins in the event loop.
LoopTurns ==
    \/ ForceTimer \/ WakeFromSleep
    \/ \E s \in Sockets : SocketOpens(s) \/ OpeningFails(s) \/ SocketLost(s)
                              \/ ServerDisconnects(s) \/ Reopens(s) \/ ReopeningFails(s)

LEMMA FrameEndsGoesOn ==
    ASSUME ClientTypes, FrameEnds
    PROVE  /\ ClientTypes' /\ GoesOn(Below)
           /\ UNCHANGED <<handlers, told, outrun>>
           /\ stack # <<>>
           /\ Top.op = "notify" => Untold(Top) = {}
<1>0. stack # <<>>
  BY DEF FrameEnds, Return, Create, Close, Clear, Opened, Failed, Schedule, Running, Turn
<1>1. Below \in Seq(Frames) /\ Top \in Frames
  BY <1>0, Popped DEF ClientTypes, Below, Top
<1>2. UNCHANGED <<handlers, told, outrun>> /\ (Top.op = "notify" => Untold(Top) = {})
  BY DEF FrameEnds, Return, Create, Close, Clear, Opened, Failed, Schedule, Running, historyVars
<1>3. CASE Close
  <2> DEFINE rest == Append(Below, Rest("clear"))
  <2>1. SetState("disconnected", rest, Below)
    BY <1>3 DEF Close
  <2>2. /\ connState' = "disconnected"
        /\ \/ connState = "disconnected" /\ stack' = rest
           \/ stack' = Append(rest, Notification("disconnected"))
    <3> HIDE DEF rest
    <3> QED
      BY <2>1, SetStateEffect DEF ClientTypes, ConnStates
  <2>3. Rest("clear") \in Frames /\ Rest("clear").op = "clear"
    BY FrameFacts DEF Rests
  <2>4. connState' \in ConnStates
    BY <2>2 DEF ConnStates
  <2>5. GoesOn(Below)
    BY <1>1, <2>2, <2>3, <2>4, Shapes
  <2>6. ClientTypes'
    BY <1>3, <2>4, <2>5 DEF Close, GoesOn, ClientTypes, historyVars
  <2> QED
    BY <1>0, <1>2, <2>5, <2>6
<1>4. CASE Return \/ Create \/ Clear \/ Opened \/ Failed \/ Schedule
  <2>1. stack' = Below /\ UNCHANGED connState
    BY <1>4 DEF Return, Create, Clear, Opened, Failed, Schedule
  <2>2. GoesOn(Below)
    BY <1>1, <2>1, Shapes DEF ClientTypes
  <2>3. stack' \in Seq(Frames)
    BY <1>1, <2>1
  <2> SUFFICES ClientTypes'
    BY <1>0, <1>2, <2>2
  <2>4. CASE Return
    BY <2>1, <2>3, <2>4 DEF ClientTypes, Return, historyVars, clientVars
  <2>5. CASE Clear
    BY <2>1, <2>3, <2>5 DEF ClientTypes, Clear, historyVars
  <2>6. CASE Opened
    BY <2>1, <2>3, <2>6 DEF ClientTypes, Opened, historyVars
  <2>7. CASE Schedule
    BY <2>1, <2>3, <2>7 DEF ClientTypes, Schedule, historyVars
  <2>8. CASE Create
    <3>1. Top.who \in {"program", "force"} /\ Top.id \in Nat
      BY <1>1, <2>8, FrameFacts DEF Create, Running
    <3>2. PICK s \in Sockets :
             /\ socket' = [socket EXCEPT ![s] = "opening"]
             /\ current' = s
             /\ id' = [id EXCEPT ![s] = Top.id]
             /\ wired' \in {wired, wired \cup {s}}
      BY <2>8 DEF Create
    <3>3. /\ socket' \in [Sockets -> SocketStates] /\ id' \in [Sockets -> Nat]
          /\ current' \in Sockets /\ wired' \in SUBSET Sockets
      BY <3>1, <3>2 DEF ClientTypes, SocketStates
    <3> QED
      BY <2>1, <2>3, <2>8, <3>1, <3>3 DEF ClientTypes, Create, historyVars
  <2>9. CASE Failed
    <3>1. /\ socket' \in [Sockets -> SocketStates] /\ wired' \in SUBSET Sockets
          /\ current' = None /\ persistentHandlersRegistered' \in BOOLEAN
      BY <2>9, CleanupEffect DEF Failed
    <3>2. scheduled' \in BOOLEAN
      BY <2>9 DEF ClientTypes, Failed
    <3> QED
      BY <2>1, <2>3, <2>9, <3>1, <3>2 DEF ClientTypes, Failed, historyVars
  <2> QED
    BY <1>0, <1>2, <1>4, <2>2, <2>4, <2>5, <2>6, <2>7, <2>8, <2>9
<1> QED
  BY <1>3, <1>4 DEF FrameEnds

LEMMA EventGoesOn ==
    ASSUME ClientTypes, NEW s \in Sockets, NEW from, NEW to \in SocketStates, NEW heeded,
           NEW new \in ConnStates, NEW rest \in {<<>>} \cup {<<Rest(op)>> : op \in Rests},
           Event(s, from, to, heeded, new, rest)
    PROVE  ClientTypes' /\ GoesOn(<<>>)
<1>1. <<>> \in Seq(Frames)
  BY EmptySeq
<1>2. PICK f \in Frames : f.op \notin {"notify", "handler"} /\ rest \in {<<>>, Append(<<>>, f)}
  <2>1. \A op \in Rests : <<Rest(op)>> = Append(<<>>, Rest(op))
    OBVIOUS
  <2> QED
    BY <2>1, FrameFacts DEF Rests
<1>3. /\ connState' \in ConnStates
      /\ \/ connState' = connState /\ stack' \in {rest, <<>>}
         \/ connState' = new /\ stack' = Append(rest, Notification(new))
  BY SetStateEffect DEF Event, ClientTypes, Turn
<1>4. GoesOn(<<>>)
  BY <1>1, <1>2, <1>3, Shapes
<1>5. stack' \in Seq(Frames)
  BY <1>4 DEF GoesOn
<1> QED
  BY <1>3, <1>4, <1>5 DEF Event, ClientTypes, historyVars

LEMMA LoopTurnsGoesOn ==
    ASSUME ClientTypes, LoopTurns
    PROVE  /\ ClientTypes' /\ GoesOn(<<>>)
           /\ UNCHANGED <<handlers, told, outrun>>
           /\ stack = <<>>
<1>0. <<>> \in Seq(Frames)
  BY EmptySeq
<1>2. CASE ForceTimer
  <2>0. stack = <<>> /\ UNCHANGED <<handlers, told, outrun>>
    BY <1>2 DEF ForceTimer, Turn
  <2>1. UNCHANGED <<calls, closed, interrupted>>
    BY <1>2 DEF ForceTimer
  <2>2. CASE /\ scheduled' = FALSE
             /\ UNCHANGED <<connState, stack, socket, current, id, connectionId,
                            persistentHandlersRegistered, wired, connectPromise,
                            wakeSubscribed, entangled>>
    BY <1>0, <2>0, <2>1, <2>2, Shapes DEF ClientTypes
  <2>3. CASE connState = "disconnected" /\ BeginConnect(<<>>, "force")
    <3>1. PICK f \in Frames : /\ f.op = "create"
                              /\ stack' = Append(Append(<<>>, f), Notification("connecting"))
      BY <1>0, <2>3, BeginConnectEffect
    <3>2. connState' = "connecting" /\ connState' \in ConnStates
      BY <1>0, <2>3, BeginConnectEffect DEF ConnStates
    <3>3. GoesOn(<<>>)
      BY <1>0, <3>1, <3>2, Shapes
    <3>4. stack' \in Seq(Frames)
      BY <3>3 DEF GoesOn
    <3>5. scheduled' \in BOOLEAN /\ CleanupExistingSocket
      BY <2>3 DEF BeginConnect
    <3> QED
      BY <1>0, <2>0, <2>1, <2>3, <3>2, <3>3, <3>4, <3>5, BeginConnectEffect, CleanupEffect
      DEF ClientTypes
  <2>4. CASE /\ CleanupExistingSocket
             /\ scheduled' = FALSE
             /\ UNCHANGED <<connState, stack, id, connectionId, connectPromise,
                            wakeSubscribed, entangled>>
    BY <1>0, <2>0, <2>1, <2>4, CleanupEffect, Shapes DEF ClientTypes
  <2> QED
    BY <1>2, <2>2, <2>3, <2>4 DEF ForceTimer
<1>3. CASE WakeFromSleep
  <2> DEFINE rest == <<Rest("schedule")>>
  <2>0. stack = <<>> /\ UNCHANGED <<handlers, clientVars, calls, historyVars>>
    BY <1>3 DEF WakeFromSleep, Turn
  <2>1. /\ Rest("schedule") \in Frames /\ Rest("schedule").op = "schedule"
        /\ rest = Append(<<>>, Rest("schedule"))
    BY FrameFacts DEF Rests
  <2> HIDE DEF rest
  <2>2. \/ UNCHANGED connState /\ stack' = rest
        \/ SetState("disconnected", rest, <<>>)
    BY <1>3 DEF WakeFromSleep, rest
  <2>3. \/ UNCHANGED connState /\ stack' = rest
        \/ connState' = "disconnected" /\ stack' = Append(rest, Notification("disconnected"))
    BY <2>2, SetStateEffect DEF ClientTypes, ConnStates
  <2>4. connState' \in ConnStates
    BY <2>3 DEF ClientTypes, ConnStates
  <2>5. GoesOn(<<>>)
    BY <1>0, <2>1, <2>3, <2>4, Shapes
  <2>6. stack' \in Seq(Frames)
    BY <2>5 DEF GoesOn
  <2> QED
    BY <2>0, <2>4, <2>5, <2>6 DEF ClientTypes, clientVars, historyVars
<1>4. ASSUME NEW s \in Sockets,
             \/ SocketOpens(s) \/ OpeningFails(s) \/ SocketLost(s)
             \/ ServerDisconnects(s) \/ Reopens(s) \/ ReopeningFails(s)
      PROVE  /\ ClientTypes' /\ GoesOn(<<>>)
             /\ UNCHANGED <<handlers, told, outrun>>
             /\ stack = <<>>
  <2>1. \E from : \E to \in SocketStates, heeded \in {Latest(s), Attended(s)},
                     new \in ConnStates, rest \in {<<>>} \cup {<<Rest(op)>> : op \in Rests} :
                        Event(s, from, to, heeded, new, rest)
    BY <1>4, Zenon DEF SocketOpens, OpeningFails, SocketLost, ServerDisconnects, Reopens,
       ReopeningFails, SocketStates, ConnStates, Rests
  <2>2. ClientTypes' /\ GoesOn(<<>>)
    BY <2>1, EventGoesOn
  <2> QED
    BY <2>1, <2>2 DEF Event, Turn, historyVars
<1> QED
  BY <1>2, <1>3, <1>4 DEF LoopTurns

\* The frame that TellHandler goes on with.
LEMMA TellHandlerGoesOn ==
    ASSUME Types, TellHandler
    PROVE  \E i \in Untold(Top) :
              LET h == handlers[i]
                  f == [Top EXCEPT !.visited = @ \cup {h}]
              IN  /\ stack # <<>> /\ Top.op = "notify" /\ h \in Handlers /\ f \in Frames
                  /\ f.op = "notify" /\ f.state = Top.state /\ f.moved = Top.moved
                  /\ f.visited = Top.visited \cup {h}
                  /\ told' = [told EXCEPT ![h] = Top.state]
                  /\ outrun' = IF Top.moved THEN outrun \cup {h} ELSE outrun \ {h}
                  /\ stack' = Append(Append(Below, f), Rest("handler"))
                  /\ ClientTypes'
<1>1. PICK i \in Untold(Top) :
         LET h == handlers[i]
         IN  /\ told' = [told EXCEPT ![h] = Top.state]
             /\ outrun' = IF Top.moved THEN outrun \cup {h} ELSE outrun \ {h}
             /\ stack' = Below \o <<[Top EXCEPT !.visited = @ \cup {h}], Rest("handler")>>
  BY DEF TellHandler
<1> DEFINE h == handlers[i]
           f == [Top EXCEPT !.visited = @ \cup {h}]
<1>2. stack # <<>> /\ Top.op = "notify"
  BY DEF TellHandler, Running, Turn
<1>3. Below \in Seq(Frames) /\ Top \in Frames
  BY <1>2, Popped DEF Types, ClientTypes, Below, Top
<1>4. h \in Handlers
  BY LenProperties, ElementOfSeq DEF Types, HandlerTypes, Untold
<1>5. Top \in [op : {"notify"}, state : ConnStates, visited : SUBSET Handlers, moved : BOOLEAN]
  BY <1>2, <1>3, FrameFacts
<1>6. /\ f \in [op : {"notify"}, state : ConnStates, visited : SUBSET Handlers, moved : BOOLEAN]
      /\ f.op = "notify" /\ f.state = Top.state /\ f.moved = Top.moved
      /\ f.visited = Top.visited \cup {h}
  BY <1>4, <1>5
<1>7. f \in Frames
  BY <1>6 DEF Frames
<1> HIDE DEF f
<1>8. stack' = Append(Append(Below, f), Rest("handler"))
  <2>1. stack' = Below \o <<f, Rest("handler")>>
    BY <1>1 DEF f
  <2> HIDE DEF h
  <2>2. Rest("handler") \in Frames
    BY FrameFacts
  <2> DEFINE r == Rest("handler")
  <2> HIDE DEF r
  <2>3. \A q \in Seq(Frames), a, b \in Frames : q \o <<a, b>> = Append(Append(q, a), b)
    BY AppendIsConcat, ConcatAssociative, SMT
  <2> QED
    BY <1>3, <1>7, <2>1, <2>2, <2>3
<1>9. ClientTypes'
  <2>1. stack' \in Seq(Frames)
    BY <1>3, <1>7, <1>8, Pushed, FrameFacts
  <2>2. UNCHANGED <<connState, clientVars, calls, closed, entangled, interrupted>>
    BY DEF TellHandler
  <2> QED
    BY <2>1, <2>2 DEF Types, ClientTypes, clientVars
<1> QED
  BY <1>1, <1>2, <1>4, <1>6, <1>7, <1>8, <1>9 DEF f

-----------------------------------------------------------------------------
(* What handlers are told *)

\* A handler runs on the notification that told it.  A notification with more than
\* that on top has moved: the handler called the client.
Nested(frames) ==
    \A n \in 1 .. Len(frames) :
        /\ frames[n].op = "handler" => n > 1 /\ frames[n - 1].op = "notify"
        /\ frames[n].op = "notify" /\ n < Len(frames) =>
              /\ frames[n + 1].op = "handler"
              /\ frames[n].moved \/ n + 1 = Len(frames)

\* The state may change on top of these frames.
Ready(frames) ==
    \A n \in 1 .. Len(frames) :
        frames[n].op = "notify" => n < Len(frames) /\ frames[n].moved

\* A notification that has not moved is of the present state.
Truthful(frames, state) ==
    \A n \in 1 .. Len(frames) :
        frames[n].op = "notify" /\ ~frames[n].moved => frames[n].state = state

\* The handler will be told yet.
Pending(h, frames) ==
    \E n \in 1 .. Len(frames) : frames[n].op = "notify" /\ h \notin frames[n].visited

\* HandlersKnow in the middle of notifications: whoever was told another state
\* will yet be told.
HandlersInv ==
    /\ Nested(stack)
    /\ Truthful(stack, connState)
    /\ \A h \in ToSet(handlers) :
          told[h] \in {None, connState} \/ h \in outrun \/ Pending(h, stack)

\* Why a step that goes on with `caller` keeps the invariant.
LEMMA StepHandlers ==
    ASSUME NEW caller \in Seq(Frames), GoesOn(caller), Nested(caller),
           Truthful(caller, connState),
           Ready(caller) \/ (stack' = caller /\ UNCHANGED connState),
           \A h \in ToSet(handlers') :
              told'[h] \in {None, connState} \/ h \in outrun' \/ Pending(h, caller)
    PROVE  HandlersInv'
<1>1. /\ Len(caller) \in Nat /\ Len(stack') \in Nat /\ Len(caller) <= Len(stack')
      /\ \A i \in 1 .. Len(caller) : stack'[i] = caller[i]
  BY LenProperties DEF GoesOn
<1>2. CASE stack' = caller /\ UNCHANGED connState
  BY <1>2 DEF HandlersInv
<1>3. CASE Ready(caller)
  <2>1. Nested(stack')
    <3> SUFFICES ASSUME NEW n \in 1 .. Len(stack')
                 PROVE  /\ stack'[n].op = "handler" => n > 1 /\ stack'[n - 1].op = "notify"
                        /\ stack'[n].op = "notify" /\ n < Len(stack') =>
                              /\ stack'[n + 1].op = "handler"
                              /\ stack'[n].moved \/ n + 1 = Len(stack')
      BY DEF Nested
    <3>1. CASE n \in 1 .. Len(caller)
      <4>1. stack'[n].op = "handler" => n > 1 /\ stack'[n - 1].op = "notify"
        BY <1>1, <3>1 DEF Nested
      <4>2. ASSUME stack'[n].op = "notify"
            PROVE  stack'[n + 1].op = "handler" /\ stack'[n].moved
        <5>1. caller[n].op = "notify" /\ n < Len(caller) /\ caller[n].moved
          BY <1>1, <1>3, <3>1, <4>2 DEF Ready
        <5> QED
          BY <1>1, <3>1, <5>1 DEF Nested
      <4> QED
        BY <4>1, <4>2
    <3>2. CASE n \in Len(caller) + 1 .. Len(stack')
      BY <1>1, <3>2 DEF GoesOn
    <3> QED
      BY <1>1, <3>1, <3>2
  <2>2. Truthful(stack', connState')
    <3> SUFFICES ASSUME NEW n \in 1 .. Len(stack'), stack'[n].op = "notify", ~stack'[n].moved
                 PROVE  stack'[n].state = connState'
      BY DEF Truthful
    <3>1. n \notin 1 .. Len(caller)
      BY <1>1, <1>3 DEF Ready
    <3> QED
      BY <1>1, <3>1 DEF GoesOn
  <2>3. ASSUME NEW h \in ToSet(handlers')
        PROVE  told'[h] \in {None, connState'} \/ h \in outrun' \/ Pending(h, stack')
    <3>1. Pending(h, caller) => Pending(h, stack')
      BY <1>1 DEF Pending
    <3>2. CASE connState' # connState
      BY <1>1, <3>2 DEF GoesOn, Pending
    <3> QED
      BY <2>3, <3>1, <3>2
  <2> QED
    BY <2>1, <2>2, <2>3 DEF HandlersInv
<1> QED
  BY <1>2, <1>3

\* The frames under the top one.
LEMMA BelowHandlers ==
    ASSUME ClientTypes, HandlersInv, stack # <<>>
    PROVE  /\ Below \in Seq(Frames) /\ Top \in Frames /\ Len(stack) \in Nat \ {0}
           /\ Len(Below) = Len(stack) - 1 /\ \A n \in 1 .. Len(Below) : Below[n] = stack[n]
           /\ Top = stack[Len(stack)]
           /\ Nested(Below) /\ Truthful(Below, connState)
           /\ Top.op # "handler" => Ready(Below)
           /\ \A h : Pending(h, stack) <=>
                 Pending(h, Below) \/ (Top.op = "notify" /\ h \notin Top.visited)
<1>1. /\ Below \in Seq(Frames) /\ Top \in Frames /\ Len(stack) \in Nat \ {0}
      /\ Len(Below) = Len(stack) - 1 /\ \A n \in 1 .. Len(Below) : Below[n] = stack[n]
      /\ Top = stack[Len(stack)]
  BY Popped DEF ClientTypes, Below, Top
<1>2. Truthful(Below, connState)
  BY <1>1 DEF HandlersInv, Truthful
<1>3. Nested(Below)
  <2> SUFFICES ASSUME NEW n \in 1 .. Len(Below)
               PROVE  /\ Below[n].op = "handler" => n > 1 /\ Below[n - 1].op = "notify"
                      /\ Below[n].op = "notify" /\ n < Len(Below) =>
                            Below[n + 1].op = "handler" /\ Below[n].moved
    BY DEF Nested
  <2> QED
    BY <1>1 DEF HandlersInv, Nested
<1>4. ASSUME Top.op # "handler"
      PROVE  Ready(Below)
  BY <1>1, <1>4 DEF HandlersInv, Nested, Ready
<1>5. \A h : Pending(h, stack) <=>
         Pending(h, Below) \/ (Top.op = "notify" /\ h \notin Top.visited)
  BY <1>1 DEF Pending
<1> QED
  BY <1>1, <1>2, <1>3, <1>4, <1>5

LEMMA FrameEndsHandlers ==
    ASSUME Types, HandlersInv, FrameEnds
    PROVE  HandlersInv'
<1>1. /\ GoesOn(Below) /\ UNCHANGED <<handlers, told, outrun>>
      /\ stack # <<>> /\ (Top.op = "notify" => Untold(Top) = {})
  BY FrameEndsGoesOn DEF Types
<1>2. /\ Below \in Seq(Frames) /\ Nested(Below) /\ Truthful(Below, connState)
      /\ Top.op # "handler" => Ready(Below)
      /\ \A h : Pending(h, stack) <=>
            Pending(h, Below) \/ (Top.op = "notify" /\ h \notin Top.visited)
  BY <1>1, BelowHandlers DEF Types
<1>3. ASSUME NEW h \in ToSet(handlers)
      PROVE  told[h] \in {None, connState} \/ h \in outrun \/ Pending(h, Below)
  <2>1. Top.op = "notify" => h \in Top.visited
    BY <1>1 DEF Untold, ToSet
  <2> QED
    BY <1>2, <2>1 DEF HandlersInv
<1>4. Top.op = "handler" => stack' = Below /\ UNCHANGED connState
  BY DEF FrameEnds, Return, Create, Close, Clear, Opened, Failed, Schedule, Running, Turn
<1> QED
  BY <1>1, <1>2, <1>3, <1>4, StepHandlers

LEMMA LoopTurnsHandlers ==
    ASSUME Types, HandlersInv, LoopTurns
    PROVE  HandlersInv'
<1>1. GoesOn(<<>>) /\ UNCHANGED <<handlers, told, outrun>> /\ stack = <<>>
  BY LoopTurnsGoesOn DEF Types
<1>2. <<>> \in Seq(Frames) /\ Ready(<<>>)
  BY EmptySeq DEF Ready
<1> QED
  BY <1>1, <1>2, StepHandlers DEF HandlersInv

LEMMA TellHandlerHandlers ==
    ASSUME Types, HandlersInv, TellHandler
    PROVE  HandlerTypes' /\ HandlersInv'
<1>1. PICK k \in Untold(Top) :
         LET h == handlers[k]
             f == [Top EXCEPT !.visited = @ \cup {h}]
         IN  /\ stack # <<>> /\ Top.op = "notify" /\ h \in Handlers /\ f \in Frames
             /\ f.op = "notify" /\ f.state = Top.state /\ f.moved = Top.moved
             /\ f.visited = Top.visited \cup {h}
             /\ told' = [told EXCEPT ![h] = Top.state]
             /\ outrun' = IF Top.moved THEN outrun \cup {h} ELSE outrun \ {h}
             /\ stack' = Append(Append(Below, f), Rest("handler"))
             /\ ClientTypes'
  BY TellHandlerGoesOn
<1> DEFINE h == handlers[k]
           f == [Top EXCEPT !.visited = @ \cup {h}]
           one == Append(Below, f)
           r == Rest("handler")
<1>2. /\ stack # <<>> /\ Top.op = "notify" /\ h \in Handlers /\ f \in Frames
      /\ f.op = "notify" /\ f.state = Top.state /\ f.moved = Top.moved
      /\ f.visited = Top.visited \cup {h}
      /\ told' = [told EXCEPT ![h] = Top.state]
      /\ outrun' = IF Top.moved THEN outrun \cup {h} ELSE outrun \ {h}
      /\ stack' = Append(one, r)
  BY <1>1
<1>3. UNCHANGED <<connState, handlers>>
  BY DEF TellHandler
<1> HIDE DEF h, f
<1>4. r \in Frames /\ r.op = "handler"
  BY FrameFacts
<1> HIDE DEF r
<1>5. /\ Below \in Seq(Frames) /\ Top \in Frames /\ Len(stack) \in Nat \ {0}
      /\ Len(Below) = Len(stack) - 1 /\ \A n \in 1 .. Len(Below) : Below[n] = stack[n]
      /\ Top = stack[Len(stack)]
      /\ Nested(Below) /\ Truthful(Below, connState) /\ Ready(Below)
      /\ \A g : Pending(g, stack) <=>
            Pending(g, Below) \/ (Top.op = "notify" /\ g \notin Top.visited)
  BY <1>2, BelowHandlers DEF Types
<1>6. /\ one \in Seq(Frames) /\ Len(one) = Len(stack) /\ one[Len(stack)] = f
      /\ \A n \in 1 .. Len(stack) - 1 : one[n] = Below[n]
  BY <1>2, <1>5, Pushed
<1> HIDE DEF one
<1>7. /\ stack' \in Seq(Frames) /\ Len(stack') = Len(stack) + 1
      /\ stack'[Len(stack) + 1] = r /\ stack'[Len(stack)] = f
      /\ \A n \in 1 .. Len(stack) - 1 : stack'[n] = Below[n]
  <2>1. /\ stack' \in Seq(Frames) /\ Len(stack') = Len(one) + 1 /\ stack'[Len(one) + 1] = r
        /\ \A n \in 1 .. Len(one) : stack'[n] = one[n]
    BY <1>2, <1>4, <1>6, Pushed
  <2> QED
    BY <1>5, <1>6, <2>1
<1>8. told \in [Handlers -> ConnStates \cup {None}] /\ outrun \in SUBSET Handlers
      /\ Top.state \in ConnStates
  BY <1>2, <1>5, FrameFacts DEF Types, HandlerTypes
<1>9. HandlerTypes'
  BY <1>2, <1>3, <1>8 DEF Types, HandlerTypes
<1>10. Nested(stack')
  <2> SUFFICES ASSUME NEW n \in 1 .. Len(stack')
               PROVE  /\ stack'[n].op = "handler" => n > 1 /\ stack'[n - 1].op = "notify"
                      /\ stack'[n].op = "notify" /\ n < Len(stack') =>
                            /\ stack'[n + 1].op = "handler"
                            /\ stack'[n].moved \/ n + 1 = Len(stack')
    BY DEF Nested
  <2>1. CASE n \in 1 .. Len(stack) - 1
    <3>1. ASSUME stack'[n].op = "handler"
          PROVE  n > 1 /\ stack'[n - 1].op = "notify"
      <4>1. n > 1 /\ Below[n - 1].op = "notify"
        BY <1>5, <1>7, <2>1, <3>1 DEF Nested
      <4>2. n - 1 \in 1 .. Len(stack) - 1
        BY <1>5, <2>1, <4>1
      <4> QED
        BY <1>7, <4>1, <4>2
    <3>2. ASSUME stack'[n].op = "notify"
          PROVE  stack'[n + 1].op = "handler" /\ stack'[n].moved
      <4>1. Below[n].op = "notify" /\ n < Len(Below) /\ Below[n].moved
        BY <1>5, <1>7, <2>1, <3>2 DEF Ready
      <4> QED
        BY <1>5, <1>7, <2>1, <4>1 DEF Nested
    <3> QED
      BY <3>1, <3>2
  <2>2. CASE n = Len(stack)
    BY <1>2, <1>4, <1>5, <1>7, <2>2
  <2>3. CASE n = Len(stack) + 1
    BY <1>2, <1>4, <1>5, <1>7, <2>3
  <2> QED
    BY <1>5, <1>7, <2>1, <2>2, <2>3
<1>11. Top.moved \/ Top.state = connState
  BY <1>2, <1>5 DEF HandlersInv, Truthful
<1>12. Truthful(stack', connState')
  <2> SUFFICES ASSUME NEW n \in 1 .. Len(stack'), stack'[n].op = "notify", ~stack'[n].moved
               PROVE  stack'[n].state = connState
    BY <1>3 DEF Truthful
  <2>1. n # Len(stack) + 1
    BY <1>4, <1>7
  <2>2. n \notin 1 .. Len(stack) - 1
    BY <1>5, <1>7 DEF Ready
  <2> QED
    BY <1>2, <1>5, <1>7, <1>11, <2>1, <2>2
<1>13. ASSUME NEW g \in ToSet(handlers)
       PROVE  told'[g] \in {None, connState} \/ g \in outrun' \/ Pending(g, stack')
  <2>1. g \in Handlers
    BY LenProperties, ElementOfSeq DEF ToSet, Types, HandlerTypes
  <2>2. CASE g = h
    BY <1>2, <1>8, <1>11, <2>2
  <2>3. CASE g # h
    <3>1. told'[g] = told[g] /\ (g \in outrun => g \in outrun')
      BY <1>2, <1>8, <2>1, <2>3
    <3>2. CASE Pending(g, Below)
      BY <1>5, <1>7, <3>2 DEF Pending
    <3>3. CASE g \notin Top.visited
      BY <1>2, <1>5, <1>7, <2>3, <3>3 DEF Pending
    <3> QED
      BY <1>5, <3>1, <3>2, <3>3 DEF HandlersInv
  <2> QED
    BY <2>2, <2>3
<1> QED
  BY <1>3, <1>9, <1>10, <1>12, <1>13 DEF HandlersInv

LEMMA OnStateChangeHandlers ==
    ASSUME Types, HandlersInv, NEW h \in Handlers, OnStateChange(h)
    PROVE  HandlerTypes' /\ HandlersInv'
<1>1. /\ handlers' = Append(handlers, h)
      /\ told' = [told EXCEPT ![h] = None] /\ outrun' = outrun \ {h}
      /\ UNCHANGED <<connState, stack>>
  BY DEF OnStateChange
<1>2. /\ handlers' \in Seq(Handlers) /\ Len(handlers) \in Nat /\ DOMAIN handlers = 1 .. Len(handlers)
      /\ DOMAIN handlers' = 1 .. Len(handlers) + 1
      /\ handlers'[Len(handlers) + 1] = h
      /\ \A i \in 1 .. Len(handlers) : handlers'[i] = handlers[i]
  BY <1>1, Pushed, LenProperties DEF Types, HandlerTypes
<1>3. ToSet(handlers') \subseteq ToSet(handlers) \cup {h}
  BY <1>2 DEF ToSet
<1>4. HandlerTypes'
  BY <1>1, <1>2 DEF Types, HandlerTypes
<1>5. ASSUME NEW g \in ToSet(handlers')
      PROVE  told'[g] \in {None, connState} \/ g \in outrun' \/ Pending(g, stack)
  <2>1. CASE g = h
    BY <1>1, <2>1 DEF Types, HandlerTypes
  <2>2. CASE g # h
    BY <1>1, <1>3, <2>2 DEF HandlersInv, Types, HandlerTypes
  <2> QED
    BY <2>1, <2>2
<1> QED
  BY <1>1, <1>4, <1>5 DEF HandlersInv

\* What a handler that called the client, or one that unsubscribed, leaves of the
\* stack: the same functions, and what they will tell.
SameCalls(frames) ==
    /\ frames \in Seq(Frames) /\ Len(frames) = Len(stack)
    /\ \A n \in 1 .. Len(stack) :
          /\ frames[n].op = stack[n].op
          /\ stack[n].op # "notify" => frames[n] = stack[n]
          /\ stack[n].op = "notify" =>
                /\ frames[n].state = stack[n].state
                /\ frames[n].visited \subseteq stack[n].visited
                /\ stack[n].moved => frames[n].moved

LEMMA SameCallsHandlers ==
    ASSUME ClientTypes, HandlersInv, NEW frames, SameCalls(frames)
    PROVE  /\ Nested(frames) /\ Truthful(frames, connState)
           /\ \A h : Pending(h, stack) => Pending(h, frames)
<1>1. Len(stack) \in Nat
  BY LenProperties DEF ClientTypes
<1>2. Truthful(frames, connState)
  BY <1>1 DEF SameCalls, HandlersInv, Truthful
<1>3. Nested(frames)
  <2> SUFFICES ASSUME NEW n \in 1 .. Len(frames)
               PROVE  /\ frames[n].op = "handler" => n > 1 /\ frames[n - 1].op = "notify"
                      /\ frames[n].op = "notify" /\ n < Len(frames) =>
                            /\ frames[n + 1].op = "handler"
                            /\ frames[n].moved \/ n + 1 = Len(frames)
    BY DEF Nested
  <2>1. n \in 1 .. Len(stack) /\ Len(frames) = Len(stack) /\ frames[n].op = stack[n].op
    BY DEF SameCalls
  <2>2. ASSUME stack[n].op = "handler"
        PROVE  n > 1 /\ frames[n - 1].op = "notify"
    BY <1>1, <2>1, <2>2 DEF SameCalls, HandlersInv, Nested
  <2>3. ASSUME stack[n].op = "notify", n < Len(stack)
        PROVE  /\ frames[n + 1].op = "handler"
               /\ frames[n].moved \/ n + 1 = Len(stack)
    BY <1>1, <2>1, <2>3 DEF SameCalls, HandlersInv, Nested
  <2> QED
    BY <2>1, <2>2, <2>3
<1>4. \A h : Pending(h, stack) => Pending(h, frames)
  BY <1>1 DEF SameCalls, Pending
<1> QED
  BY <1>2, <1>3, <1>4

LEMMA CallerCalls ==
    ASSUME ClientTypes, HandlersInv, Program
    PROVE  SameCalls(Caller) /\ Ready(Caller)
<1>1. CASE Turn
  BY <1>1, EmptySeq DEF Caller, Turn, SameCalls, Ready
<1>2. CASE Running("handler")
  <2> DEFINE m == Len(stack) - 1
             f == [stack[m] EXCEPT !.moved = TRUE]
  <2>1. stack # <<>> /\ stack[Len(stack)].op = "handler" /\ ~Turn
    BY <1>2 DEF Running, Turn, Top
  <2>2. /\ Len(stack) \in Nat \ {0} /\ DOMAIN stack = 1 .. Len(stack)
        /\ \A n \in 1 .. Len(stack) : stack[n] \in Frames
    BY <2>1, EmptySeq, LenProperties, ElementOfSeq DEF ClientTypes
  <2>3. m \in 1 .. Len(stack) - 1 /\ stack[m].op = "notify"
    <3> DEFINE n == Len(stack)
    <3>1. n \in 1 .. Len(stack) /\ stack[n].op = "handler"
      BY <2>1, <2>2
    <3>2. n > 1 /\ stack[n - 1].op = "notify"
      BY <3>1 DEF HandlersInv, Nested
    <3> QED
      BY <2>2, <3>2
  <2>4. stack[m] \in [op : {"notify"}, state : ConnStates, visited : SUBSET Handlers, moved : BOOLEAN]
    BY <2>2, <2>3, FrameFacts
  <2>5. /\ f \in [op : {"notify"}, state : ConnStates, visited : SUBSET Handlers, moved : BOOLEAN]
        /\ f.op = "notify" /\ f.state = stack[m].state /\ f.visited = stack[m].visited
        /\ f.moved = TRUE
    BY <2>4
  <2>6. f \in Frames
    BY <2>5 DEF Frames
  <2>7. Caller = [stack EXCEPT ![m] = f]
    BY <2>1 DEF Caller
  <2> HIDE DEF m, f
  <2>8. /\ Caller \in Seq(Frames) /\ Len(Caller) = Len(stack) /\ Caller[m] = f
        /\ \A n \in 1 .. Len(stack) : n # m => Caller[n] = stack[n]
    BY <2>2, <2>3, <2>6, <2>7, ExceptSeq DEF ClientTypes
  <2>9. SameCalls(Caller)
    BY <2>3, <2>5, <2>8 DEF SameCalls
  <2>10. Len(stack) \in Nat /\ Len(Caller) = Len(stack) /\ m = Len(stack) - 1
    BY <2>2, <2>8 DEF m
  <2>11. Ready(Caller)
    <3> SUFFICES ASSUME NEW n \in 1 .. Len(stack), Caller[n].op = "notify"
                 PROVE  n < Len(stack) /\ Caller[n].moved
      BY <2>10 DEF Ready
    <3>1. n # Len(stack)
      BY <2>1, <2>2, <2>3, <2>8
    <3>2. CASE n = m
      BY <2>2, <2>3, <2>5, <2>8, <3>2
    <3>3. CASE n # m
      <4>1. Caller[n] = stack[n] /\ stack[n].op = "notify"
        BY <2>8, <3>3
      <4>2. n < Len(stack) /\ n + 1 # Len(stack)
        <5>1. n \in Nat /\ n <= Len(stack)
          BY <2>10
        <5> QED
          BY <2>10, <3>1, <3>3, <5>1
      <4>3. stack[n].moved
        BY <4>1, <4>2 DEF HandlersInv, Nested
      <4> QED
        BY <4>1, <4>2, <4>3
    <3> QED
      BY <3>2, <3>3
  <2> QED
    BY <2>9, <2>11
<1> QED
  BY <1>1, <1>2 DEF Program

LEMMA CallHandlers ==
    ASSUME Types, HandlersInv, Call
    PROVE  ClientTypes' /\ HandlerTypes' /\ HandlersInv'
<1>1. SameCalls(Caller) /\ Ready(Caller) /\ UNCHANGED <<handlers, told, outrun>>
  BY CallerCalls DEF Call, Types
<1>2. Caller \in Seq(Frames) /\ ClientTypes' /\ GoesOn(Caller)
  BY <1>1, CallGoesOn DEF Types, SameCalls
<1>3. HandlerTypes'
  BY <1>1 DEF Types, HandlerTypes
<1>4. /\ Nested(Caller) /\ Truthful(Caller, connState)
      /\ \A h : Pending(h, stack) => Pending(h, Caller)
  BY <1>1, SameCallsHandlers DEF Types
<1>5. HandlersInv'
  BY <1>1, <1>2, <1>4, StepHandlers DEF HandlersInv
<1> QED
  BY <1>2, <1>3, <1>5

LEMMA UnsubscribeHandlers ==
    ASSUME Types, HandlersInv, NEW i \in DOMAIN handlers, Unsubscribe(i)
    PROVE  SameCalls(stack') /\ ClientTypes' /\ HandlerTypes' /\ HandlersInv'
<1> DEFINE h == handlers[i]
<1>1. /\ handlers' = RemoveAt(handlers, i)
      /\ stack' = [k \in DOMAIN stack |-> Forget(stack[k], h)]
      /\ UNCHANGED <<connState, clientVars, calls, told, outrun, closed, entangled, interrupted>>
  BY DEF Unsubscribe, historyVars
<1> HIDE DEF h
<1>2. /\ DOMAIN stack = 1 .. Len(stack) /\ Len(stack) \in Nat
      /\ \A n \in 1 .. Len(stack) : stack[n] \in Frames
      /\ DOMAIN handlers = 1 .. Len(handlers)
  BY LenProperties, ElementOfSeq DEF Types, ClientTypes, HandlerTypes
<1>3. ASSUME NEW n \in 1 .. Len(stack)
      PROVE  LET f == Forget(stack[n], h)
             IN  /\ f \in Frames /\ f.op = stack[n].op
                 /\ stack[n].op # "notify" => f = stack[n]
                 /\ stack[n].op = "notify" =>
                       /\ f.state = stack[n].state /\ f.visited \subseteq stack[n].visited
                       /\ stack[n].moved => f.moved
  <2>1. CASE stack[n].op # "notify"
    BY <1>2, <2>1 DEF Forget
  <2>2. CASE stack[n].op = "notify"
    <3> DEFINE f == [stack[n] EXCEPT !.visited = @ \ {h}]
    <3>1. stack[n] \in [op : {"notify"}, state : ConnStates, visited : SUBSET Handlers, moved : BOOLEAN]
      BY <1>2, <2>2, FrameFacts
    <3>2. /\ f \in [op : {"notify"}, state : ConnStates, visited : SUBSET Handlers, moved : BOOLEAN]
          /\ f.op = "notify" /\ f.state = stack[n].state /\ f.moved = stack[n].moved
          /\ f.visited = stack[n].visited \ {h}
      BY <3>1
    <3>3. f \in Frames /\ f = Forget(stack[n], h)
      BY <2>2, <3>2 DEF Frames, Forget
    <3> HIDE DEF f
    <3> QED
      BY <2>2, <3>2, <3>3
  <2> QED
    BY <2>1, <2>2
<1>4. /\ stack' \in Seq(Frames) /\ Len(stack') = Len(stack)
      /\ \A n \in 1 .. Len(stack) : stack'[n] = Forget(stack[n], h)
  <2> DEFINE F(n) == Forget(stack[n], h)
  <2>1. stack' = [n \in 1 .. Len(stack) |-> F(n)] /\ \A n \in 1 .. Len(stack) : F(n) \in Frames
    BY <1>1, <1>2, <1>3
  <2>2. stack' \in [1 .. Len(stack) -> Frames]
    BY <2>1
  <2>3. stack' \in Seq(Frames)
    BY <1>2, <2>2, SeqDef
  <2>4. Len(stack') \in Nat /\ DOMAIN stack' = 1 .. Len(stack')
    BY <2>3, LenProperties
  <2>5. Len(stack') = Len(stack)
    BY <1>2, <2>1, <2>4
  <2> QED
    BY <2>1, <2>3, <2>5
<1>5. SameCalls(stack')
  BY <1>3, <1>4 DEF SameCalls
<1>6. ClientTypes'
  BY <1>1, <1>4 DEF Types, ClientTypes, clientVars
<1>7. handlers' \in Seq(Handlers) /\ ToSet(handlers') \subseteq ToSet(handlers)
  BY <1>1, <1>2, Removed DEF Types, HandlerTypes
<1>8. HandlerTypes'
  BY <1>1, <1>7 DEF Types, HandlerTypes
<1>9. /\ Nested(stack') /\ Truthful(stack', connState)
      /\ \A g : Pending(g, stack) => Pending(g, stack')
  BY <1>5, SameCallsHandlers DEF Types
<1>10. HandlersInv'
  BY <1>1, <1>7, <1>9 DEF HandlersInv
<1> QED
  BY <1>5, <1>6, <1>8, <1>10

-----------------------------------------------------------------------------
(* Sockets, and the rests of functions on the stack *)

\* Above a connect() that has yet to make its socket there are only notifications
\* and handlers.
Settled(frames) ==
    \A i, j \in 1 .. Len(frames) :
        i < j /\ frames[i].op = "create" => frames[j].op \in {"notify", "handler"}

\* Only the event loop fails a connection and makes force attempts.
FromLoop(f) == f.op = "failed" \/ (f.op = "create" /\ f.who = "force")
LoopFirst(frames) == \A i \in 1 .. Len(frames) : FromLoop(frames[i]) => i = 1

\* OneSocketAttended in the middle of functions: a socket that disconnect() closed
\* is let go of, and a connect() makes its socket where there is none.
SocketsInv(frames) ==
    ~entangled =>
        /\ Settled(frames)
        /\ \A s \in Sockets : socket[s] \in Live => Attended(s)
        /\ persistentHandlersRegistered => current # None \/ Holds(frames, {"close", "clear"})
        /\ Holds(frames, {"close"}) => \A s \in Sockets : socket[s] \notin Live
        /\ Holds(frames, {"create"}) =>
              /\ current = None /\ ~persistentHandlersRegistered
              /\ ~Holds(frames, {"close", "clear"})

\* What a failed connection has yet to do schedules no force attempt once a
\* handler connected the client again.
FailureInv(frames) ==
    /\ LoopFirst(frames)
    /\ Holds(frames, {"failed"}) /\ connState # "disconnected" => connectPromise # "force"

\* ClosedStaysSilent in the middle of functions.
SilentInv(frames) ==
    closed /\ ~entangled /\ ~interrupted =>
        /\ \/ connState = "disconnected"
           \/ frames # <<>> /\ frames[Len(frames)].op = "close"
        /\ ~scheduled /\ ~wakeSubscribed
        /\ \A s \in Sockets : socket[s] \notin Live
        /\ ~Holds(frames, {"create", "opened", "schedule"})
        /\ Holds(frames, {"failed"}) => connectPromise # "force"

ClientInv == SocketsInv(stack) /\ FailureInv(stack) /\ SilentInv(stack)

LEMMA HoldsIn ==
    ASSUME NEW frames \in Seq(Frames), NEW ops
    PROVE  Holds(frames, ops) <=> \E i \in 1 .. Len(frames) : frames[i].op \in ops
BY LenProperties DEF Holds

LEMMA HoldsNothing == \A ops : ~Holds(<<>>, ops)
BY DEF Holds

LEMMA NothingSettled == Settled(<<>>) /\ LoopFirst(<<>>)
BY EmptySeq DEF Settled, LoopFirst

\* A frame is pushed on others.
LEMMA PushedFrame ==
    ASSUME NEW frames \in Seq(Frames), NEW f \in Frames
    PROVE  LET more == Append(frames, f)
           IN  /\ \A ops : Holds(more, ops) <=> Holds(frames, ops) \/ f.op \in ops
               /\ Settled(more) <=> /\ Settled(frames)
                                    /\ f.op \in {"notify", "handler"} \/ ~Holds(frames, {"create"})
               /\ LoopFirst(more) <=> LoopFirst(frames) /\ (FromLoop(f) => frames = <<>>)
               /\ more \in Seq(Frames) /\ more # <<>> /\ more[Len(more)] = f
<1> DEFINE more == Append(frames, f)
<1>1. /\ more \in Seq(Frames) /\ Len(more) = Len(frames) + 1 /\ Len(frames) \in Nat
      /\ more[Len(frames) + 1] = f /\ \A i \in 1 .. Len(frames) : more[i] = frames[i]
  BY Pushed, LenProperties
<1>2. more # <<>> /\ (frames = <<>> <=> Len(frames) = 0)
  BY AppendProperties, EmptySeq
<1> HIDE DEF more
<1>3. ASSUME NEW ops
      PROVE  Holds(more, ops) <=> Holds(frames, ops) \/ f.op \in ops
  BY <1>1, HoldsIn
<1>4. Settled(more) <=> Settled(frames) /\ (f.op \in {"notify", "handler"} \/ ~Holds(frames, {"create"}))
  BY <1>1, HoldsIn DEF Settled
<1>5. LoopFirst(more) <=> LoopFirst(frames) /\ (FromLoop(f) => frames = <<>>)
  BY <1>1, <1>2 DEF LoopFirst
<1> QED
  BY <1>1, <1>2, <1>3, <1>4, <1>5 DEF more

LEMMA StackIsPushed ==
    ASSUME ClientTypes, stack # <<>>
    PROVE  Below \in Seq(Frames) /\ Top \in Frames /\ stack = Append(Below, Top)
<1>1. /\ Below \in Seq(Frames) /\ Top \in Frames /\ Len(stack) \in Nat \ {0}
      /\ Len(Below) = Len(stack) - 1 /\ \A i \in 1 .. Len(stack) - 1 : Below[i] = stack[i]
  BY Popped DEF ClientTypes, Below, Top
<1>2. /\ Append(Below, Top) \in Seq(Frames) /\ Len(Append(Below, Top)) = Len(stack)
      /\ Append(Below, Top)[Len(stack)] = Top
      /\ \A i \in 1 .. Len(stack) - 1 : Append(Below, Top)[i] = Below[i]
  BY <1>1, Pushed
<1>3. \A i \in 1 .. Len(stack) : Append(Below, Top)[i] = stack[i]
  BY <1>1, <1>2 DEF Top
<1> QED
  BY <1>1, <1>2, <1>3, SeqEqual DEF ClientTypes

\* A call of connect() that goes on leaves nothing of the old socket, and makes
\* its own only after the notification of 'connecting'.
LEMMA BeginConnectClient ==
    ASSUME ClientTypes, NEW caller \in Seq(Frames), SocketsInv(caller),
           NEW who \in {"program", "force"}, connState = "disconnected", BeginConnect(caller, who)
    PROVE  /\ SocketsInv(stack)'
           /\ ~entangled' => \A s \in Sockets : socket'[s] \notin Live
           /\ connState' = "connecting"
           /\ \A ops : Holds(stack', ops) <=>
                 Holds(caller, ops) \/ "create" \in ops \/ "notify" \in ops
           /\ LoopFirst(caller) /\ (who = "force" => caller = <<>>) => LoopFirst(stack')
<1>1. PICK f \in Frames : /\ f.op = "create" /\ f.who = who
                          /\ stack' = Append(Append(caller, f), Notification("connecting"))
  BY BeginConnectEffect
<1>2. /\ connState' = "connecting" /\ CleanupExistingSocket
      /\ ~entangled' => ~entangled /\ ~Holds(caller, {"create", "close", "clear"})
  BY BeginConnectEffect
<1>3. /\ current' = None
      /\ current = None => UNCHANGED <<socket, wired, persistentHandlersRegistered>>
      /\ current # None => ~persistentHandlersRegistered'
      /\ \A s \in Sockets : socket'[s] = IF s = current THEN "closed" ELSE socket[s]
  BY <1>2, CleanupEffect
<1> DEFINE more == Append(caller, f)
           n == Notification("connecting")
<1>4. n \in Frames /\ n.op = "notify"
  BY FrameFacts DEF ConnStates
<1>5. /\ \A ops : Holds(more, ops) <=> Holds(caller, ops) \/ f.op \in ops
      /\ Settled(more) <=> Settled(caller) /\ (f.op \in {"notify", "handler"} \/ ~Holds(caller, {"create"}))
      /\ LoopFirst(more) <=> LoopFirst(caller) /\ (FromLoop(f) => caller = <<>>)
      /\ more \in Seq(Frames)
  BY PushedFrame
<1> HIDE DEF n, more
<1>6. /\ \A ops : Holds(stack', ops) <=> Holds(more, ops) \/ n.op \in ops
      /\ Settled(stack') <=> Settled(more) /\ (n.op \in {"notify", "handler"} \/ ~Holds(more, {"create"}))
      /\ LoopFirst(stack') <=> LoopFirst(more) /\ (FromLoop(n) => more = <<>>)
  BY <1>1, <1>4, <1>5, PushedFrame DEF more, n
<1>7. \A ops : Holds(stack', ops) <=> Holds(caller, ops) \/ "create" \in ops \/ "notify" \in ops
  BY <1>1, <1>4, <1>5, <1>6
<1>8. LoopFirst(caller) /\ (who = "force" => caller = <<>>) => LoopFirst(stack')
  <2>1. ~FromLoop(n) /\ (FromLoop(f) => who = "force")
    BY <1>1, <1>4 DEF FromLoop
  <2> QED
    BY <1>5, <1>6, <2>1
<1>9. ASSUME ~entangled'
      PROVE  /\ Settled(stack') /\ ~persistentHandlersRegistered'
             /\ \A s \in Sockets : socket'[s] \notin Live
             /\ ~Holds(stack', {"close"}) /\ ~Holds(stack', {"close", "clear"})
  <2>1. ~entangled /\ ~Holds(caller, {"create", "close", "clear"})
    BY <1>2, <1>9
  <2>2. /\ ~Holds(caller, {"create"}) /\ ~Holds(caller, {"close", "clear"})
        /\ ~Holds(caller, {"close"})
    BY <2>1, HoldsIn
  <2>3. Settled(stack')
    BY <1>4, <1>5, <1>6, <2>1, <2>2 DEF SocketsInv
  <2>4. ~persistentHandlersRegistered'
    BY <1>3, <2>1, <2>2 DEF SocketsInv, ClientTypes
  <2>5. \A s \in Sockets : socket'[s] \notin Live
    BY <1>3, <2>1 DEF SocketsInv, Attended, Live
  <2> QED
    BY <1>7, <2>2, <2>3, <2>4, <2>5
<1>10. SocketsInv(stack)'
  BY <1>3, <1>9 DEF SocketsInv
<1> QED
  BY <1>2, <1>7, <1>8, <1>9, <1>10

\* disconnect() closes the socket before anything of it can go on.
LEMMA DisconnectClient ==
    ASSUME ClientTypes, NEW caller \in Seq(Frames), SocketsInv(caller), FailureInv(caller),
           connState # "disconnected", Disconnect(caller), UNCHANGED entangled
    PROVE  ClientInv'
<1>1. /\ \A s \in Sockets : socket'[s] = IF s = current THEN "closed" ELSE socket[s]
      /\ ~scheduled' /\ ~wakeSubscribed'
      /\ ~interrupted' => ~Holds(caller, {"create", "opened", "schedule"})
      /\ UNCHANGED <<current, persistentHandlersRegistered, wired, connectPromise>>
  BY DisconnectEffect
<1> DEFINE c == Rest("close")
           n == Notification("disconnected")
           more == Append(caller, c)
<1>2. c \in Frames /\ n \in Frames /\ c.op = "close" /\ n.op = "notify"
  BY FrameFacts DEF Rests, ConnStates
<1>3. ~FromLoop(c) /\ ~FromLoop(n)
  BY <1>2 DEF FromLoop
<1>4. \/ current = None /\ connState' = "disconnected" /\ stack' = Append(caller, n)
      \/ current # None /\ connState' = connState /\ stack' = more
      \/ current # None /\ connState' = "disconnected" /\ stack' = Append(more, n)
  BY DisconnectEffect
<1> HIDE DEF c, n
<1>5. /\ \A ops : Holds(more, ops) <=> Holds(caller, ops) \/ c.op \in ops
      /\ Settled(more) <=> Settled(caller) /\ (c.op \in {"notify", "handler"} \/ ~Holds(caller, {"create"}))
      /\ LoopFirst(more) <=> LoopFirst(caller) /\ (FromLoop(c) => caller = <<>>)
      /\ more \in Seq(Frames) /\ more # <<>> /\ more[Len(more)] = c
  BY <1>2, PushedFrame
<1> HIDE DEF more
<1>6. /\ \A ops : Holds(stack', ops) <=>
            \/ Holds(caller, ops)
            \/ "close" \in ops /\ current # None
            \/ "notify" \in ops /\ connState' = "disconnected"
      /\ Settled(stack') <=> Settled(caller) /\ (current = None \/ ~Holds(caller, {"create"}))
      /\ LoopFirst(stack') <=> LoopFirst(caller)
      /\ connState' = "disconnected" \/ (stack' # <<>> /\ stack'[Len(stack')].op = "close")
  <2>1. CASE current = None /\ connState' = "disconnected" /\ stack' = Append(caller, n)
    <3>1. /\ \A ops : Holds(stack', ops) <=> Holds(caller, ops) \/ n.op \in ops
          /\ Settled(stack') <=> Settled(caller) /\ (n.op \in {"notify", "handler"} \/ ~Holds(caller, {"create"}))
          /\ LoopFirst(stack') <=> LoopFirst(caller) /\ (FromLoop(n) => caller = <<>>)
      BY <1>2, <2>1, PushedFrame
    <3> QED
      BY <1>2, <1>3, <2>1, <3>1
  <2>2. CASE current # None /\ connState' = connState /\ stack' = more
    BY <1>2, <1>3, <1>5, <2>2
  <2>3. CASE current # None /\ connState' = "disconnected" /\ stack' = Append(more, n)
    <3>1. /\ \A ops : Holds(stack', ops) <=> Holds(more, ops) \/ n.op \in ops
          /\ Settled(stack') <=> Settled(more) /\ (n.op \in {"notify", "handler"} \/ ~Holds(more, {"create"}))
          /\ LoopFirst(stack') <=> LoopFirst(more) /\ (FromLoop(n) => more = <<>>)
      BY <1>2, <1>5, <2>3, PushedFrame
    <3> QED
      BY <1>2, <1>3, <1>5, <2>3, <3>1
  <2> QED
    BY <1>4, <2>1, <2>2, <2>3
<1>7. ASSUME ~entangled'
      PROVE  \A s \in Sockets : socket'[s] \notin Live
  BY <1>1, <1>7 DEF SocketsInv, Attended, Live
<1>8. SocketsInv(stack)'
  <2> SUFFICES ASSUME ~entangled'
               PROVE  SocketsInv(stack)'
    BY DEF SocketsInv
  <2>1. /\ Settled(stack')
        /\ persistentHandlersRegistered' =>
              current' # None \/ Holds(stack', {"close", "clear"})
    BY <1>1, <1>6 DEF SocketsInv
  <2>2. Holds(stack', {"create"}) => /\ current' = None /\ ~persistentHandlersRegistered'
                                     /\ ~Holds(stack', {"close", "clear"})
    BY <1>1, <1>6 DEF SocketsInv
  <2> QED
    BY <1>7, <2>1, <2>2 DEF SocketsInv
<1>9. FailureInv(stack)' /\ (Holds(stack', {"failed"}) => connectPromise' # "force")
  BY <1>1, <1>6 DEF FailureInv
<1>10. SilentInv(stack)'
  <2> SUFFICES ASSUME ~entangled', ~interrupted'
               PROVE  /\ \A s \in Sockets : socket'[s] \notin Live
                      /\ ~Holds(stack', {"create", "opened", "schedule"})
    BY <1>1, <1>6, <1>9 DEF SilentInv
  <2> QED
    BY <1>1, <1>6, <1>7
<1> QED
  BY <1>8, <1>9, <1>10 DEF ClientInv

LEMMA CallClient ==
    ASSUME ClientTypes, Caller \in Seq(Frames), Call,
           SocketsInv(Caller), FailureInv(Caller), SilentInv(Caller)
    PROVE  ClientInv'
<1>1. CASE /\ stack' = Caller
           /\ UNCHANGED <<connState, clientVars, closed, entangled, interrupted>>
  <2>1. SocketsInv(stack)'
    BY <1>1 DEF SocketsInv, Attended, clientVars
  <2>2. FailureInv(stack)'
    BY <1>1 DEF FailureInv, clientVars
  <2>3. SilentInv(stack)'
    BY <1>1 DEF SilentInv, clientVars
  <2> QED
    BY <2>1, <2>2, <2>3 DEF ClientInv
<1>2. CASE /\ connState = "disconnected" /\ connectPromise = None
           /\ BeginConnect(Caller, "program")
           /\ ~closed' /\ UNCHANGED interrupted
  <2>1. SocketsInv(stack)' /\ LoopFirst(stack')
    BY <1>2, BeginConnectClient DEF FailureInv
  <2>2. connectPromise' # "force"
    BY <1>2, BeginConnectEffect DEF None
  <2> QED
    BY <1>2, <2>1, <2>2 DEF ClientInv, FailureInv, SilentInv
<1>3. CASE connState # "disconnected" /\ Disconnect(Caller) /\ UNCHANGED entangled
  BY <1>3, DisconnectClient
<1> QED
  BY <1>1, <1>2, <1>3, CallEffect

\* The client does not tell stacks of the same functions apart.
LEMMA SameCallsClient ==
    ASSUME ClientTypes, ClientInv, NEW frames, SameCalls(frames)
    PROVE  SocketsInv(frames) /\ FailureInv(frames) /\ SilentInv(frames)
<1>1. /\ Len(stack) \in Nat /\ Len(frames) = Len(stack) /\ frames \in Seq(Frames)
      /\ \A n \in 1 .. Len(stack) :
            frames[n].op = stack[n].op /\ (stack[n].op # "notify" => frames[n] = stack[n])
  BY LenProperties DEF ClientTypes, SameCalls
<1>2. \A ops : Holds(frames, ops) <=> Holds(stack, ops)
  BY <1>1, HoldsIn DEF ClientTypes
<1>3. Settled(frames) <=> Settled(stack)
  BY <1>1 DEF Settled
<1>4. LoopFirst(frames) <=> LoopFirst(stack)
  BY <1>1 DEF LoopFirst, FromLoop
<1>5. stack # <<>> /\ stack[Len(stack)].op = "close" =>
         frames # <<>> /\ frames[Len(frames)].op = "close"
  BY <1>1, EmptySeq DEF ClientTypes
<1> QED
  BY <1>2, <1>3, <1>4, <1>5 DEF ClientInv, SocketsInv, FailureInv, SilentInv

LEMMA TellHandlerClient ==
    ASSUME Types, ClientInv, TellHandler
    PROVE  ClientInv'
<1>1. PICK f \in Frames :
         /\ stack # <<>> /\ Top.op = "notify" /\ f.op = "notify"
         /\ stack' = Append(Append(Below, f), Rest("handler"))
  BY TellHandlerGoesOn
<1> DEFINE r == Rest("handler")
           one == Append(Below, f)
<1>2. r \in Frames /\ r.op = "handler"
  BY FrameFacts
<1> HIDE DEF r
<1>3. Below \in Seq(Frames) /\ Top \in Frames /\ stack = Append(Below, Top)
  BY <1>1, StackIsPushed DEF Types
<1>4. ~FromLoop(f) /\ ~FromLoop(Top) /\ ~FromLoop(r)
  BY <1>1, <1>2 DEF FromLoop
<1>5. /\ \A ops : Holds(stack, ops) <=> Holds(Below, ops) \/ Top.op \in ops
      /\ Settled(stack) <=>
            Settled(Below) /\ (Top.op \in {"notify", "handler"} \/ ~Holds(Below, {"create"}))
      /\ LoopFirst(stack) <=> LoopFirst(Below) /\ (FromLoop(Top) => Below = <<>>)
      /\ stack[Len(stack)] = Top
  BY <1>3, PushedFrame
<1>6. /\ \A ops : Holds(one, ops) <=> Holds(Below, ops) \/ f.op \in ops
      /\ Settled(one) <=>
            Settled(Below) /\ (f.op \in {"notify", "handler"} \/ ~Holds(Below, {"create"}))
      /\ LoopFirst(one) <=> LoopFirst(Below) /\ (FromLoop(f) => Below = <<>>)
      /\ one \in Seq(Frames)
  BY <1>1, <1>3, PushedFrame
<1> HIDE DEF one
<1>7. stack' = Append(one, r)
  BY <1>1 DEF one, r
<1>8. /\ \A ops : Holds(stack', ops) <=> Holds(one, ops) \/ r.op \in ops
      /\ Settled(stack') <=>
            Settled(one) /\ (r.op \in {"notify", "handler"} \/ ~Holds(one, {"create"}))
      /\ LoopFirst(stack') <=> LoopFirst(one) /\ (FromLoop(r) => one = <<>>)
  BY <1>2, <1>6, <1>7, PushedFrame
<1>9. /\ \A ops : {"notify", "handler"} \cap ops = {} => (Holds(stack', ops) <=> Holds(stack, ops))
      /\ Settled(stack') <=> Settled(stack)
      /\ LoopFirst(stack') <=> LoopFirst(stack)
  BY <1>1, <1>2, <1>4, <1>5, <1>6, <1>8
<1>10. UNCHANGED <<connState, clientVars, closed, entangled, interrupted>>
  BY DEF TellHandler
<1>11. SocketsInv(stack)'
  BY <1>9, <1>10 DEF ClientInv, SocketsInv, Attended, clientVars
<1>12. FailureInv(stack)'
  BY <1>9, <1>10 DEF ClientInv, FailureInv, clientVars
<1>13. SilentInv(stack)'
  BY <1>1, <1>5, <1>9, <1>10 DEF ClientInv, SilentInv, clientVars
<1> QED
  BY <1>11, <1>12, <1>13 DEF ClientInv

LEMMA FrameEndsClient ==
    ASSUME ClientTypes, ClientInv, FrameEnds
    PROVE  ClientInv'
<1>1. stack # <<>>
  BY DEF FrameEnds, Return, Create, Close, Clear, Opened, Failed, Schedule, Running, Turn
<1>2. Below \in Seq(Frames) /\ Top \in Frames /\ stack = Append(Below, Top)
  BY <1>1, StackIsPushed
<1>3. /\ \A ops : Holds(stack, ops) <=> Holds(Below, ops) \/ Top.op \in ops
      /\ Settled(stack) <=> Settled(Below) /\ (Top.op \in {"notify", "handler"} \/ ~Holds(Below, {"create"}))
      /\ LoopFirst(stack) <=> LoopFirst(Below) /\ (FromLoop(Top) => Below = <<>>)
      /\ stack[Len(stack)] = Top
  BY <1>2, PushedFrame
<1>4. /\ LoopFirst(Below)
      /\ ~entangled => Settled(Below)
      /\ ~entangled /\ Top.op \notin {"notify", "handler"} => ~Holds(Below, {"create"})
  BY <1>3 DEF ClientInv, SocketsInv, FailureInv
<1>5. CASE Return
  <2>1. /\ stack' = Below /\ Top.op \in {"notify", "handler"}
        /\ UNCHANGED <<connState, clientVars, historyVars>>
    BY <1>5 DEF Return, Running
  <2>2. \A ops : Holds(stack', ops) <=> Holds(Below, ops)
    BY <2>1
  <2>3. SocketsInv(stack)'
    <3>1. \A ops : {"notify", "handler"} \cap ops = {} => (Holds(stack', ops) <=> Holds(stack, ops))
      BY <1>3, <2>1, <2>2
    <3> QED
      BY <1>4, <2>1, <3>1 DEF ClientInv, SocketsInv, Attended, clientVars, historyVars
  <2>4. FailureInv(stack)'
    BY <1>3, <1>4, <2>1 DEF ClientInv, FailureInv, clientVars
  <2>5. SilentInv(stack)'
    BY <1>3, <2>1 DEF ClientInv, SilentInv, clientVars, historyVars
  <2> QED
    BY <2>3, <2>4, <2>5 DEF ClientInv
<1>6. CASE Create
  <2>1. PICK s \in Sockets :
           /\ socket' = [socket EXCEPT ![s] = "opening"]
           /\ current' = s
           /\ wired' = IF persistentHandlersRegistered THEN wired ELSE wired \cup {s}
    BY <1>6 DEF Create
  <2>2. /\ Top.op = "create" /\ stack' = Below /\ persistentHandlersRegistered'
        /\ connectPromise' = Top.who
        /\ UNCHANGED <<connState, scheduled, wakeSubscribed, closed, entangled, interrupted>>
    BY <1>6 DEF Create, Running, historyVars
  <2>3. Holds(stack, {"create"}) /\ Holds(stack, {"create", "opened", "schedule"})
    BY <1>3, <2>2
  <2>4. SocketsInv(stack)'
    <3> SUFFICES ASSUME ~entangled'
                 PROVE  SocketsInv(stack)'
      BY DEF SocketsInv
    <3>1. /\ current = None /\ ~persistentHandlersRegistered
          /\ ~Holds(stack, {"close", "clear"})
          /\ \A r \in Sockets : socket[r] \notin Live
      BY <2>2, <2>3, StateHandlersAssumption DEF ClientInv, SocketsInv, Attended
    <3>2. ~Holds(stack', {"close"}) /\ ~Holds(stack', {"create"}) /\ Settled(stack')
      <4>1. ~Holds(Below, {"close", "clear"})
        BY <1>3, <3>1
      <4>2. ~Holds(Below, {"close"})
        BY <1>2, <4>1, HoldsIn
      <4> QED
        BY <1>4, <2>2, <4>2
    <3>3. \A r \in Sockets : socket'[r] \in Live => r = current' /\ r \in wired'
      BY <2>1, <3>1 DEF ClientTypes, Live
    <3>4. current' # None
      BY <2>1, StateHandlersAssumption
    <3> QED
      BY <3>2, <3>3, <3>4 DEF SocketsInv, Attended
  <2>5. FailureInv(stack)'
    <3>1. ASSUME Holds(Below, {"failed"})
          PROVE  Top.who # "force"
      <4>1. Below # <<>>
        BY <3>1, HoldsNothing
      <4> QED
        BY <1>3, <2>2, <4>1 DEF ClientInv, FailureInv, FromLoop
    <3> QED
      BY <1>4, <2>2, <3>1 DEF FailureInv
  <2>6. SilentInv(stack)'
    BY <2>2, <2>3 DEF ClientInv, SilentInv
  <2> QED
    BY <2>4, <2>5, <2>6 DEF ClientInv
<1>7. CASE Close
  <2> DEFINE c == Rest("clear")
             n == Notification("disconnected")
             rest == Append(Below, c)
  <2>1. /\ Top.op = "close" /\ current' = None /\ SetState("disconnected", rest, Below)
        /\ UNCHANGED <<socket, persistentHandlersRegistered, wired, connectPromise, scheduled,
                       wakeSubscribed, closed, entangled, interrupted>>
    BY <1>7 DEF Close, Running, historyVars
  <2>2. c \in Frames /\ n \in Frames /\ c.op = "clear" /\ n.op = "notify"
    BY FrameFacts DEF Rests, ConnStates
  <2>3. ~FromLoop(c) /\ ~FromLoop(n)
    BY <2>2 DEF FromLoop
  <2> HIDE DEF c
  <2>4. /\ \A ops : Holds(rest, ops) <=> Holds(Below, ops) \/ c.op \in ops
        /\ Settled(rest) <=> Settled(Below) /\ (c.op \in {"notify", "handler"} \/ ~Holds(Below, {"create"}))
        /\ LoopFirst(rest) <=> LoopFirst(Below) /\ (FromLoop(c) => Below = <<>>)
        /\ rest \in Seq(Frames)
    BY <1>2, <2>2, PushedFrame
  <2> HIDE DEF rest
  <2>5. /\ connState' = "disconnected"
        /\ stack' = rest \/ stack' = Append(rest, n)
    BY <2>1, SetStateEffect DEF ClientTypes, ConnStates
  <2> HIDE DEF n
  <2>6. /\ \A ops : "notify" \notin ops => (Holds(stack', ops) <=> Holds(Below, ops) \/ "clear" \in ops)
        /\ Settled(stack') <=> Settled(Below) /\ ~Holds(Below, {"create"})
        /\ LoopFirst(stack') <=> LoopFirst(Below)
    <3>1. CASE stack' = rest
      BY <2>2, <2>3, <2>4, <3>1
    <3>2. CASE stack' = Append(rest, n)
      <4>1. /\ \A ops : Holds(stack', ops) <=> Holds(rest, ops) \/ n.op \in ops
            /\ Settled(stack') <=> Settled(rest) /\ (n.op \in {"notify", "handler"} \/ ~Holds(rest, {"create"}))
            /\ LoopFirst(stack') <=> LoopFirst(rest) /\ (FromLoop(n) => rest = <<>>)
        BY <2>2, <2>4, <3>2, PushedFrame
      <4> QED
        BY <2>2, <2>3, <2>4, <4>1
    <3> QED
      BY <2>5, <3>1, <3>2
  <2>7. SocketsInv(stack)'
    <3> SUFFICES ASSUME ~entangled'
                 PROVE  SocketsInv(stack)'
      BY DEF SocketsInv
    <3>1. ~Holds(Below, {"create"}) /\ \A s \in Sockets : socket'[s] \notin Live
      BY <1>3, <1>4, <2>1 DEF ClientInv, SocketsInv
    <3>2. Settled(stack') /\ Holds(stack', {"close", "clear"}) /\ ~Holds(stack', {"create"})
      BY <1>4, <2>1, <2>6, <3>1
    <3> QED
      BY <3>1, <3>2 DEF SocketsInv
  <2>8. FailureInv(stack)'
    BY <1>4, <2>5, <2>6 DEF FailureInv
  <2>9. SilentInv(stack)'
    BY <1>3, <2>1, <2>5, <2>6 DEF ClientInv, SilentInv
  <2> QED
    BY <2>7, <2>8, <2>9 DEF ClientInv
<1>8. CASE Clear \/ Opened \/ Failed \/ Schedule
  <2>1. stack' = Below /\ Top.op \notin {"notify", "handler"} /\ Top.op # "close" /\ Top.op # "create"
    BY <1>8 DEF Clear, Opened, Failed, Schedule, Running
  <2>2. \A ops : Holds(stack', ops) <=> Holds(Below, ops)
    BY <2>1
  <2>3. /\ \A ops : Holds(Below, ops) => Holds(stack, ops)
        /\ connState' = connState /\ UNCHANGED <<closed, entangled, interrupted>>
    BY <1>3, <1>8 DEF Clear, Opened, Failed, Schedule, historyVars
  <2>4. /\ Settled(stack') \/ entangled
        /\ LoopFirst(stack')
        /\ ~Holds(stack', {"create"}) \/ entangled
    BY <1>4, <2>1
  <2>5. CASE Clear
    <3>1. /\ ~persistentHandlersRegistered'
          /\ UNCHANGED <<socket, current, wired, connectPromise, scheduled, wakeSubscribed>>
      BY <2>5 DEF Clear
    <3>2. SocketsInv(stack)'
      BY <2>2, <2>3, <2>4, <3>1 DEF ClientInv, SocketsInv, Attended
    <3>3. FailureInv(stack)'
      BY <2>2, <2>3, <2>4, <3>1 DEF ClientInv, FailureInv
    <3>4. SilentInv(stack)'
      BY <1>3, <2>1, <2>2, <2>3, <3>1 DEF ClientInv, SilentInv
    <3> QED
      BY <3>2, <3>3, <3>4 DEF ClientInv
  <2>6. CASE Opened \/ Schedule
    <3>1. /\ UNCHANGED <<socket, current, wired, persistentHandlersRegistered>>
          /\ connectPromise' \in {None, connectPromise}
          /\ Top.op \in {"opened", "schedule"}
      BY <2>6 DEF Opened, Schedule, Running
    <3>2. \A ops : ops \cap {"opened", "schedule"} = {} => (Holds(stack', ops) <=> Holds(stack, ops))
      BY <1>3, <2>2, <3>1
    <3>3. Holds(stack, {"create", "opened", "schedule"})
      BY <1>3, <3>1
    <3>4. SocketsInv(stack)'
      BY <2>3, <2>4, <3>1, <3>2 DEF ClientInv, SocketsInv, Attended
    <3>5. FailureInv(stack)'
      BY <2>3, <2>4, <3>1, <3>2 DEF ClientInv, FailureInv, None
    <3>6. SilentInv(stack)'
      BY <2>3, <3>3 DEF ClientInv, SilentInv
    <3> QED
      BY <3>4, <3>5, <3>6 DEF ClientInv
  <2>7. CASE Failed
    <3>1. /\ Top.op = "failed" /\ CleanupExistingSocket
          /\ scheduled' = (scheduled \/ connectPromise = "force")
          /\ connectPromise' = None /\ UNCHANGED wakeSubscribed
      BY <2>7 DEF Failed, Running
    <3>2. /\ current' = None
          /\ current = None => UNCHANGED <<socket, wired, persistentHandlersRegistered>>
          /\ current # None => ~persistentHandlersRegistered'
          /\ \A s \in Sockets : socket'[s] = IF s = current THEN "closed" ELSE socket[s]
      BY <3>1, CleanupEffect
    <3>3. \A ops : "failed" \notin ops => (Holds(stack', ops) <=> Holds(stack, ops))
      BY <1>3, <2>2, <3>1
    <3>4. SocketsInv(stack)'
      <4> SUFFICES ASSUME ~entangled'
                   PROVE  SocketsInv(stack)'
        BY DEF SocketsInv
      <4>1. \A s \in Sockets : socket'[s] \notin Live
        BY <2>3, <3>2 DEF ClientInv, SocketsInv, Attended, Live
      <4>2. persistentHandlersRegistered' => Holds(stack', {"close", "clear"})
        BY <2>3, <3>2, <3>3 DEF ClientInv, SocketsInv
      <4> QED
        BY <2>3, <2>4, <4>1, <4>2 DEF SocketsInv
    <3>5. FailureInv(stack)'
      BY <2>4, <3>1 DEF FailureInv, None
    <3>6. SilentInv(stack)'
      <4> SUFFICES ASSUME closed', ~entangled', ~interrupted'
                   PROVE  /\ connState' = "disconnected"
                          /\ ~scheduled' /\ ~wakeSubscribed'
                          /\ \A s \in Sockets : socket'[s] \notin Live
                          /\ ~Holds(stack', {"create", "opened", "schedule"})
        BY <3>1 DEF SilentInv, None
      <4>1. Holds(stack, {"failed"})
        BY <1>3, <3>1
      <4>2. /\ connState' = "disconnected"
            /\ ~scheduled /\ ~wakeSubscribed /\ connectPromise # "force"
            /\ \A s \in Sockets : socket[s] \notin Live
            /\ ~Holds(stack, {"create", "opened", "schedule"})
        BY <1>3, <2>1, <2>3, <4>1 DEF ClientInv, SilentInv
      <4> QED
        BY <2>2, <2>3, <3>1, <3>2, <4>2 DEF Live, ClientTypes
    <3> QED
      BY <3>4, <3>5, <3>6 DEF ClientInv
  <2> QED
    BY <1>8, <2>5, <2>6, <2>7
<1> QED
  BY <1>5, <1>6, <1>7, <1>8 DEF FrameEnds

\* What the event loop pushes: the rest of one function and a notification.
LEMMA LoopPushes ==
    ASSUME NEW op \in {"opened", "failed", "schedule"}, NEW new \in ConnStates,
           NEW pushed \in {<<>>, <<Rest(op)>>, Append(<<>>, Notification(new)),
                           Append(<<Rest(op)>>, Notification(new))}
    PROVE  /\ Settled(pushed) /\ LoopFirst(pushed)
           /\ \A ops : {op, "notify"} \cap ops = {} => ~Holds(pushed, ops)
<1> DEFINE r == Rest(op)
           n == Notification(new)
<1>1. r \in Frames /\ n \in Frames /\ r.op = op /\ n.op = "notify"
  BY FrameFacts DEF Rests
<1>2. <<>> \in Seq(Frames) /\ <<Rest(op)>> = Append(<<>>, r)
  BY EmptySeq
<1> HIDE DEF r, n
<1>3. ~FromLoop(n)
  BY <1>1 DEF FromLoop
<1>4. ASSUME NEW f \in Frames, f.op # "create"
      PROVE  /\ \A ops : Holds(Append(<<>>, f), ops) <=> f.op \in ops
             /\ Settled(Append(<<>>, f)) /\ LoopFirst(Append(<<>>, f))
             /\ Append(<<>>, f) \in Seq(Frames)
  BY <1>2, PushedFrame, HoldsNothing, NothingSettled
<1> DEFINE two == Append(Append(<<>>, r), n)
<1>5. /\ \A ops : Holds(two, ops) <=> r.op \in ops \/ n.op \in ops
      /\ Settled(two) /\ LoopFirst(two)
  <2>1. /\ Append(<<>>, r) \in Seq(Frames) /\ Settled(Append(<<>>, r)) /\ LoopFirst(Append(<<>>, r))
        /\ \A ops : Holds(Append(<<>>, r), ops) <=> r.op \in ops
    BY <1>1, <1>4
  <2> DEFINE one == Append(<<>>, r)
  <2> HIDE DEF one
  <2>2. /\ \A ops : Holds(Append(one, n), ops) <=> Holds(one, ops) \/ n.op \in ops
        /\ Settled(Append(one, n)) <=> Settled(one) /\ (n.op \in {"notify", "handler"} \/ ~Holds(one, {"create"}))
        /\ LoopFirst(Append(one, n)) <=> LoopFirst(one) /\ (FromLoop(n) => one = <<>>)
    BY <1>1, <2>1, PushedFrame DEF one
  <2> QED
    BY <1>1, <1>3, <2>1, <2>2 DEF one
<1>6. pushed \in {<<>>, Append(<<>>, r), Append(<<>>, n), two}
  BY <1>2 DEF r, n
<1> HIDE DEF two
<1>7. CASE pushed = <<>>
  BY <1>7, HoldsNothing, NothingSettled
<1>8. CASE pushed = Append(<<>>, r)
  BY <1>1, <1>4, <1>8
<1>9. CASE pushed = Append(<<>>, n)
  BY <1>1, <1>4, <1>9
<1>10. CASE pushed = two
  BY <1>1, <1>5, <1>10
<1> QED
  BY <1>6, <1>7, <1>8, <1>9, <1>10

LEMMA EventClient ==
    ASSUME ClientTypes, ClientInv, NEW s \in Sockets, NEW from \in SUBSET Live,
           NEW to \in SocketStates, NEW heeded, NEW new \in ConnStates,
           NEW op \in {"opened", "failed", "schedule"}, NEW rest \in {<<>>, <<Rest(op)>>},
           op = "failed" => new = "disconnected",
           Event(s, from, to, heeded, new, rest)
    PROVE  ClientInv'
<1>1. /\ stack = <<>> /\ socket[s] \in Live
      /\ socket' = [socket EXCEPT ![s] = to]
      /\ SetState(new, rest, <<>>) \/ UNCHANGED <<connState, stack>>
      /\ UNCHANGED <<current, persistentHandlersRegistered, wired, connectPromise, scheduled,
                     wakeSubscribed, closed, entangled, interrupted>>
  BY DEF Event, Turn, historyVars
<1>2. \/ connState' = connState /\ stack' \in {rest, <<>>}
      \/ connState' = new /\ stack' = Append(rest, Notification(new))
  BY <1>1, SetStateEffect DEF ClientTypes
<1>3. stack' = <<>> \/ (op = "failed" => connState' = "disconnected")
  BY <1>1, SetStateEffect DEF ClientTypes
<1>4. stack' \in {<<>>, <<Rest(op)>>, Append(<<>>, Notification(new)),
                  Append(<<Rest(op)>>, Notification(new))}
  BY <1>2
<1>5. /\ Settled(stack') /\ LoopFirst(stack')
      /\ \A ops : {op, "notify"} \cap ops = {} => ~Holds(stack', ops)
  BY <1>4, LoopPushes
<1>6. /\ ~Holds(stack', {"close"}) /\ ~Holds(stack', {"close", "clear"})
      /\ ~Holds(stack', {"create"})
      /\ op # "failed" => ~Holds(stack', {"failed"})
      /\ \A ops : ~Holds(stack, ops)
  BY <1>1, <1>5, HoldsNothing
<1>7. SocketsInv(stack)'
  <2>1. ASSUME ~entangled
        PROVE  /\ \A r \in Sockets : socket'[r] \in Live => r = current /\ r \in wired
               /\ persistentHandlersRegistered => current # None
    BY <1>1, <1>6, <2>1 DEF ClientInv, SocketsInv, Attended, ClientTypes
  <2> QED
    BY <1>1, <1>5, <1>6, <2>1 DEF SocketsInv, Attended
<1>8. FailureInv(stack)'
  BY <1>3, <1>5, <1>6, HoldsNothing DEF FailureInv
<1>9. SilentInv(stack)'
  BY <1>1 DEF ClientInv, SilentInv
<1> QED
  BY <1>7, <1>8, <1>9 DEF ClientInv

LEMMA LoopTurnsClient ==
    ASSUME ClientTypes, ClientInv, LoopTurns
    PROVE  ClientInv'
<1>0. /\ <<>> \in Seq(Frames) /\ stack = <<>>
      /\ SocketsInv(<<>>) /\ FailureInv(<<>>) /\ SilentInv(<<>>)
  BY EmptySeq, LoopTurnsGoesOn DEF ClientInv
<1>2. CASE ForceTimer
  <2>0. scheduled /\ UNCHANGED <<closed, interrupted>>
    BY <1>2 DEF ForceTimer
  <2>1. SilentInv(stack)'
    <3>1. ~entangled' => ~entangled
      BY <1>0, <1>2, BeginConnectEffect DEF ForceTimer
    <3> QED
      BY <2>0, <3>1 DEF ClientInv, SilentInv
  <2>2. CASE UNCHANGED <<connState, stack, socket, current, persistentHandlersRegistered, wired,
                         connectPromise, entangled>>
    <3>1. SocketsInv(stack)' /\ FailureInv(stack)'
      BY <2>2 DEF ClientInv, SocketsInv, FailureInv, Attended
    <3> QED
      BY <2>1, <3>1 DEF ClientInv
  <2>3. CASE connState = "disconnected" /\ BeginConnect(<<>>, "force")
    <3>1. SocketsInv(stack)' /\ LoopFirst(stack')
      BY <1>0, <2>3, BeginConnectClient, NothingSettled
    <3>2. ~Holds(stack', {"failed"})
      BY <1>0, <2>3, BeginConnectClient, HoldsNothing
    <3> QED
      BY <2>1, <3>1, <3>2 DEF ClientInv, FailureInv
  <2>4. CASE CleanupExistingSocket /\ UNCHANGED <<connState, stack, connectPromise, entangled>>
    <3>1. /\ current' = None
          /\ current = None => UNCHANGED <<socket, wired, persistentHandlersRegistered>>
          /\ current # None => ~persistentHandlersRegistered'
          /\ \A s \in Sockets : socket'[s] = IF s = current THEN "closed" ELSE socket[s]
      BY <2>4, CleanupEffect
    <3>2. SocketsInv(stack)'
      <4>1. ~entangled => /\ \A s \in Sockets : socket'[s] \notin Live
                          /\ ~persistentHandlersRegistered'
        BY <1>0, <3>1, HoldsNothing DEF SocketsInv, Attended, Live, ClientTypes
      <4> QED
        BY <1>0, <2>4, <3>1, <4>1, HoldsNothing, NothingSettled DEF SocketsInv
    <3>3. FailureInv(stack)'
      BY <2>4 DEF ClientInv, FailureInv
    <3> QED
      BY <2>1, <3>2, <3>3 DEF ClientInv
  <2> QED
    BY <1>2, <2>2, <2>3, <2>4 DEF ForceTimer
<1>3. CASE WakeFromSleep
  <2> DEFINE rest == <<Rest("schedule")>>
  <2>1. wakeSubscribed /\ UNCHANGED <<clientVars, historyVars>>
    BY <1>3 DEF WakeFromSleep
  <2>2. \/ UNCHANGED connState /\ stack' = rest
        \/ SetState("disconnected", rest, <<>>)
    BY <1>3 DEF WakeFromSleep
  <2>3. stack' \in {rest, Append(rest, Notification("disconnected"))}
    <3> HIDE DEF rest
    <3> QED
      BY <2>2, SetStateEffect DEF ClientTypes, ConnStates
  <2>4. /\ Settled(stack') /\ LoopFirst(stack')
        /\ \A ops : {"schedule", "notify"} \cap ops = {} => ~Holds(stack', ops)
    BY <2>3, LoopPushes DEF ConnStates
  <2>5. /\ ~Holds(stack', {"close"}) /\ ~Holds(stack', {"close", "clear"})
        /\ ~Holds(stack', {"create"}) /\ ~Holds(stack', {"failed"})
        /\ \A ops : ~Holds(stack, ops)
    BY <1>0, <2>4, HoldsNothing
  <2>6. SocketsInv(stack)'
    BY <2>1, <2>4, <2>5 DEF ClientInv, SocketsInv, Attended, clientVars, historyVars
  <2>7. FailureInv(stack)' /\ SilentInv(stack)'
    BY <2>1, <2>4, <2>5 DEF ClientInv, FailureInv, SilentInv, clientVars, historyVars
  <2> QED
    BY <2>6, <2>7 DEF ClientInv
<1>4. ASSUME NEW s \in Sockets, SocketOpens(s)
      PROVE  ClientInv'
  BY <1>4, EventClient DEF SocketOpens, Live, SocketStates, ConnStates
<1>5. ASSUME NEW s \in Sockets, OpeningFails(s)
      PROVE  ClientInv'
  BY <1>5, EventClient DEF OpeningFails, Live, SocketStates, ConnStates
<1>6. ASSUME NEW s \in Sockets, SocketLost(s)
      PROVE  ClientInv'
  BY <1>6, EventClient DEF SocketLost, Live, SocketStates, ConnStates
<1>7. ASSUME NEW s \in Sockets, ServerDisconnects(s)
      PROVE  ClientInv'
  BY <1>7, EventClient DEF ServerDisconnects, Live, SocketStates, ConnStates
<1>8. ASSUME NEW s \in Sockets, Reopens(s)
      PROVE  ClientInv'
  BY <1>8, EventClient DEF Reopens, Live, SocketStates, ConnStates
<1>9. ASSUME NEW s \in Sockets, ReopeningFails(s)
      PROVE  ClientInv'
  BY <1>9, EventClient DEF ReopeningFails, Live, SocketStates, ConnStates
<1> QED
  BY <1>2, <1>3, <1>4, <1>5, <1>6, <1>7, <1>8, <1>9 DEF LoopTurns

-----------------------------------------------------------------------------
(* Theorems *)

Inv == Types /\ HandlersInv /\ ClientInv

LEMMA InitInv == Init => Inv
<1> SUFFICES ASSUME Init PROVE Inv
  OBVIOUS
<1>1. Types
  BY EmptySeq DEF Init, Types, ClientTypes, HandlerTypes, ConnStates, SocketStates
<1>2. HandlersInv
  <2>1. stack = <<>> /\ ToSet(handlers) = {} /\ Len(stack) = 0
    BY EmptySeq DEF Init, ToSet
  <2> QED
    BY <2>1 DEF HandlersInv, Nested, Truthful
<1>3. ClientInv
  BY HoldsNothing, NothingSettled DEF Init, ClientInv, SocketsInv, FailureInv, SilentInv, Live
<1> QED
  BY <1>1, <1>2, <1>3 DEF Inv

LEMMA NextInv == Inv /\ [Next]_vars => Inv'
<1> SUFFICES ASSUME Inv, [Next]_vars PROVE Inv'
  OBVIOUS
<1>1. CASE TellHandler
  <2>1. ClientTypes'
    BY <1>1, TellHandlerGoesOn DEF Inv
  <2> QED
    BY <1>1, <2>1, TellHandlerHandlers, TellHandlerClient DEF Inv, Types
<1>2. CASE FrameEnds
  <2>1. HandlerTypes'
    BY <1>2, FrameEndsGoesOn DEF Inv, Types, HandlerTypes
  <2> QED
    BY <1>2, <2>1, FrameEndsGoesOn, FrameEndsHandlers, FrameEndsClient DEF Inv, Types
<1>3. CASE LoopTurns
  <2>1. HandlerTypes'
    BY <1>3, LoopTurnsGoesOn DEF Inv, Types, HandlerTypes
  <2> QED
    BY <1>3, <2>1, LoopTurnsGoesOn, LoopTurnsHandlers, LoopTurnsClient DEF Inv, Types
<1>4. ASSUME NEW h \in Handlers, OnStateChange(h)
      PROVE  Inv'
  <2>1. HandlerTypes' /\ HandlersInv'
    BY <1>4, OnStateChangeHandlers DEF Inv
  <2>2. UNCHANGED <<connState, stack, clientVars, calls, closed, entangled, interrupted>>
    BY <1>4 DEF OnStateChange
  <2>3. ClientTypes'
    BY <2>2 DEF Inv, Types, ClientTypes, clientVars
  <2>4. ClientInv'
    BY <2>2 DEF Inv, ClientInv, SocketsInv, FailureInv, SilentInv, Attended, clientVars
  <2> QED
    BY <2>1, <2>3, <2>4 DEF Inv, Types
<1>6. ASSUME NEW i \in DOMAIN handlers, Unsubscribe(i)
      PROVE  Inv'
  <2>1. SameCalls(stack') /\ ClientTypes' /\ HandlerTypes' /\ HandlersInv'
    BY <1>6, UnsubscribeHandlers DEF Inv
  <2>2. SocketsInv(stack') /\ FailureInv(stack') /\ SilentInv(stack')
    BY <2>1, SameCallsClient DEF Inv, Types
  <2>3. UNCHANGED <<connState, clientVars, closed, entangled, interrupted>>
    BY <1>6 DEF Unsubscribe, historyVars
  <2>4. SocketsInv(stack)'
    BY <2>2, <2>3 DEF SocketsInv, Attended, clientVars
  <2>5. FailureInv(stack)'
    BY <2>2, <2>3 DEF FailureInv, clientVars
  <2>6. SilentInv(stack)'
    BY <2>2, <2>3 DEF SilentInv, clientVars
  <2> QED
    BY <2>1, <2>4, <2>5, <2>6 DEF Inv, Types, ClientInv
<1>7. CASE Call
  <2>1. SameCalls(Caller)
    BY <1>7, CallerCalls DEF Call, Inv, Types
  <2>2. Caller \in Seq(Frames) /\ SocketsInv(Caller) /\ FailureInv(Caller) /\ SilentInv(Caller)
    BY <2>1, SameCallsClient DEF Inv, Types, SameCalls
  <2> QED
    BY <1>7, <2>2, CallHandlers, CallClient DEF Inv, Types
<1>5. CASE UNCHANGED vars
  <2>1. Types'
    BY <1>5 DEF Inv, Types, ClientTypes, HandlerTypes, vars, clientVars, historyVars
  <2>2. HandlersInv'
    BY <1>5 DEF Inv, HandlersInv, vars, historyVars
  <2>3. ClientInv'
    BY <1>5 DEF Inv, ClientInv, SocketsInv, FailureInv, SilentInv, Attended, vars, clientVars,
       historyVars
  <2> QED
    BY <2>1, <2>2, <2>3 DEF Inv
<1> QED
  BY <1>1, <1>2, <1>3, <1>4, <1>5, <1>6, <1>7 DEF Next, FrameEnds, LoopTurns

THEOREM Invariance == Spec => []Inv
BY InitInv, NextInv, PTL DEF Spec

\* When the event loop is idle, every handler that was told anything since it
\* subscribed was told the present state last, but for those that a notification told
\* last that a handler before them had moved.
THEOREM HandlersAreTold == Spec => []HandlersKnow
<1>1. Inv => HandlersKnow
  <2> SUFFICES ASSUME Inv, Turn, NEW h \in ToSet(handlers)
               PROVE  told[h] \in {None, connState} \/ h \in outrun
    BY DEF HandlersKnow
  <2>1. ~Pending(h, stack)
    BY EmptySeq DEF Turn, Pending
  <2> QED
    BY <2>1 DEF Inv, HandlersInv
<1> QED
  BY <1>1, Invariance, PTL

\* The client has one socket and attends to it, however handlers call it back, as
\* long as no connect() begins inside an unfinished connect() or disconnect().
THEOREM SocketAttended == Spec => []OneSocketAttended
<1>1. Inv => OneSocketAttended
  BY DEF Inv, ClientInv, SocketsInv, OneSocketAttended
<1> QED
  BY <1>1, Invariance, PTL

\* A closed client stays silent, unless disconnect() interrupted a function.
THEOREM ClosedIsSilent == Spec => []ClosedStaysSilent
<1>1. Inv => ClosedStaysSilent
  BY DEF Inv, ClientInv, SilentInv, ClosedStaysSilent, Turn
<1> QED
  BY <1>1, Invariance, PTL

=============================================================================
