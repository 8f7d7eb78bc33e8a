------------------------ MODULE DaemonReconnector_proofs ------------------------
(***************************************************************************)
(* Proofs about DaemonReconnector, for every set of clients and of calls   *)
(* and every delay.                                                        *)
(*                                                                         *)
(* A client that works is not replaced because, as long as nothing came    *)
(* between, one attempt at most is under way, isReconnecting is set while  *)
(* it is, and the current client is not connected.  The invariant counts   *)
(* attempts: timers, and calls before their return.                        *)
(***************************************************************************)
EXTENDS DaemonReconnector, FiniteSetTheorems, TLAPS

Active == {a \in Calls : call[a].stage \notin {"none", "notifying"}}

HasClient == {"connecting", "registering", "joining", "replacing", "notifying"}

\* Which calls have a client: each its own, and not the one that it is to replace
\* until it has returned.
CallsMatch ==
    /\ \A a \in Calls : IF call[a].stage \in HasClient THEN call[a].client \in Clients
                                                       ELSE call[a].client = NoClient
    /\ \A a \in Calls :
          /\ call[a].stage \in HasClient \ {"notifying"} => call[a].client # Current
          /\ call[a].stage = "waiting" => call[a].try < MaxRetries
    /\ \A a, b \in Calls : call[a].client = call[b].client /\ call[a].client # NoClient => a = b

\* What a call knows of its client: nothing moves one whose first connect() is
\* under way, and one that is announced is in use, or was given up.
ClientsMatch ==
    \A a \in Calls :
        LET c == call[a].client
        IN  /\ call[a].stage = "connecting" =>
                   conn[c] = "opening" /\ c \notin waking /\ registration[c] = Unregistered
            /\ call[a].stage = "notifying" /\ MayLive(c) => c = Current \/ c \in abandoned

\* No answer before the request, and none that says success without the daemon
\* knowing the client.
RequestsMatch ==
    \A c \in Clients :
        /\ registration[c].request = "sent" =>
               ~registration[c].version /\ ~registration[c].enrolled
        /\ registration[c].request = "success" => registration[c].enrolled

\* One call at most disconnects the current client to replace it, and noted what that
\* left behind.
ReplacingMatch ==
    \A a \in Calls : call[a].stage = "replacing" =>
        /\ \A b \in Calls : call[b].stage = "replacing" => b = a
        /\ MayLive(Current) => Current \in abandoned

\* The closure's variables: reconnectTimer is one of the timers, and the handler
\* is the current client's.
ClosureMatches ==
    /\ reconnector.latestPending => reconnector.timers > 0
    /\ ~reconnector.cancelled => reconnector.watched = Current

\* With nothing to explain more, one attempt is under way at most, for a current
\* client that is not connected, and it will reset isReconnecting.
OneAttempt ==
    ~reconnector.cancelled /\ ~rescued /\ Attempts > 0 =>
        Attempts = 1 /\ reconnector.busy /\ conn[Current] # "up"

\* What there is to say of calls and clients ...
FactoryInv ==
    /\ FactoryTypeOK
    /\ Current \in Clients
    /\ CallsMatch
    /\ ClientsMatch
    /\ RequestsMatch
    /\ LiveClientsOwned
    /\ RegistrationAgrees

\* ... and of the closure.
ClosureInv ==
    /\ ReconnectorTypeOK
    /\ ClosureMatches
    /\ OneAttempt
    /\ Tended

Inv == FactoryInv /\ ReplacingMatch /\ ClosureInv

-----------------------------------------------------------------------------
(* Lemmas about the operators the actions share *)

CallStates == [stage : Stages, try : 0 .. MaxRetries, client : Clients \cup {NoClient}]

LEMMA AwaitEffect ==
    ASSUME FactoryTypeOK, NEW a \in Calls, NEW stage \in Stages, NEW try \in 0 .. MaxRetries,
           NEW c \in Clients \cup {NoClient}, Await(a, stage, try, c)
    PROVE  /\ call' \in [Calls -> CallStates]
           /\ call'[a] = [stage |-> stage, try |-> try, client |-> c]
           /\ \A b \in Calls : b # a => call'[b] = call[b]
BY DEF FactoryTypeOK, Await, CallStates

LEMMA EndsEffect ==
    ASSUME FactoryTypeOK, NEW a \in Calls, Ends(a)
    PROVE  /\ call' \in [Calls -> CallStates]
           /\ call'[a].stage = "none" /\ call'[a].client = NoClient
           /\ \A b \in Calls : b # a => call'[b] = call[b]
BY FactoryAssumption DEF FactoryTypeOK, Ends, Idle, CallStates, Stages

\* Of a client whose session ended: a version that is left is one that outlived it.
SessionEnded(c) ==
    /\ registration[c].request = "none" /\ ~registration[c].enrolled
    /\ registration[c].version => registration[c].outlived

LEMMA MoveEffect ==
    ASSUME FactoryTypeOK, NEW c \in Clients, NEW next \in ConnStates, Move(c, next)
    PROVE  /\ conn' \in [Clients -> ConnStates]
           /\ registration' \in [Clients -> Registrations]
           /\ conn'[c] = next /\ SessionEnded(c)'
           /\ \A d \in Clients : d # c => conn'[d] = conn[d] /\ registration'[d] = registration[d]
<1>1. PICK v \in BOOLEAN : v = registration[c].version
  BY DEF FactoryTypeOK, Registrations
<1>2. registration' = [registration EXCEPT ![c].request = "none", ![c].enrolled = FALSE,
                                            ![c].outlived = v]
  BY <1>1 DEF Move
<1>3. /\ registration' \in [Clients -> Registrations]
      /\ registration'[c].request = "none" /\ ~registration'[c].enrolled
      /\ registration'[c].outlived <=> v
      /\ registration'[c].version <=> registration[c].version
      /\ \A d \in Clients : d # c => registration'[d] = registration[d]
  BY <1>2 DEF FactoryTypeOK, Registrations
<1>4. /\ conn' \in [Clients -> ConnStates] /\ conn'[c] = next
      /\ \A d \in Clients : d # c => conn'[d] = conn[d]
  BY DEF FactoryTypeOK, Move
<1> QED
  BY <1>1, <1>3, <1>4 DEF SessionEnded

\* Whatever disconnect() leaves behind that may come alive is noted as given up.
LEMMA GiveUpEffect ==
    ASSUME FactoryTypeOK, NEW c \in Clients, GiveUp(c)
    PROVE  /\ Move(c, "down") /\ conn'[c] = "down"
           /\ retrying' \ {c} = retrying \ {c} /\ waking' \ {c} = waking \ {c}
           /\ abandoned \subseteq abandoned' /\ abandoned' \subseteq Clients
           /\ MayLive(c)' => c \in abandoned'
<1>1. Move(c, "down") /\ conn'[c] = "down"
  BY MoveEffect DEF GiveUp, ConnStates
<1>2. CASE conn[c] = "down"
  BY <1>1, <1>2 DEF GiveUp, MayLive, Live, FactoryTypeOK
<1>3. CASE conn[c] # "down"
  BY <1>1, <1>3 DEF GiveUp, MayLive, Live, FactoryTypeOK
<1> QED
  BY <1>1, <1>2, <1>3

\* The client of a call is an object, no other call's, and not the current one.
LEMMA ClientOfCall ==
    ASSUME FactoryInv, NEW a \in Calls, call[a].stage \in {"connecting", "registering", "joining", "replacing"}
    PROVE  /\ call[a].client \in Clients /\ call[a].client # NoClient
           /\ call[a].client # Current
           /\ \A b \in Calls : b # a => call[b].client # call[a].client
BY NoClientAssumption DEF FactoryInv, CallsMatch, HasClient

-----------------------------------------------------------------------------
(* connectToDaemon and the clients keep their part of the invariant *)

\* A call changes that has no client, before or after.
LEMMA ClientlessInv ==
    ASSUME FactoryInv, NEW a \in Calls, call[a].client = NoClient,
           NEW stage \in Stages \ (HasClient \cup {"waiting"}),
           NEW try \in 0 .. MaxRetries, Await(a, stage, try, NoClient),
           UNCHANGED <<conn, retrying, waking, registration, abandoned>>, reconnector'.client = Current
    PROVE  FactoryInv'
<1>1. /\ call' \in [Calls -> CallStates]
      /\ call'[a] = [stage |-> stage, try |-> try, client |-> NoClient]
      /\ \A b \in Calls : b # a => call'[b] = call[b]
  BY AwaitEffect DEF FactoryInv
<1> USE DEF FactoryInv, Current
<1>2. FactoryTypeOK'
  BY <1>1 DEF FactoryTypeOK, CallStates
<1>3. CallsMatch'
  BY <1>1 DEF CallsMatch, HasClient
<1>4. ClientsMatch'
  BY <1>1 DEF ClientsMatch, HasClient, MayLive, Live
<1>5. RequestsMatch' /\ RegistrationAgrees'
  BY <1>1 DEF RequestsMatch, RegistrationAgrees, HasClient
<1>6. LiveClientsOwned'
  BY <1>1, NoClientAssumption DEF LiveClientsOwned, MayLive, Live, InCall
<1> QED
  BY <1>2, <1>3, <1>4, <1>5, <1>6

LEMMA BeginsInv ==
    ASSUME FactoryInv, NEW a \in Calls, Begins(a),
           UNCHANGED <<conn, retrying, waking, registration, abandoned>>, reconnector'.client = Current
    PROVE  FactoryInv'
<1>1. call[a].client = NoClient /\ Await(a, "finding", 0, NoClient)
  BY DEF Begins, Idle
<1> QED
  BY <1>1, ClientlessInv, FactoryAssumption DEF Stages, HasClient

LEMMA FindingSucceedsInv ==
    ASSUME FactoryInv, NEW a \in Calls, FindingSucceeds(a), reconnector'.client = Current
    PROVE  FactoryInv'
<1>1. call[a].client = NoClient
  BY DEF FindingSucceeds, FactoryInv, CallsMatch, HasClient
<1> QED
  BY <1>1, ClientlessInv, FactoryAssumption DEF FindingSucceeds, Stages, HasClient

LEMMA AttemptInv ==
    ASSUME FactoryInv, NEW a \in Calls, call[a].stage \in {"warming", "waiting"},
           NEW try \in 0 .. MaxRetries, Attempt(a, try, {Current}), reconnector'.client = Current
    PROVE  FactoryInv'
<1>1. PICK c \in Clients :
          /\ c # Current /\ ~Live(c) /\ ~InCall(c)
          /\ conn' = [conn EXCEPT ![c] = "opening"]
          /\ registration' = [registration EXCEPT ![c] = Unregistered]
          /\ Await(a, "connecting", try, c)
          /\ abandoned' = abandoned \ {c} /\ waking' = waking \ {c}
          /\ UNCHANGED retrying
  BY DEF Attempt
<1>2. /\ call' \in [Calls -> CallStates]
      /\ call'[a] = [stage |-> "connecting", try |-> try, client |-> c]
      /\ \A b \in Calls : b # a => call'[b] = call[b]
  BY <1>1, AwaitEffect DEF FactoryInv, Stages
<1>3. /\ conn' \in [Clients -> ConnStates]
      /\ registration' \in [Clients -> Registrations]
      /\ conn'[c] = "opening" /\ registration'[c] = Unregistered
      /\ \A d \in Clients : d # c => conn'[d] = conn[d] /\ registration'[d] = registration[d]
  <2>1. Unregistered \in Registrations /\ "opening" \in ConnStates
    BY DEF Unregistered, Registrations, ConnStates
  <2> QED
    BY <1>1, <2>1 DEF FactoryInv, FactoryTypeOK
<1>4. \A b \in Calls : call[b].client # c
  BY <1>1 DEF InCall
<1>5. c \notin retrying /\ call[a].client = NoClient
  BY <1>1 DEF MayLive, Live, FactoryInv, CallsMatch, HasClient
<1> USE DEF FactoryInv, Current
<1>6. FactoryTypeOK'
  BY <1>1, <1>2, <1>3, <1>5 DEF FactoryTypeOK, CallStates
<1>7. CallsMatch'
  BY <1>1, <1>2, <1>4 DEF CallsMatch, HasClient
<1>8. ClientsMatch'
  <2> SUFFICES ASSUME NEW b \in Calls, b # a, NEW d, d = call[b].client,
                      call[b].stage \in {"connecting", "notifying"}
               PROVE  /\ call[b].stage = "connecting" =>
                             conn'[d] = "opening" /\ d \notin waking' /\ registration'[d] = Unregistered
                      /\ call[b].stage = "notifying" /\ MayLive(d)' => d = Current \/ d \in abandoned'
    BY <1>1, <1>2, <1>3 DEF ClientsMatch
  <2>1. d \in Clients /\ d # c
    BY <1>4 DEF CallsMatch, HasClient
  <2>2. conn'[d] = conn[d] /\ registration'[d] = registration[d] /\ (MayLive(d)' <=> MayLive(d))
    BY <1>1, <1>3, <2>1 DEF MayLive, Live
  <2> QED
    BY <1>1, <2>1, <2>2 DEF ClientsMatch
<1>9. RequestsMatch'
  BY <1>3 DEF RequestsMatch, Unregistered
<1>10. RegistrationAgrees'
  BY <1>2, <1>3 DEF RegistrationAgrees, Unregistered
<1>11. LiveClientsOwned'
  <2> SUFFICES ASSUME NEW d \in Clients, d # c, MayLive(d)
               PROVE  d = Current \/ InCall(d)' \/ d \in abandoned'
    BY <1>1, <1>2, <1>3 DEF LiveClientsOwned, MayLive, Live, InCall
  <2> QED
    BY <1>1, <1>2, <1>5, NoClientAssumption DEF LiveClientsOwned, InCall
<1> QED
  BY <1>6, <1>7, <1>8, <1>9, <1>10, <1>11

\* A call that lost its client, or never had one, ends or waits; its client is not
\* connected, and nothing will connect it, or it was given up.
LEMMA CallDropsClientInv ==
    ASSUME FactoryInv, NEW a \in Calls,
           call' \in [Calls -> CallStates],
           call'[a].client = NoClient, call'[a].stage \in {"none", "waiting"},
           call'[a].stage = "waiting" => call'[a].try < MaxRetries,
           \A b \in Calls : b # a => call'[b] = call[b],
           abandoned \subseteq abandoned', abandoned' \subseteq Clients,
           reconnector'.client = Current,
           NEW c, c = call[a].client,
           \/ UNCHANGED <<conn, retrying, waking, registration>>
           \/ /\ call[a].stage \in {"connecting", "joining"} /\ Move(c, "down")
              /\ retrying' \ {c} = retrying \ {c} /\ waking' \ {c} = waking \ {c},
           c # NoClient /\ MayLive(c)' => c \in {Current} \cup abandoned'
    PROVE  FactoryInv'
<1>1. CASE UNCHANGED <<conn, retrying, waking, registration>>
  <2> USE <1>1 DEF FactoryInv, Current
  <2>1. FactoryTypeOK'
    BY DEF FactoryTypeOK, CallStates
  <2>2. CallsMatch'
    BY DEF CallsMatch, HasClient
  <2>3. ClientsMatch'
    BY DEF ClientsMatch, MayLive, Live
  <2>4. RequestsMatch' /\ RegistrationAgrees'
    BY DEF RequestsMatch, RegistrationAgrees
  <2>5. LiveClientsOwned'
    BY NoClientAssumption DEF LiveClientsOwned, MayLive, Live, InCall
  <2> QED
    BY <2>1, <2>2, <2>3, <2>4, <2>5
<1>2. CASE /\ call[a].stage \in {"connecting", "joining"} /\ Move(c, "down")
           /\ retrying' \ {c} = retrying \ {c} /\ waking' \ {c} = waking \ {c}
  <2>0. /\ c \in Clients /\ c # NoClient /\ c # Current
        /\ \A b \in Calls : b # a => call[b].client # c
    BY <1>2, ClientOfCall
  <2>1. /\ conn' \in [Clients -> ConnStates]
        /\ registration' \in [Clients -> Registrations]
        /\ conn'[c] = "down" /\ SessionEnded(c)'
        /\ \A d \in Clients : d # c => conn'[d] = conn[d] /\ registration'[d] = registration[d]
    BY <1>2, <2>0, MoveEffect DEF FactoryInv, ConnStates
  <2> USE DEF FactoryInv, Current
  <2>2. FactoryTypeOK'
    BY <1>2, <2>0, <2>1 DEF FactoryTypeOK, CallStates
  <2>3. CallsMatch'
    BY DEF CallsMatch, HasClient
  <2>4. ClientsMatch'
    <3> SUFFICES ASSUME NEW b \in Calls, b # a, NEW d, d = call[b].client,
                        call[b].stage \in {"connecting", "notifying"}
                 PROVE  /\ call[b].stage = "connecting" =>
                               conn'[d] = "opening" /\ d \notin waking' /\ registration'[d] = Unregistered
                        /\ call[b].stage = "notifying" /\ MayLive(d)' => d = Current \/ d \in abandoned'
      BY DEF ClientsMatch
    <3>1. d \in Clients /\ d # c
      BY <2>0 DEF CallsMatch, HasClient
    <3>2. conn'[d] = conn[d] /\ registration'[d] = registration[d] /\ (MayLive(d)' <=> MayLive(d))
          /\ (d \in waking' <=> d \in waking)
      BY <1>2, <2>1, <3>1 DEF MayLive, Live
    <3> QED
      BY <3>1, <3>2 DEF ClientsMatch
  <2>5. RequestsMatch'
    BY <2>1 DEF RequestsMatch, SessionEnded
  <2>6. RegistrationAgrees'
    BY <2>1 DEF RegistrationAgrees, SessionEnded
  <2>7. LiveClientsOwned'
    <3> SUFFICES ASSUME NEW d \in Clients, MayLive(d)'
                 PROVE  d = Current \/ InCall(d)' \/ d \in abandoned'
      BY DEF LiveClientsOwned
    <3>1. CASE d = c
      BY <2>0, <3>1
    <3>2. CASE d # c
      BY <1>2, <2>1, <3>2 DEF LiveClientsOwned, MayLive, Live, InCall
    <3> QED
      BY <3>1, <3>2
  <2> QED
    BY <2>2, <2>3, <2>4, <2>5, <2>6, <2>7
<1> QED
  BY <1>1, <1>2

LEMMA AttemptFailsInv ==
    ASSUME FactoryInv, NEW a \in Calls, ConnectFails(a), reconnector'.client = Current,
           \/ call[a].try < MaxRetries /\ Await(a, "waiting", call[a].try, NoClient)
           \/ Ends(a)
    PROVE  FactoryInv'
<1> DEFINE c == call[a].client
<1>1. call[a].stage = "connecting" /\ Move(c, "down") /\ UNCHANGED <<retrying, waking, abandoned>>
  BY DEF ConnectFails
<1>2. c \in Clients /\ conn[c] = "opening" /\ c \notin retrying \cup waking
  BY <1>1, ClientOfCall DEF FactoryInv, ClientsMatch, FactoryTypeOK
<1>3. /\ call' \in [Calls -> CallStates]
      /\ call'[a].client = NoClient /\ call'[a].stage \in {"none", "waiting"}
      /\ call'[a].stage = "waiting" => call'[a].try < MaxRetries
      /\ \A b \in Calls : b # a => call'[b] = call[b]
  <2>1. call[a].try \in 0 .. MaxRetries /\ "waiting" \in Stages
    BY DEF FactoryInv, FactoryTypeOK, Stages
  <2>2. CASE Ends(a)
    BY <2>2, EndsEffect DEF FactoryInv
  <2>3. CASE call[a].try < MaxRetries /\ Await(a, "waiting", call[a].try, NoClient)
    <3>1. /\ call' \in [Calls -> CallStates]
          /\ call'[a] = [stage |-> "waiting", try |-> call[a].try, client |-> NoClient]
          /\ \A b \in Calls : b # a => call'[b] = call[b]
      BY <2>1, <2>3, AwaitEffect DEF FactoryInv
    <3> QED
      BY <2>3, <3>1
  <2> QED
    BY <2>2, <2>3
<1>4. conn'[c] = "down"
  BY <1>1, <1>2, MoveEffect DEF FactoryInv, ConnStates
<1>5. \A d : d = c => ~MayLive(d)'
  BY <1>1, <1>2, <1>4 DEF MayLive, Live
<1>6. abandoned' \subseteq Clients
  BY <1>1 DEF FactoryInv, FactoryTypeOK
<1> HIDE DEF c
<1>7. c = call[a].client
  BY DEF c
<1> QED
  BY <1>1, <1>3, <1>5, <1>6, <1>7, CallDropsClientInv

\* A call that fails before it has a client, or after its client connected, or
\* that its caller is done with.
LEMMA CallEndsInv ==
    ASSUME FactoryInv, NEW a \in Calls, Ends(a), reconnector'.client = Current,
           \/ FindingFails(a)
           \/ JoinFails(a)
           \/ call[a].stage = "notifying" /\ UNCHANGED <<conn, retrying, waking, registration, abandoned>>
           \/ Returns(a) /\ GiveUp(call[a].client)
    PROVE  FactoryInv'
<1> SUFFICES ASSUME NEW c, c = call[a].client PROVE FactoryInv'
  OBVIOUS
<1>1. /\ call' \in [Calls -> CallStates]
      /\ call'[a].stage = "none" /\ call'[a].client = NoClient
      /\ \A b \in Calls : b # a => call'[b] = call[b]
  BY EndsEffect DEF FactoryInv
<1>2. CASE FindingFails(a)
  <2>1. c = NoClient
    BY <1>2 DEF FindingFails, FactoryInv, CallsMatch, HasClient
  <2> QED
    BY <1>1, <1>2, <2>1, CallDropsClientInv DEF FindingFails, FactoryInv, FactoryTypeOK
<1>3. CASE JoinFails(a)
  <2>1. c \in Clients
    BY <1>3, ClientOfCall DEF JoinFails
  <2> QED
    BY <1>1, <1>3, <2>1, CallDropsClientInv DEF JoinFails, FactoryInv, FactoryTypeOK
<1>4. CASE call[a].stage = "notifying" /\ UNCHANGED <<conn, retrying, waking, registration, abandoned>>
  <2>1. MayLive(c)' => c \in {Current} \cup abandoned'
    BY <1>4 DEF FactoryInv, ClientsMatch, MayLive, Live
  <2> QED
    BY <1>1, <1>4, <2>1, CallDropsClientInv DEF FactoryInv, FactoryTypeOK
<1>5. CASE Returns(a) /\ GiveUp(call[a].client)
  <2>1. call[a].stage = "joining" /\ c \in Clients
    BY <1>5, ClientOfCall DEF Returns
  <2>2. /\ Move(c, "down")
        /\ retrying' \ {c} = retrying \ {c} /\ waking' \ {c} = waking \ {c}
        /\ abandoned \subseteq abandoned' /\ abandoned' \subseteq Clients
        /\ MayLive(c)' => c \in abandoned'
    BY <1>5, <2>1, GiveUpEffect DEF FactoryInv
  <2> QED
    BY <1>1, <2>1, <2>2, CallDropsClientInv
<1> QED
  BY <1>2, <1>3, <1>4, <1>5

\* A client moves by itself: it is none that a call is about to connect, and it may
\* live afterwards only if it might before.
LEMMA ClientMovesInv ==
    ASSUME FactoryInv, NEW c \in Clients,
           Loses(c) \/ Recovers(c) \/ GoesDown(c) \/ RetryStarts(c) \/ RetryStops(c) \/ Wakes(c),
           UNCHANGED <<call, abandoned>>, reconnector'.client = Current
    PROVE  FactoryInv'
<1> USE DEF FactoryInv, Current
<1>1. /\ conn[c] # "opening" /\ MayLive(c)
      /\ retrying' \subseteq retrying \cup {c} /\ retrying \subseteq retrying' \cup {c}
      /\ waking' \subseteq waking \cup {c} /\ waking \subseteq waking'
      /\ \/ /\ RetryStops(c) \/ Wakes(c)
            /\ UNCHANGED <<conn, registration>>
            /\ c \in retrying' => conn[c] = "down"
         \/ \E next \in {"up", "trying", "down"} :
               /\ Move(c, next)
               /\ c \in retrying' => next = "down"
  BY DEF Loses, Recovers, GoesDown, RetryStarts, RetryStops, Wakes, MayLive, Live, FactoryTypeOK
<1>2. /\ conn' \in [Clients -> ConnStates]
      /\ registration' \in [Clients -> Registrations]
      /\ c \in retrying' => conn'[c] = "down"
      /\ registration'[c] = registration[c] \/ SessionEnded(c)'
      /\ \A d \in Clients : d # c => conn'[d] = conn[d] /\ registration'[d] = registration[d]
  <2>1. CASE RetryStops(c) \/ Wakes(c)
    BY <1>1, <2>1 DEF FactoryTypeOK, RetryStops, Wakes
  <2>2. ASSUME NEW next \in {"up", "trying", "down"}, Move(c, next), c \in retrying' => next = "down"
        PROVE  /\ conn' \in [Clients -> ConnStates]
               /\ registration' \in [Clients -> Registrations]
               /\ conn'[c] = next /\ SessionEnded(c)'
               /\ \A d \in Clients : d # c => /\ conn'[d] = conn[d]
                                            /\ registration'[d] = registration[d]
    BY <2>2, MoveEffect DEF ConnStates
  <2> QED
    BY <1>1, <2>1, <2>2
<1>3. FactoryTypeOK'
  BY <1>1, <1>2 DEF FactoryTypeOK
<1>4. CallsMatch'
  BY DEF CallsMatch
<1>5. \A d \in Clients : MayLive(d)' => MayLive(d)
  BY <1>1, <1>2 DEF MayLive, Live
<1>6. ClientsMatch'
  <2> SUFFICES ASSUME NEW b \in Calls, NEW d, d = call[b].client,
                      call[b].stage \in {"connecting", "notifying"}
               PROVE  /\ call[b].stage = "connecting" =>
                             conn'[d] = "opening" /\ d \notin waking' /\ registration'[d] = Unregistered
                      /\ call[b].stage = "notifying" /\ MayLive(d)' => d = Current \/ d \in abandoned'
    BY DEF ClientsMatch
  <2>1. d \in Clients
    BY DEF CallsMatch, HasClient
  <2>2. call[b].stage = "connecting" => d # c
    BY <1>1 DEF ClientsMatch
  <2> QED
    BY <1>1, <1>2, <1>5, <2>1, <2>2 DEF ClientsMatch
<1>7. RequestsMatch'
  BY <1>2 DEF RequestsMatch, SessionEnded
<1>8. RegistrationAgrees'
  BY <1>2 DEF RegistrationAgrees, SessionEnded
<1>9. LiveClientsOwned'
  BY <1>5 DEF LiveClientsOwned, InCall
<1> QED
  BY <1>3, <1>4, <1>6, <1>7, <1>8, <1>9

\* What becomes of one registration becomes of it alone.
LEMMA RegistrationChanges ==
    ASSUME FactoryTypeOK, NEW c \in Clients, NEW new \in Registrations,
           registration' = [registration EXCEPT ![c] = new]
    PROVE  /\ registration' \in [Clients -> Registrations]
           /\ registration'[c] = new
           /\ \A d \in Clients : d # c => registration'[d] = registration[d]
BY DEF FactoryTypeOK

\* A call goes on with its client; the request of that client may be sent.
LEMMA CallKeepsClientInv ==
    ASSUME FactoryInv, NEW a \in Calls, NEW c, c = call[a].client,
           call[a].stage \in {"connecting", "registering"},
           NEW stage \in {"registering", "joining"}, NEW try \in 0 .. MaxRetries,
           Await(a, stage, try, c),
           UNCHANGED <<retrying, abandoned>>, reconnector'.client = Current,
           waking' \in {waking, waking \cup {c}},
           \/ call[a].stage = "registering" /\ stage = "joining" /\ UNCHANGED <<conn, registration>>
           \/ /\ call[a].stage = "connecting"
              /\ conn' = [conn EXCEPT ![c] = "up"]
              /\ \/ registration' = [registration EXCEPT ![c].request = "sent"]
                 \/ UNCHANGED registration
    PROVE  FactoryInv'
<1> USE DEF FactoryInv, Current
<1>1. /\ c \in Clients /\ c # NoClient /\ c # Current
      /\ \A b \in Calls : b # a => call[b].client # c
  BY ClientOfCall
<1>2. call[a].stage = "connecting" => c \notin retrying /\ registration[c] = Unregistered
  BY DEF ClientsMatch, FactoryTypeOK
<1>3. /\ call' \in [Calls -> CallStates]
      /\ call'[a].stage = stage /\ call'[a].client = c
      /\ \A b \in Calls : b # a => call'[b] = call[b]
  <2>1. stage \in Stages
    BY DEF Stages
  <2>2. /\ call' \in [Calls -> CallStates]
        /\ call'[a] = [stage |-> stage, try |-> try, client |-> c]
        /\ \A b \in Calls : b # a => call'[b] = call[b]
    BY <1>1, <2>1, AwaitEffect
  <2> QED
    BY <2>2
<1>4. /\ registration' \in [Clients -> Registrations]
      /\ ~registration'[c].version \/ UNCHANGED registration
      /\ ~registration'[c].enrolled \/ UNCHANGED registration
      /\ registration'[c].request = "sent" \/ UNCHANGED registration
      /\ stage = "registering" => registration'[c].enrolled = FALSE
      /\ \A d \in Clients : d # c => registration'[d] = registration[d]
  <2>1. CASE UNCHANGED registration
    BY <1>1, <1>2, <2>1 DEF FactoryTypeOK, Unregistered
  <2>2. CASE call[a].stage = "connecting" /\ registration' = [registration EXCEPT ![c].request = "sent"]
    <3>1. registration[c] = Unregistered
      BY <1>2, <2>2
    <3>2. registration' = [registration EXCEPT ![c] = [Unregistered EXCEPT !.request = "sent"]]
      BY <2>2, <3>1
    <3>3. /\ [Unregistered EXCEPT !.request = "sent"] \in Registrations
          /\ ~[Unregistered EXCEPT !.request = "sent"].version
          /\ [Unregistered EXCEPT !.request = "sent"].enrolled = FALSE
          /\ [Unregistered EXCEPT !.request = "sent"].request = "sent"
      BY DEF Unregistered, Registrations
    <3>4. /\ registration' \in [Clients -> Registrations]
          /\ registration'[c] = [Unregistered EXCEPT !.request = "sent"]
          /\ \A d \in Clients : d # c => registration'[d] = registration[d]
      BY <1>1, <3>2, <3>3, RegistrationChanges
    <3> QED
      BY <3>3, <3>4
  <2> QED
    BY <2>1, <2>2
<1>5. /\ conn' \in [Clients -> ConnStates]
      /\ call[a].stage = "connecting" => conn'[c] = "up"
      /\ \A d \in Clients : d # c => conn'[d] = conn[d]
  BY <1>1 DEF FactoryTypeOK, ConnStates
<1>6. FactoryTypeOK'
  <2>1. \A d \in retrying : conn'[d] = "down"
    BY <1>2, <1>5 DEF FactoryTypeOK
  <2> QED
    BY <1>1, <1>3, <1>4, <1>5, <2>1 DEF FactoryTypeOK, CallStates
<1>7. CallsMatch'
  BY <1>1, <1>3 DEF CallsMatch, HasClient
<1>8. ClientsMatch'
  <2> SUFFICES ASSUME NEW b \in Calls, b # a, NEW d, d = call[b].client,
                      call[b].stage \in {"connecting", "notifying"}
               PROVE  /\ call[b].stage = "connecting" =>
                             conn'[d] = "opening" /\ d \notin waking' /\ registration'[d] = Unregistered
                      /\ call[b].stage = "notifying" /\ MayLive(d)' => d = Current \/ d \in abandoned'
    BY <1>3 DEF ClientsMatch
  <2>1. d \in Clients /\ d # c
    BY <1>1 DEF CallsMatch, HasClient
  <2> QED
    BY <1>4, <1>5, <2>1 DEF ClientsMatch, MayLive, Live
<1>9. RequestsMatch'
  BY <1>4 DEF RequestsMatch
<1>10. RegistrationAgrees'
  <2> SUFFICES ASSUME NEW d \in Clients
               PROVE  /\ registration'[d].version =>
                             registration'[d].enrolled \/ registration'[d].outlived
                      /\ registration'[d].enrolled /\ (\E b \in Calls : call'[b].client = d
                                                                 /\ call'[b].stage = "registering")
                            => registration'[d].request = "success"
    BY DEF RegistrationAgrees
  <2>1. CASE d # c
    BY <1>1, <1>3, <1>4, <2>1 DEF RegistrationAgrees
  <2>2. CASE d = c
    <3>1. registration'[c].version => registration'[c].enrolled \/ registration'[c].outlived
      BY <1>1, <1>4 DEF RegistrationAgrees
    <3>2. ASSUME NEW b \in Calls, call'[b].client = c, call'[b].stage = "registering"
          PROVE  ~registration'[c].enrolled
      <4>1. b = a
        BY <1>1, <1>3, <3>2
      <4> QED
        BY <1>3, <1>4, <3>2, <4>1
    <3> QED
      BY <2>2, <3>1, <3>2
  <2> QED
    BY <2>1, <2>2
<1>11. LiveClientsOwned'
  BY <1>3, <1>5 DEF LiveClientsOwned, MayLive, Live, InCall
<1> QED
  BY <1>6, <1>7, <1>8, <1>9, <1>10, <1>11

LEMMA DaemonAnswersInv ==
    ASSUME FactoryInv, NEW c \in Clients, DaemonAnswers(c), reconnector'.client = Current
    PROVE  FactoryInv'
<1> USE DEF FactoryInv, Current
<1>0. UNCHANGED <<conn, retrying, waking, call, abandoned>>
  BY DEF DaemonAnswers
<1>1. PICK answer \in {"success", "other"} :
          registration' = [registration EXCEPT ![c].request = answer,
                                               ![c].enrolled = (answer = "success")]
  BY DEF DaemonAnswers
<1>2. ~registration[c].version /\ ~registration[c].enrolled
  BY DEF DaemonAnswers, RequestsMatch
<1>3. registration[c].request = "sent"
  BY DEF DaemonAnswers
<1>4. /\ registration' \in [Clients -> Registrations]
      /\ ~registration'[c].version
      /\ registration'[c].request = answer
      /\ registration'[c].enrolled <=> (answer = "success")
      /\ \A d \in Clients : d # c => registration'[d] = registration[d]
  <2>1. PICK r \in Registrations : r = registration[c]
    BY DEF FactoryTypeOK
  <2>2. PICK success \in BOOLEAN : success = (answer = "success")
    OBVIOUS
  <2> DEFINE answered == [r EXCEPT !.request = answer, !.enrolled = success]
  <2>3. registration' = [registration EXCEPT ![c] = answered]
    BY <1>1, <2>1, <2>2
  <2>4. /\ answered \in Registrations
        /\ answered.version <=> r.version
        /\ answered.request = answer
        /\ answered.enrolled <=> success
    BY DEF Registrations
  <2> HIDE DEF answered
  <2>5. /\ registration' \in [Clients -> Registrations]
        /\ registration'[c] = answered
        /\ \A d \in Clients : d # c => registration'[d] = registration[d]
    BY <2>3, <2>4, RegistrationChanges
  <2> QED
    BY <1>2, <2>1, <2>2, <2>4, <2>5
<1>6. FactoryTypeOK'
  BY <1>0, <1>4 DEF FactoryTypeOK
<1>7. CallsMatch'
  BY <1>0 DEF CallsMatch
<1>8. ClientsMatch'
  <2>1. \A b \in Calls : call[b].stage = "connecting" => call[b].client # c
    BY <1>3 DEF ClientsMatch, Unregistered
  <2>2. \A b \in Calls : call[b].stage = "connecting" => call[b].client \in Clients
    BY DEF CallsMatch, HasClient
  <2> QED
    BY <1>0, <1>4, <2>1, <2>2 DEF ClientsMatch, MayLive, Live
<1>9. RequestsMatch'
  BY <1>4 DEF RequestsMatch
<1>10. RegistrationAgrees'
  BY <1>0, <1>4 DEF RegistrationAgrees
<1>11. LiveClientsOwned'
  BY <1>0 DEF LiveClientsOwned, MayLive, Live, InCall
<1> QED
  BY <1>0, <1>6, <1>7, <1>8, <1>9, <1>10, <1>11

LEMMA AnswerArrivesInv ==
    ASSUME FactoryInv, NEW c \in Clients, AnswerArrives(c), reconnector'.client = Current
    PROVE  FactoryInv'
<1> USE DEF FactoryInv, Current
<1> DEFINE waiting == {a \in Calls : call[a].stage = "registering" /\ call[a].client = c}
<1>0. UNCHANGED <<conn, retrying, waking, abandoned>>
  BY DEF AnswerArrives
<1>1. registration[c].request # "none"
  BY DEF AnswerArrives
<1>2. /\ call' \in [Calls -> CallStates]
      /\ \A a \in Calls : /\ call'[a].client = call[a].client
                         /\ call'[a].try = call[a].try
                         /\ call'[a].stage = IF a \in waiting THEN "joining" ELSE call[a].stage
  <2>1. call' = [a \in Calls |-> IF a \in waiting THEN [call[a] EXCEPT !.stage = "joining"]
                                                  ELSE call[a]]
    BY DEF AnswerArrives
  <2>2. \A a \in Calls : call[a] \in CallStates
    BY DEF FactoryTypeOK, CallStates
  <2> HIDE DEF waiting
  <2>3. \A a \in Calls : /\ [call[a] EXCEPT !.stage = "joining"] \in CallStates
                         /\ [call[a] EXCEPT !.stage = "joining"].client = call[a].client
                         /\ [call[a] EXCEPT !.stage = "joining"].try = call[a].try
                         /\ [call[a] EXCEPT !.stage = "joining"].stage = "joining"
    BY <2>2 DEF CallStates, Stages
  <2> QED
    BY <2>1, <2>2, <2>3
<1>3. /\ registration' \in [Clients -> Registrations]
      /\ \/ registration[c].request = "success"
         \/ registration'[c].version <=> registration[c].version
      /\ registration'[c].request = "none"
      /\ registration'[c].enrolled <=> registration[c].enrolled
      /\ registration'[c].outlived <=> registration[c].outlived
      /\ \A d \in Clients : d # c => registration'[d] = registration[d]
  <2>1. PICK r \in Registrations : r = registration[c]
    BY DEF FactoryTypeOK
  <2>2. PICK named \in BOOLEAN :
            registration' = [registration EXCEPT ![c].request = "none",
                ![c].version = IF registration[c].request = "success" /\ waiting # {}
                               THEN named ELSE registration[c].version]
    BY DEF AnswerArrives
  <2> HIDE DEF waiting
  <2>3. PICK set \in BOOLEAN :
            set = IF r.request = "success" /\ waiting # {} THEN named ELSE r.version
    BY DEF Registrations
  <2> DEFINE arrived == [r EXCEPT !.request = "none", !.version = set]
  <2>4. registration' = [registration EXCEPT ![c] = arrived]
    BY <2>1, <2>2, <2>3
  <2>5. /\ arrived \in Registrations
        /\ arrived.version <=> set
        /\ arrived.request = "none"
        /\ arrived.enrolled <=> r.enrolled
        /\ arrived.outlived <=> r.outlived
    BY DEF Registrations
  <2> HIDE DEF arrived
  <2>6. /\ registration' \in [Clients -> Registrations]
        /\ registration'[c] = arrived
        /\ \A d \in Clients : d # c => registration'[d] = registration[d]
    BY <2>4, <2>5, RegistrationChanges
  <2>7. r.request = "success" \/ (set <=> r.version)
    BY <2>3
  <2> QED
    BY <2>1, <2>5, <2>6, <2>7
<1>4. FactoryTypeOK'
  BY <1>0, <1>2, <1>3 DEF FactoryTypeOK, CallStates
<1>5. CallsMatch'
  BY <1>0, <1>2 DEF CallsMatch, HasClient
<1>6. ClientsMatch'
  <2>1. \A a \in Calls : call[a].stage = "connecting" => call[a].client # c
    BY <1>1 DEF ClientsMatch, Unregistered
  <2>2. \A a \in Calls : call[a].stage = "connecting" => call[a].client \in Clients
    BY DEF CallsMatch, HasClient
  <2>3. \A d : MayLive(d)' <=> MayLive(d)
    BY <1>0 DEF MayLive, Live
  <2>4. \A a \in Calls : call'[a].stage \in {"connecting", "notifying"} =>
                          call'[a].stage = call[a].stage
    BY <1>2
  <2> QED
    BY <1>0, <1>2, <1>3, <2>1, <2>2, <2>3, <2>4 DEF ClientsMatch
<1>7. RequestsMatch'
  BY <1>3 DEF RequestsMatch
<1>8. RegistrationAgrees'
  <2>1. registration'[c].version => registration'[c].enrolled \/ registration'[c].outlived
    BY <1>3 DEF RequestsMatch, RegistrationAgrees
  <2>2. \A a \in Calls : call'[a].client = c => call'[a].stage # "registering"
    BY <1>2
  <2>3. \A a \in Calls : call'[a].stage = "registering" => call[a].stage = "registering"
    BY <1>2
  <2> HIDE DEF waiting
  <2> QED
    BY <1>2, <1>3, <2>1, <2>2, <2>3 DEF RegistrationAgrees
<1>9. LiveClientsOwned'
  BY <1>0, <1>2 DEF LiveClientsOwned, MayLive, Live, InCall
<1> QED
  BY <1>0, <1>4, <1>5, <1>6, <1>7, <1>8, <1>9

\* The old client is disconnected.
LEMMA ReplaceInv ==
    ASSUME FactoryInv, NEW a \in Calls, Returns(a), GiveUp(Current),
           call' = [call EXCEPT ![a].stage = "replacing"], reconnector'.client = Current
    PROVE  FactoryInv' /\ (MayLive(Current)' => Current \in abandoned')
<1> SUFFICES ASSUME NEW old, old = Current
             PROVE  FactoryInv' /\ (MayLive(Current)' => Current \in abandoned')
  OBVIOUS
<1>1. call[a].stage = "joining"
  BY DEF Returns
<1>2. /\ call[a].client \in Clients /\ call[a].client # NoClient /\ call[a].client # old
      /\ \A b \in Calls : b # a => call[b].client # call[a].client
  BY <1>1, ClientOfCall
<1>3. /\ old \in Clients /\ Current' = old
      /\ Move(old, "down")
      /\ retrying' \ {old} = retrying \ {old} /\ waking' \ {old} = waking \ {old}
      /\ abandoned \subseteq abandoned' /\ abandoned' \subseteq Clients
      /\ MayLive(old)' => old \in abandoned'
  BY GiveUpEffect DEF FactoryInv, Current
<1>4. /\ conn' \in [Clients -> ConnStates]
      /\ registration' \in [Clients -> Registrations]
      /\ conn'[old] = "down" /\ SessionEnded(old)'
      /\ \A d \in Clients : d # old => conn'[d] = conn[d] /\ registration'[d] = registration[d]
  BY <1>3, MoveEffect DEF FactoryInv, ConnStates
<1>5. /\ call' \in [Calls -> CallStates]
      /\ call'[a].stage = "replacing" /\ call'[a].client = call[a].client
      /\ \A b \in Calls : b # a => call'[b] = call[b]
  BY DEF FactoryInv, FactoryTypeOK, CallStates, Stages
<1> USE DEF FactoryInv
<1>6. FactoryTypeOK'
  BY <1>3, <1>4, <1>5 DEF FactoryTypeOK, CallStates
<1>7. CallsMatch'
  BY <1>1, <1>2, <1>3, <1>5 DEF CallsMatch, HasClient
<1>8. ClientsMatch'
  <2> SUFFICES ASSUME NEW b \in Calls, b # a, NEW d, d = call[b].client,
                      call[b].stage \in {"connecting", "notifying"}
               PROVE  /\ call[b].stage = "connecting" =>
                             conn'[d] = "opening" /\ d \notin waking' /\ registration'[d] = Unregistered
                      /\ call[b].stage = "notifying" /\ MayLive(d)' => d = old \/ d \in abandoned'
    BY <1>3, <1>5 DEF ClientsMatch
  <2>1. d \in Clients
    BY DEF CallsMatch, HasClient
  <2>2. CASE d # old
    <3>1. conn'[d] = conn[d] /\ registration'[d] = registration[d] /\ (MayLive(d)' <=> MayLive(d))
          /\ (d \in waking' <=> d \in waking)
      BY <1>3, <1>4, <2>1, <2>2 DEF MayLive, Live
    <3> QED
      BY <1>3, <2>2, <3>1 DEF ClientsMatch
  <2>3. CASE d = old
    BY <2>3 DEF CallsMatch, HasClient
  <2> QED
    BY <2>2, <2>3
<1>9. RequestsMatch'
  BY <1>3, <1>4 DEF RequestsMatch, SessionEnded
<1>10. RegistrationAgrees'
  BY <1>3, <1>4, <1>5 DEF RegistrationAgrees, SessionEnded
<1>11. LiveClientsOwned'
  <2> SUFFICES ASSUME NEW d \in Clients, d # old, MayLive(d)'
               PROVE  InCall(d)' \/ d \in abandoned'
    BY <1>3 DEF LiveClientsOwned
  <2>1. MayLive(d)
    BY <1>3, <1>4 DEF MayLive, Live
  <2> QED
    BY <1>3, <1>5, <2>1 DEF LiveClientsOwned, InCall
<1> QED
  BY <1>3, <1>6, <1>7, <1>8, <1>9, <1>10, <1>11

\* The new client takes the place of the old one.
LEMMA WireInv ==
    ASSUME FactoryInv, ReplacingMatch, NEW a \in Calls, NEW new, new = call[a].client,
           call[a].stage = "replacing", call' = [call EXCEPT ![a].stage = "notifying"],
           UNCHANGED <<conn, retrying, waking, registration, abandoned>>,
           reconnector'.client = new
    PROVE  FactoryInv' /\ ReplacingMatch'
<1>1. /\ new \in Clients /\ new # NoClient /\ new # Current /\ Current' = new
      /\ \A b \in Calls : b # a => call[b].client # new
  BY ClientOfCall DEF Current
<1>2. MayLive(Current) => Current \in abandoned
  BY DEF ReplacingMatch
<1>3. /\ call' \in [Calls -> CallStates]
      /\ call'[a].stage = "notifying" /\ call'[a].client = new
      /\ \A b \in Calls : b # a => call'[b] = call[b]
      /\ \A b \in Calls : call'[b].client = call[b].client
  BY DEF FactoryInv, FactoryTypeOK, CallStates, Stages
<1>4. \A d : MayLive(d)' <=> MayLive(d)
  BY DEF MayLive, Live
<1> USE DEF FactoryInv
<1>5. FactoryTypeOK'
  BY <1>3 DEF FactoryTypeOK, CallStates
<1>6. CallsMatch'
  BY <1>1, <1>3 DEF CallsMatch, HasClient
<1>7. ClientsMatch'
  BY <1>1, <1>2, <1>3, <1>4 DEF ClientsMatch
<1>8. RequestsMatch'
  BY DEF RequestsMatch
<1>9. RegistrationAgrees'
  BY <1>3 DEF RegistrationAgrees
<1>10. LiveClientsOwned'
  BY <1>1, <1>2, <1>3, <1>4 DEF LiveClientsOwned, InCall
<1>11. ReplacingMatch'
  BY <1>3 DEF ReplacingMatch
<1> QED
  BY <1>1, <1>5, <1>6, <1>7, <1>8, <1>9, <1>10, <1>11

-----------------------------------------------------------------------------
(* Attempts are counted *)

LEMMA AttemptsCounted ==
    /\ Attempts = reconnector.timers + Cardinality(Active)
    /\ Attempts' = reconnector'.timers + Cardinality(Active)'
    /\ IsFiniteSet(Active) /\ Cardinality(Active) \in Nat
    /\ Active # {} => Cardinality(Active) > 0
<1>1. IsFiniteSet(Active)
  BY ReconnectorAssumption, FS_Subset DEF Active
<1>2. Cardinality(Active) \in Nat
  BY <1>1, FS_CardinalityType
<1>3. Active # {} => Cardinality(Active) # 0
  BY <1>1, FS_EmptySet
<1> QED
  BY <1>1, <1>2, <1>3 DEF Attempts, AttemptsOf, Active

\* A step that begins no attempt's call and ends none.
LEMMA CallsStay ==
    ASSUME \A b \in Calls : call'[b].stage \in {"none", "notifying"} <=>
                           call[b].stage \in {"none", "notifying"}
    PROVE  Cardinality(Active)' = Cardinality(Active)
<1>1. Active' = Active
  BY DEF Active
<1> QED
  BY <1>1

LEMMA CallJoins ==
    ASSUME NEW a \in Calls, a \notin Active, call'[a].stage \notin {"none", "notifying"},
           \A b \in Calls : b # a => call'[b] = call[b]
    PROVE  Cardinality(Active)' = Cardinality(Active) + 1
<1>1. Active' = Active \cup {a}
  BY DEF Active
<1> QED
  BY <1>1, AttemptsCounted, FS_AddElement

LEMMA CallLeaves ==
    ASSUME NEW a \in Calls, a \in Active, call'[a].stage \in {"none", "notifying"},
           \A b \in Calls : b # a => call'[b] = call[b]
    PROVE  Cardinality(Active)' = Cardinality(Active) - 1
<1>1. Active' = Active \ {a}
  BY DEF Active
<1> QED
  BY <1>1, AttemptsCounted, FS_RemoveElement

-----------------------------------------------------------------------------
(* The functions of the closure *)

Closures == [cancelled : BOOLEAN, busy : BOOLEAN, delay : InitialDelay .. MaxDelay,
             timers : Nat, latestPending : BOOLEAN,
             client : Clients, watched : Clients \cup {NoClient}]

\* What no function of the closure changes, but for cancel().
Kept(r, s) == s.client = r.client /\ s.watched = r.watched /\ (s.cancelled <=> r.cancelled)

LEMMA AttemptReconnectEffect ==
    ASSUME NEW r \in Closures, NEW s, s = AttemptReconnect(r)
    PROVE  /\ s \in Closures /\ Kept(r, s)
           /\ IF r.cancelled \/ r.busy THEN s = r
              ELSE s.busy /\ s.timers = r.timers + 1 /\ s.latestPending
<1>1. CASE r.cancelled \/ r.busy
  BY <1>1 DEF AttemptReconnect, Kept
<1>2. CASE ~(r.cancelled \/ r.busy)
  <2>1. PICK set \in BOOLEAN : set = TRUE
    OBVIOUS
  <2>2. PICK n \in Nat : n = r.timers + 1
    BY DEF Closures
  <2> DEFINE t == [r EXCEPT !.busy = set, !.timers = n, !.latestPending = set]
  <2>3. t \in Closures /\ Kept(r, t) /\ (t.busy <=> set) /\ t.timers = n /\ (t.latestPending <=> set)
    BY DEF Closures, Kept
  <2>4. s = t
    BY <1>2, <2>1, <2>2 DEF AttemptReconnect
  <2> HIDE DEF t
  <2> QED
    BY <1>2, <2>1, <2>2, <2>3, <2>4
<1> QED
  BY <1>1, <1>2

\* The next delay is a delay.
LEMMA NextDelay ==
    ASSUME NEW delay \in InitialDelay .. MaxDelay
    PROVE  Min({delay * BackoffMultiplier, MaxDelay}) \in InitialDelay .. MaxDelay
<1>1. \A k \in Nat \ {0} : delay * k >= delay /\ delay * k \in Nat
  BY ReconnectorAssumption
<1> DEFINE longer == delay * BackoffMultiplier
<1>2. longer \in Nat /\ longer >= InitialDelay
  BY <1>1, ReconnectorAssumption
<1> HIDE DEF longer
<1>3. \E x \in {longer, MaxDelay} : \A y \in {longer, MaxDelay} : x =< y
  BY <1>2, ReconnectorAssumption
<1>4. /\ Min({longer, MaxDelay}) \in {longer, MaxDelay}
      /\ \A y \in {longer, MaxDelay} : Min({longer, MaxDelay}) =< y
  BY <1>3 DEF Min
<1>5. Min({longer, MaxDelay}) \in InitialDelay .. MaxDelay
  BY <1>2, <1>4, ReconnectorAssumption
<1> QED
  BY <1>5 DEF longer

LEMMA FailedEffect ==
    ASSUME NEW r \in Closures, NEW s, s = Failed(r)
    PROVE  /\ s \in Closures /\ Kept(r, s)
           /\ IF r.cancelled THEN s.timers = r.timers /\ (s.latestPending <=> r.latestPending)
              ELSE s.busy /\ s.timers = r.timers + 1 /\ s.latestPending
<1> DEFINE longer == Min({r.delay * BackoffMultiplier, MaxDelay})
           t == [r EXCEPT !.delay = longer, !.busy = FALSE]
<1>1. longer \in InitialDelay .. MaxDelay
  BY NextDelay DEF Closures
<1>2. s = AttemptReconnect(t)
  BY DEF Failed
<1> HIDE DEF longer
<1>3. /\ t \in Closures /\ Kept(r, t) /\ ~t.busy
      /\ t.timers = r.timers /\ (t.latestPending <=> r.latestPending)
  BY <1>1 DEF Closures, Kept
<1> HIDE DEF t
<1>4. /\ s \in Closures /\ Kept(t, s)
      /\ IF t.cancelled \/ t.busy THEN s = t
         ELSE s.busy /\ s.timers = t.timers + 1 /\ s.latestPending
  BY <1>2, <1>3, AttemptReconnectEffect
<1> QED
  BY <1>3, <1>4 DEF Kept

LEMMA ReactsEffect ==
    ASSUME NEW r \in Closures, NEW state, NEW s, s = Reacts(r, state)
    PROVE  /\ s \in Closures /\ Kept(r, s)
           /\ state \notin {"up", "down"} => s = r
           /\ state = "up" => ~s.busy /\ s.timers = r.timers /\ (s.latestPending <=> r.latestPending)
           /\ state = "down" => IF r.cancelled \/ r.busy THEN s = r
                                ELSE s.busy /\ s.timers = r.timers + 1 /\ s.latestPending
<1>1. CASE state \notin {"up", "down"}
  <2>1. s = r
    BY <1>1 DEF Reacts
  <2> QED
    BY <1>1, <2>1 DEF Kept
<1>2. CASE state = "up"
  <2> DEFINE t == [r EXCEPT !.delay = InitialDelay, !.busy = FALSE]
  <2>1. s = t
    BY <1>2 DEF Reacts
  <2>2. InitialDelay \in InitialDelay .. MaxDelay
    BY ReconnectorAssumption
  <2>3. /\ t \in Closures /\ Kept(r, t)
        /\ ~t.busy /\ t.timers = r.timers /\ (t.latestPending <=> r.latestPending)
    BY <2>2 DEF Closures, Kept
  <2> HIDE DEF t
  <2> QED
    BY <1>2, <2>1, <2>3
<1>3. CASE state = "down"
  <2>1. s = AttemptReconnect(r)
    BY <1>3 DEF Reacts
  <2>2. /\ s \in Closures /\ Kept(r, s)
        /\ IF r.cancelled \/ r.busy THEN s = r
           ELSE s.busy /\ s.timers = r.timers + 1 /\ s.latestPending
    BY <2>1, AttemptReconnectEffect
  <2> QED
    BY <1>3, <2>2
<1> QED
  BY <1>1, <1>2, <1>3

LEMMA CancelledEffect ==
    ASSUME NEW r \in Closures, r.latestPending => r.timers > 0, NEW s, s = Cancelled(r)
    PROVE  /\ s \in Closures /\ s.client = r.client
           /\ s.cancelled /\ ~s.latestPending /\ s.timers <= r.timers
<1>1. PICK n \in Nat : n <= r.timers /\ n = IF r.latestPending THEN r.timers - 1 ELSE r.timers
  BY DEF Closures
<1>2. s = [r EXCEPT !.cancelled = TRUE, !.timers = n, !.latestPending = FALSE,
                    !.watched = NoClient]
  BY <1>1 DEF Cancelled
<1> QED
  BY <1>1, <1>2 DEF Closures

\* The handler hears of a state, and the consumer may cancel.
LEMMA HeedsEffect ==
    ASSUME reconnector \in Closures, reconnector.latestPending => reconnector.timers > 0,
           ~reconnector.cancelled, NEW state, Heeds(state)
    PROVE  /\ reconnector' \in Closures /\ reconnector'.client = reconnector.client
           /\ reconnector'.latestPending => reconnector'.timers > 0
           /\ ~reconnector'.cancelled =>
                 /\ reconnector' = Reacts(reconnector, state)
                 /\ reconnector'.watched = reconnector.watched
<1>1. CASE reconnector' = Reacts(reconnector, state)
  <2>1. /\ reconnector' \in Closures /\ Kept(reconnector, reconnector')
        /\ \/ reconnector' = reconnector
           \/ reconnector'.timers = reconnector.timers
                 /\ (reconnector'.latestPending <=> reconnector.latestPending)
           \/ reconnector'.timers = reconnector.timers + 1
    BY <1>1, ReactsEffect
  <2> QED
    BY <1>1, <2>1 DEF Kept, Closures
<1>2. CASE reconnector' = Reacts(Cancelled(reconnector), state)
  <2> DEFINE r == Cancelled(reconnector)
  <2>1. r \in Closures /\ r.client = reconnector.client /\ r.cancelled /\ ~r.latestPending
    BY CancelledEffect
  <2> HIDE DEF r
  <2>2. reconnector' = Reacts(r, state)
    BY <1>2 DEF r
  <2>3. /\ reconnector' \in Closures /\ Kept(r, reconnector')
        /\ reconnector' = r \/ (reconnector'.latestPending <=> r.latestPending)
    BY <2>1, <2>2, ReactsEffect
  <2> QED
    BY <2>1, <2>3 DEF Kept
<1> QED
  BY <1>1, <1>2 DEF Heeds

LEMMA RescueEffect ==
    ASSUME NEW now \in BOOLEAN, Rescue(now)
    PROVE  /\ rescued' \in BOOLEAN
           /\ rescued' <=> (rescued \/ now) /\ Attempts' > 0
BY DEF Rescue, Attempts

-----------------------------------------------------------------------------
(* What each action does to calls, clients and their registrations *)

Misses == {"nothing", "lost before it was wired", "the consumer threw"}

\* The current client of an action that does not replace it.
LEMMA ClosureFacts ==
    ASSUME Inv
    PROVE  /\ reconnector \in Closures /\ reconnector.timers <= MaxTimers
           /\ reconnector.latestPending => reconnector.timers > 0
           /\ ~reconnector.cancelled => reconnector.watched = Current
           /\ missed \in Misses
           /\ Current = reconnector.client /\ Current \in Clients
           /\ Attempts = reconnector.timers + Cardinality(Active)
           /\ Cardinality(Active) \in Nat /\ Attempts \in Nat
           /\ Active # {} => Attempts > 0
<1>0. reconnector.timers \in 0 .. MaxTimers /\ reconnector \in Closures
  <2>1. reconnector \in [cancelled : BOOLEAN, busy : BOOLEAN, delay : InitialDelay .. MaxDelay,
                         timers : 0 .. MaxTimers, latestPending : BOOLEAN,
                         client : Clients, watched : Clients \cup {NoClient}]
    BY DEF Inv, ClosureInv, ReconnectorTypeOK
  <2> QED
    BY <2>1, ReconnectorAssumption DEF Closures
<1>1. reconnector \in Closures /\ reconnector.timers <= MaxTimers /\ reconnector.timers \in Nat
  BY <1>0, ReconnectorAssumption
<1>2. missed \in Misses
  BY DEF Inv, ClosureInv, ReconnectorTypeOK, Misses
<1>3. /\ reconnector.latestPending => reconnector.timers > 0
      /\ ~reconnector.cancelled => reconnector.watched = Current
      /\ Current = reconnector.client /\ Current \in Clients
  BY DEF Inv, FactoryInv, ClosureInv, ClosureMatches, Current
<1> QED
  BY <1>1, <1>2, <1>3, AttemptsCounted

LEMMA ClosureTyped ==
    ASSUME FactoryTypeOK', reconnector' \in Closures, reconnector'.timers <= MaxTimers,
           missed' \in Misses, rescued' \in BOOLEAN
    PROVE  ReconnectorTypeOK'
<1>1. missed' \in {"nothing", "lost before it was wired", "the consumer threw"}
  BY DEF Misses
<1>2. reconnector'.timers \in 0 .. MaxTimers
  BY ReconnectorAssumption DEF Closures
<1>3. reconnector' \in [cancelled : BOOLEAN, busy : BOOLEAN, delay : InitialDelay .. MaxDelay,
                       timers : 0 .. MaxTimers, latestPending : BOOLEAN,
                       client : Clients, watched : Clients \cup {NoClient}]
  BY <1>2 DEF Closures
<1> QED
  BY <1>1, <1>3 DEF ReconnectorTypeOK

\* A step of the closure that leaves the clients alone: nothing but the sum of
\* timers and calls matters, and an attempt that takes another's place.
LEMMA ClosureStep ==
    ASSUME Inv, FactoryInv', ReplacingMatch', reconnector' \in Closures,
           reconnector'.timers <= MaxTimers, missed' \in Misses, rescued' \in BOOLEAN,
           reconnector'.latestPending => reconnector'.timers > 0,
           \/ reconnector'.cancelled
           \/ /\ ~reconnector.cancelled
              /\ reconnector'.client = Current /\ reconnector'.watched = Current
              /\ conn'[Current] = conn[Current] /\ missed' = missed
              /\ Attempts' = Attempts
              /\ Attempts > 0 => (rescued' <=> rescued)
              /\ (reconnector'.busy <=> reconnector.busy) \/ (reconnector'.busy /\ Attempts > 0)
    PROVE  Inv'
<1>1. ReconnectorTypeOK'
  BY ClosureTyped DEF FactoryInv
<1>2. CASE reconnector'.cancelled
  BY <1>1, <1>2 DEF Inv, ClosureInv, ClosureMatches, OneAttempt, Tended
<1>3. CASE ~reconnector'.cancelled
  <2>1. Current' = Current
    BY <1>3 DEF Current
  <2> QED
    BY <1>1, <1>3, <2>1 DEF Inv, ClosureInv, ClosureMatches, OneAttempt, Tended
<1> QED
  BY <1>2, <1>3

\* While no call is disconnecting the current client, none but Replace begins to.
LEMMA NoneReplaces ==
    ASSUME ~Replacing, \A b \in Calls : call'[b].stage = "replacing" => call[b].stage = "replacing"
    PROVE  ReplacingMatch'
BY DEF Replacing, ReplacingMatch

LEMMA ReplacingStays ==
    ASSUME ReplacingMatch, UNCHANGED <<conn, retrying, waking, abandoned>>,
           reconnector'.client = Current,
           \A b \in Calls : call'[b].stage = "replacing" => call[b].stage = "replacing"
    PROVE  ReplacingMatch'
BY DEF ReplacingMatch, MayLive, Live, Current

LEMMA FactoryStays ==
    ASSUME FactoryInv, UNCHANGED factoryVars, reconnector'.client = Current
    PROVE  FactoryInv'
BY DEF factoryVars, FactoryInv, FactoryTypeOK, Current, CallsMatch, ClientsMatch, RequestsMatch,
       LiveClientsOwned, RegistrationAgrees, MayLive, Live, InCall

-----------------------------------------------------------------------------
(* Each action keeps the invariant *)

LEMMA CancelInv ==
    ASSUME Inv, Cancel, reconnector'.timers <= MaxTimers
    PROVE  Inv'
<1>1. reconnector \in Closures /\ (reconnector.latestPending => reconnector.timers > 0)
  BY ClosureFacts
<1>2. /\ reconnector' \in Closures /\ reconnector'.client = Current
      /\ reconnector'.cancelled /\ ~reconnector'.latestPending
  BY <1>1, CancelledEffect DEF Cancel, Current
<1>3. FactoryInv' /\ ReplacingMatch'
  BY <1>2, FactoryStays, ReplacingStays DEF Inv, Cancel, factoryVars
<1>4. rescued' \in BOOLEAN /\ missed' \in Misses
  BY RescueEffect, ClosureFacts DEF Cancel
<1> QED
  BY <1>2, <1>3, <1>4, ClosureStep

LEMMA TimerFiresInv ==
    ASSUME Inv, ~Replacing, NEW a \in Calls, TimerFires(a), reconnector'.timers <= MaxTimers
    PROVE  Inv'
<1>0. /\ reconnector \in Closures /\ Attempts = reconnector.timers + Cardinality(Active)
      /\ Cardinality(Active) \in Nat
      /\ Current = reconnector.client
  BY ClosureFacts
<1>1. /\ reconnector.timers > 0 /\ call[a] = Idle
      /\ UNCHANGED <<conn, retrying, waking, registration, abandoned, missed>>
      /\ IF reconnector.cancelled THEN UNCHANGED call ELSE Begins(a)
  BY DEF TimerFires
<1>2. rescued' \in BOOLEAN /\ (rescued' <=> rescued /\ Attempts' > 0)
  BY RescueEffect DEF TimerFires
<1>3. PICK latest \in BOOLEAN :
          /\ latest => reconnector.latestPending
          /\ ~latest => reconnector.timers > (IF reconnector.latestPending THEN 1 ELSE 0)
          /\ reconnector' = [reconnector EXCEPT !.timers = @ - 1, !.latestPending = @ /\ ~latest]
  BY DEF TimerFires
<1>4. /\ reconnector' \in Closures /\ Kept(reconnector, reconnector')
      /\ reconnector'.timers = reconnector.timers - 1
      /\ reconnector'.latestPending <=> (reconnector.latestPending /\ ~latest)
      /\ reconnector'.busy <=> reconnector.busy
  <2>1. PICK l \in BOOLEAN : l = (reconnector.latestPending /\ ~latest)
    OBVIOUS
  <2>2. PICK n \in Nat : n = reconnector.timers - 1
    BY <1>0, <1>1 DEF Closures
  <2> DEFINE r == [reconnector EXCEPT !.timers = n, !.latestPending = l]
  <2>3. /\ r \in Closures /\ Kept(reconnector, r)
        /\ r.timers = n /\ (r.latestPending <=> l) /\ (r.busy <=> reconnector.busy)
    BY <1>0 DEF Closures, Kept
  <2>4. reconnector' = r
    BY <1>3, <2>1, <2>2
  <2> HIDE DEF r
  <2> QED
    BY <2>1, <2>2, <2>3, <2>4
<1>5. FactoryInv'
  <2>1. reconnector'.client = Current
    BY <1>0, <1>4 DEF Kept
  <2>2. CASE reconnector.cancelled
    BY <1>1, <2>1, <2>2, FactoryStays DEF Inv, factoryVars
  <2>3. CASE ~reconnector.cancelled
    BY <1>1, <2>1, <2>3, BeginsInv DEF Inv
  <2> QED
    BY <2>2, <2>3
<1>6. /\ reconnector'.latestPending => reconnector'.timers > 0
      /\ missed' \in Misses
  BY <1>0, <1>1, <1>3, <1>4, ClosureFacts DEF Closures
<1>9. ReplacingMatch'
  BY <1>1, NoneReplaces DEF Begins, Await, Inv, FactoryInv, FactoryTypeOK
<1>7. CASE reconnector.cancelled
  BY <1>2, <1>4, <1>5, <1>6, <1>7, <1>9, ClosureStep DEF Kept
<1>8. CASE ~reconnector.cancelled
  <2>1. a \notin Active
    BY <1>1 DEF Active, Idle
  <2>2. /\ call'[a] = [stage |-> "finding", try |-> 0, client |-> NoClient]
        /\ \A b \in Calls : b # a => call'[b] = call[b]
    BY <1>1, <1>8 DEF Begins, Await, Inv, FactoryInv, FactoryTypeOK
  <2>3. Cardinality(Active)' = Cardinality(Active) + 1
    BY <2>1, <2>2, CallJoins
  <2>4. Attempts' = reconnector'.timers + Cardinality(Active)'
    BY AttemptsCounted
  <2>5. Attempts' = Attempts /\ Attempts > 0
    BY <1>0, <1>1, <1>4, <2>3, <2>4 DEF Closures
  <2>6. reconnector'.client = Current /\ reconnector'.watched = Current
    BY <1>0, <1>4, <1>8 DEF Kept, Inv, ClosureInv, ClosureMatches
  <2> QED
    BY <1>1, <1>2, <1>4, <1>5, <1>6, <1>8, <1>9, <2>5, <2>6, ClosureStep, ClosureFacts
<1> QED
  BY <1>7, <1>8

\* What the steps of calls and registrations leave as it is.
LEMMA ReconnectorStays ==
    ASSUME Inv, FactoryInv', ReplacingMatch', UNCHANGED <<reconnector, missed, rescued>>,
           conn'[Current] = conn[Current], Cardinality(Active)' = Cardinality(Active)
    PROVE  Inv'
<1>1. /\ reconnector' \in Closures /\ reconnector'.timers <= MaxTimers
      /\ reconnector'.client = Current /\ Attempts' = Attempts
  BY ClosureFacts, AttemptsCounted
<1>2. /\ reconnector'.latestPending => reconnector'.timers > 0
      /\ ~reconnector.cancelled => reconnector'.watched = Current
      /\ rescued' \in BOOLEAN /\ missed' \in Misses
  BY ClosureFacts DEF Inv, ClosureInv, ReconnectorTypeOK
<1> QED
  BY <1>1, <1>2, ClosureStep

LEMMA CallGoesOnInv ==
    ASSUME Inv, ~Replacing, NEW a \in Calls, CallGoesOn(a)
    PROVE  Inv'
<1>1. /\ UNCHANGED <<reconnector, missed, rescued>>
      /\ reconnector'.client = Current /\ Current \in Clients
  BY DEF CallGoesOn, Inv, FactoryInv, Current
<1>2. call[a].try \in 0 .. MaxRetries
  BY DEF Inv, FactoryInv, FactoryTypeOK
<1>3. SUFFICES /\ FactoryInv'
               /\ conn'[Current] = conn[Current]
               /\ call[a].stage \notin {"none", "notifying"}
               /\ call'[a].stage \notin {"none", "notifying", "replacing"}
               /\ \A b \in Calls : b # a => call'[b] = call[b]
  BY <1>1, CallsStay, NoneReplaces, ReconnectorStays
<1> USE DEF Inv
<1>4. CASE FindingSucceeds(a)
  BY <1>1, <1>4, FindingSucceedsInv DEF FindingSucceeds, Await, FactoryInv, FactoryTypeOK
<1>5. ASSUME NEW try \in 0 .. MaxRetries, Attempt(a, try, {Current}),
             call[a].stage \in {"warming", "waiting"}
      PROVE  /\ FactoryInv'
             /\ conn'[Current] = conn[Current]
             /\ call'[a].stage \notin {"none", "notifying", "replacing"}
             /\ \A b \in Calls : b # a => call'[b] = call[b]
  <2>1. FactoryInv'
    BY <1>1, <1>5, AttemptInv
  <2>2. PICK c \in Clients :
            c # Current /\ conn' = [conn EXCEPT ![c] = "opening"] /\ Await(a, "connecting", try, c)
    BY <1>5 DEF Attempt
  <2>3. conn'[Current] = conn[Current]
    BY <1>1, <2>2 DEF FactoryInv, FactoryTypeOK
  <2> QED
    BY <2>1, <2>2, <2>3 DEF Await, FactoryInv, FactoryTypeOK
<1>6. CASE WarmUpEnds(a, {Current})
  BY <1>5, <1>6, FactoryAssumption DEF WarmUpEnds
<1>7. CASE NextAttempt(a, {Current})
  <2>1. call[a].try + 1 \in 0 .. MaxRetries
    BY <1>2, <1>7, FactoryAssumption DEF NextAttempt, FactoryInv, CallsMatch
  <2> QED
    BY <1>5, <1>7, <2>1 DEF NextAttempt
<1>8. CASE AttemptFails(a)
  <2>1. ConnectFails(a) /\ call[a].try < MaxRetries /\ Await(a, "waiting", call[a].try, NoClient)
    BY <1>8 DEF AttemptFails
  <2>2. FactoryInv'
    BY <1>1, <2>1, AttemptFailsInv
  <2>3. call[a].stage = "connecting" /\ Move(call[a].client, "down")
    BY <2>1 DEF ConnectFails
  <2>4. conn'[Current] = conn[Current]
    BY <1>1, <2>3, ClientOfCall, MoveEffect DEF FactoryInv, ConnStates
  <2> QED
    BY <2>1, <2>2, <2>3, <2>4 DEF Await, FactoryInv, FactoryTypeOK
<1>9. CASE AttemptSucceeds(a)
  <2> SUFFICES ASSUME NEW c, c = call[a].client
               PROVE  /\ FactoryInv'
                      /\ conn'[Current] = conn[Current]
                      /\ call[a].stage \notin {"none", "notifying"}
                      /\ call'[a].stage \notin {"none", "notifying", "replacing"}
                      /\ \A b \in Calls : b # a => call'[b] = call[b]
    OBVIOUS
  <2>1. /\ call[a].stage = "connecting" /\ conn' = [conn EXCEPT ![c] = "up"]
        /\ UNCHANGED <<retrying, abandoned>> /\ waking' = waking \cup {c}
        /\ \/ /\ registration' = [registration EXCEPT ![c].request = "sent"]
              /\ Await(a, "registering", 0, c)
           \/ Await(a, "joining", 0, c) /\ UNCHANGED registration
    BY <1>9 DEF AttemptSucceeds
  <2>2. PICK stage \in {"registering", "joining"} :
            /\ Await(a, stage, 0, c)
            /\ \/ registration' = [registration EXCEPT ![c].request = "sent"]
               \/ UNCHANGED registration
    BY <2>1
  <2>3. FactoryInv'
    <3>1. 0 \in 0 .. MaxRetries /\ waking' \in {waking, waking \cup {c}}
      BY <2>1, FactoryAssumption
    <3> QED
      BY <1>1, <2>1, <2>2, <3>1, CallKeepsClientInv
  <2>4. conn'[Current] = conn[Current]
    BY <1>1, <2>1, ClientOfCall DEF FactoryInv, FactoryTypeOK
  <2> QED
    BY <2>1, <2>2, <2>3, <2>4 DEF Await, FactoryInv, FactoryTypeOK
<1>10. CASE RegistrationTimesOut(a)
  <2>1. /\ call[a].stage = "registering" /\ Await(a, "joining", 0, call[a].client)
        /\ UNCHANGED <<conn, retrying, waking, registration, abandoned>>
    BY <1>10 DEF RegistrationTimesOut
  <2>2. FactoryInv'
    BY <1>1, <2>1, FactoryAssumption, CallKeepsClientInv
  <2> QED
    BY <2>1, <2>2 DEF Await, FactoryInv, FactoryTypeOK
<1> QED
  BY <1>4, <1>6, <1>7, <1>8, <1>9, <1>10 DEF CallGoesOn, FindingSucceeds, WarmUpEnds, NextAttempt,
     AttemptFails, ConnectFails, AttemptSucceeds, RegistrationTimesOut

LEMMA RegistrationInv ==
    ASSUME Inv, ~Replacing, NEW c \in Clients, Registration(c)
    PROVE  Inv'
<1>1. UNCHANGED <<reconnector, missed, rescued>> /\ reconnector'.client = Current
  BY DEF Registration, Current
<1>2. FactoryInv'
  BY <1>1, DaemonAnswersInv, AnswerArrivesInv DEF Registration, Inv
<1>3. conn' = conn
  BY DEF Registration, DaemonAnswers, AnswerArrives
<1>4. \A b \in Calls : /\ call'[b].stage \in {"none", "notifying"} <=>
                             call[b].stage \in {"none", "notifying"}
                       /\ call'[b].stage = "replacing" => call[b].stage = "replacing"
  <2>1. CASE DaemonAnswers(c)
    BY <2>1 DEF DaemonAnswers
  <2>2. CASE AnswerArrives(c)
    <3>1. call' = [a \in Calls |-> IF call[a].stage = "registering" /\ call[a].client = c
                                   THEN [call[a] EXCEPT !.stage = "joining"] ELSE call[a]]
      BY <2>2 DEF AnswerArrives
    <3>2. \A a \in Calls : [call[a] EXCEPT !.stage = "joining"].stage = "joining"
      BY DEF Inv, FactoryInv, FactoryTypeOK
    <3> QED
      BY <3>1, <3>2
  <2> QED
    BY <2>1, <2>2 DEF Registration
<1> QED
  BY <1>1, <1>2, <1>3, <1>4, CallsStay, NoneReplaces, ReconnectorStays

LEMMA CallFailsInv ==
    ASSUME Inv, ~Replacing, NEW a \in Calls, CallFails(a), reconnector'.timers <= MaxTimers
    PROVE  Inv'
<1>1. /\ reconnector \in Closures /\ Attempts = reconnector.timers + Cardinality(Active)
      /\ Cardinality(Active) \in Nat
      /\ Current = reconnector.client /\ Current \in Clients
  BY ClosureFacts
<1>2. Ends(a) /\ reconnector' = Failed(reconnector) /\ UNCHANGED missed
  BY DEF CallFails
<1>3. /\ reconnector' \in Closures /\ Kept(reconnector, reconnector')
      /\ IF reconnector.cancelled
         THEN /\ reconnector'.timers = reconnector.timers
              /\ reconnector'.latestPending <=> reconnector.latestPending
         ELSE /\ reconnector'.busy /\ reconnector'.latestPending
              /\ reconnector'.timers = reconnector.timers + 1
  BY <1>1, <1>2, FailedEffect
<1>4. FactoryInv' /\ conn'[Current] = conn[Current] /\ a \in Active
  <2>1. reconnector'.client = Current
    BY <1>1, <1>3 DEF Kept
  <2>2. CASE FindingFails(a)
    BY <1>1, <1>2, <2>1, <2>2, CallEndsInv DEF FindingFails, Inv, Active
  <2>3. CASE JoinFails(a)
    BY <1>1, <1>2, <2>1, <2>3, CallEndsInv DEF JoinFails, Inv, Active
  <2>4. CASE LastAttemptFails(a)
    <3>1. ConnectFails(a)
      BY <2>4 DEF LastAttemptFails
    <3>2. call[a].stage = "connecting" /\ Move(call[a].client, "down")
      BY <3>1 DEF ConnectFails
    <3>3. conn'[Current] = conn[Current]
      BY <1>1, <3>2, ClientOfCall, MoveEffect DEF Inv, FactoryInv, ConnStates
    <3> QED
      BY <1>2, <2>1, <3>1, <3>2, <3>3, AttemptFailsInv DEF Inv, Active
  <2> QED
    BY <2>2, <2>3, <2>4 DEF CallFails
<1>5. Cardinality(Active)' = Cardinality(Active) - 1
  BY <1>2, <1>4, EndsEffect, CallLeaves DEF Inv, FactoryInv
<1>6. rescued' \in BOOLEAN /\ (rescued' <=> rescued /\ Attempts' > 0)
  BY RescueEffect DEF CallFails
<1>7. reconnector'.latestPending => reconnector'.timers > 0
  BY <1>1, <1>3, ClosureFacts DEF Closures
<1>8. missed' \in Misses
  BY <1>2, ClosureFacts
<1>11. ReplacingMatch'
  BY <1>2, EndsEffect, NoneReplaces DEF Inv, FactoryInv
<1>9. CASE reconnector.cancelled
  BY <1>3, <1>4, <1>6, <1>7, <1>8, <1>9, <1>11, ClosureStep DEF Kept
<1>10. CASE ~reconnector.cancelled
  <2>1. Attempts' = Attempts
    BY <1>1, <1>3, <1>5, <1>10, AttemptsCounted DEF Closures
  <2>2. Attempts > 0
    BY <1>4, ClosureFacts
  <2>3. reconnector'.client = Current /\ reconnector'.watched = Current
    BY <1>1, <1>3, <1>10 DEF Kept, Inv, ClosureInv, ClosureMatches
  <2> QED
    BY <1>2, <1>3, <1>4, <1>6, <1>7, <1>8, <1>10, <1>11, <2>1, <2>2, <2>3, ClosureStep
<1> QED
  BY <1>9, <1>10

LEMMA ReturnsCancelledInv ==
    ASSUME Inv, ~Replacing, NEW a \in Calls, ReturnsCancelled(a)
    PROVE  Inv'
<1>1. /\ reconnector.cancelled /\ Returns(a) /\ GiveUp(call[a].client) /\ Ends(a)
      /\ UNCHANGED <<reconnector, missed>>
  BY DEF ReturnsCancelled
<1>2. /\ reconnector' \in Closures /\ reconnector'.timers <= MaxTimers
      /\ reconnector'.client = Current /\ reconnector'.cancelled
  BY <1>1, ClosureFacts
<1>3. FactoryInv' /\ ReplacingMatch'
  BY <1>1, <1>2, CallEndsInv, EndsEffect, NoneReplaces DEF Inv, FactoryInv
<1>4. rescued' \in BOOLEAN /\ missed' \in Misses
  BY <1>1, RescueEffect, ClosureFacts DEF ReturnsCancelled
<1>5. reconnector'.latestPending => reconnector'.timers > 0
  BY <1>1, ClosureFacts
<1> QED
  BY <1>2, <1>3, <1>4, <1>5, ClosureStep

\* What the handler makes of the old client's disconnect() is one more attempt at
\* most, if none had isReconnecting set.
LEMMA ReplaceStepInv ==
    ASSUME Inv, ~Replacing, NEW a \in Calls, Replace(a), reconnector'.timers <= MaxTimers
    PROVE  Inv'
<1>1. /\ ~reconnector.cancelled /\ Returns(a) /\ GiveUp(Current)
      /\ call' = [call EXCEPT ![a].stage = "replacing"]
      /\ UNCHANGED missed
      /\ Heeds("down") \/ UNCHANGED reconnector
  BY DEF Replace, ConsumerThrows
<1>2. /\ reconnector \in Closures /\ Attempts = reconnector.timers + Cardinality(Active)
      /\ Cardinality(Active) \in Nat
      /\ Current = reconnector.client /\ Current \in Clients
      /\ reconnector.latestPending => reconnector.timers > 0
      /\ reconnector.watched = Current /\ missed' \in Misses
  BY <1>1, ClosureFacts
<1>3. /\ reconnector' \in Closures /\ reconnector'.client = Current
      /\ reconnector'.latestPending => reconnector'.timers > 0
      /\ ~reconnector'.cancelled =>
            /\ reconnector'.watched = Current
            /\ reconnector' = reconnector \/ ~reconnector.busy
  <2>1. CASE UNCHANGED reconnector
    BY <1>2, <2>1
  <2>2. CASE Heeds("down")
    <3>1. /\ reconnector' \in Closures /\ reconnector'.client = Current
          /\ reconnector'.latestPending => reconnector'.timers > 0
          /\ ~reconnector'.cancelled => reconnector'.watched = Current
                                       /\ reconnector' = Reacts(reconnector, "down")
      BY <1>1, <1>2, <2>2, HeedsEffect
    <3> QED
      BY <1>1, <1>2, <3>1, ReactsEffect
  <2> QED
    BY <1>1, <2>1, <2>2
<1>4. FactoryInv' /\ (MayLive(Current)' => Current \in abandoned')
  BY <1>1, <1>3, ReplaceInv DEF Inv
<1>5. /\ call[a].stage = "joining" /\ call'[a].stage = "replacing"
      /\ \A b \in Calls : b # a => call'[b] = call[b]
  BY <1>1 DEF Returns, Inv, FactoryInv, FactoryTypeOK
<1>6. Current' = Current /\ conn'[Current] = "down"
  BY <1>1, <1>2, <1>3, GiveUpEffect DEF Current, Inv, FactoryInv
<1>7. ReplacingMatch'
  BY <1>4, <1>5, <1>6 DEF ReplacingMatch, Replacing
<1>8. Cardinality(Active)' = Cardinality(Active) /\ a \in Active
  BY <1>5, CallsStay DEF Active
<1>9. Attempts' = reconnector'.timers + Cardinality(Active) /\ Attempts' > 0 /\ Attempts > 0
  <2>1. Cardinality(Active) > 0 /\ reconnector'.timers \in Nat /\ reconnector.timers \in Nat
    BY <1>2, <1>3, <1>8, AttemptsCounted DEF Closures
  <2> QED
    BY <1>2, <1>8, <2>1, AttemptsCounted
<1>10. rescued' \in BOOLEAN /\ (rescued' <=> rescued)
  BY <1>9, RescueEffect DEF Replace, Inv, ClosureInv, ReconnectorTypeOK
<1>11. ReconnectorTypeOK'
  BY <1>2, <1>3, <1>4, <1>10, ClosureTyped DEF FactoryInv
<1>12. ClosureMatches' /\ Tended'
  BY <1>3, <1>6, <1>9 DEF ClosureMatches, Tended
<1>13. OneAttempt'
  <2> SUFFICES ASSUME ~reconnector'.cancelled, ~rescued'
               PROVE  Attempts' = 1 /\ reconnector'.busy /\ conn'[Current] # "up"
    BY <1>6 DEF OneAttempt
  <2>1. Attempts = 1 /\ reconnector.busy
    BY <1>1, <1>9, <1>10 DEF Inv, ClosureInv, OneAttempt
  <2>2. reconnector' = reconnector
    BY <1>3, <2>1
  <2> QED
    BY <1>2, <1>6, <1>9, <2>1, <2>2
<1> QED
  BY <1>4, <1>7, <1>11, <1>12, <1>13 DEF Inv, ClosureInv

\* isReconnecting is reset whatever happened, and the new client may be down.
LEMMA WireStepInv ==
    ASSUME Inv, NEW a \in Calls, Wire(a), reconnector'.timers <= MaxTimers
    PROVE  Inv'
<1> SUFFICES ASSUME NEW new, new = call[a].client PROVE Inv'
  OBVIOUS
<1>1. /\ call[a].stage = "replacing"
      /\ call' = [call EXCEPT ![a].stage = "notifying"]
      /\ reconnector' = [reconnector EXCEPT !.client = new, !.watched = new, !.busy = FALSE,
                                            !.delay = InitialDelay]
      /\ missed' = IF conn[new] = "down" THEN "lost before it was wired" ELSE "nothing"
      /\ UNCHANGED <<conn, retrying, waking, registration, abandoned>>
  BY DEF Wire
<1>2. /\ reconnector \in Closures /\ Attempts = reconnector.timers + Cardinality(Active)
      /\ Cardinality(Active) \in Nat /\ Attempts \in Nat
      /\ reconnector.latestPending => reconnector.timers > 0
  BY ClosureFacts
<1>3. new \in Clients /\ missed' \in Misses
  BY <1>1, ClientOfCall DEF Inv, Misses
<1>4. /\ reconnector' \in Closures /\ reconnector'.client = new /\ reconnector'.watched = new
      /\ ~reconnector'.busy /\ reconnector'.timers = reconnector.timers
      /\ reconnector'.latestPending <=> reconnector.latestPending
      /\ reconnector'.cancelled <=> reconnector.cancelled
  <2>1. InitialDelay \in InitialDelay .. MaxDelay /\ new \in Clients \cup {NoClient}
    BY <1>3, ReconnectorAssumption
  <2> QED
    BY <1>1, <1>2, <1>3, <2>1 DEF Closures
<1>5. FactoryInv' /\ ReplacingMatch'
  BY <1>1, <1>4, WireInv DEF Inv
<1>6. rescued' \in BOOLEAN /\ (rescued' <=> rescued /\ Attempts' > 0)
  BY RescueEffect DEF Wire
<1>7. ReconnectorTypeOK'
  BY <1>3, <1>4, <1>5, <1>6, ClosureTyped DEF FactoryInv
<1>8. Current' = new
  BY <1>4 DEF Current
<1>9. a \in Active /\ Attempts > 0
  BY <1>1, ClosureFacts DEF Active
<1>10. OneAttempt'
  <2> SUFFICES ASSUME ~reconnector'.cancelled, ~rescued', Attempts' > 0 PROVE FALSE
    BY DEF OneAttempt
  <2>1. Attempts = 1
    BY <1>4, <1>6, <1>9 DEF Inv, ClosureInv, OneAttempt
  <2>2. Cardinality(Active)' = Cardinality(Active) - 1
    <3>1. call'[a].stage = "notifying" /\ \A b \in Calls : b # a => call'[b] = call[b]
      BY <1>1 DEF Inv, FactoryInv, FactoryTypeOK
    <3> QED
      BY <1>9, <3>1, CallLeaves
  <2>3. Attempts' = 0
    BY <1>2, <1>4, <2>1, <2>2, AttemptsCounted DEF Closures
  <2> QED
    BY <2>3
<1>11. ClosureMatches' /\ Tended'
  BY <1>1, <1>2, <1>4, <1>8 DEF ClosureMatches, Tended
<1> QED
  BY <1>5, <1>7, <1>10, <1>11 DEF Inv, ClosureInv

LEMMA NotifiedInv ==
    ASSUME Inv, NEW a \in Calls, Notified(a), reconnector'.timers <= MaxTimers
    PROVE  Inv'
<1>1. /\ reconnector \in Closures /\ Attempts = reconnector.timers + Cardinality(Active)
      /\ Cardinality(Active) \in Nat
      /\ Current = reconnector.client /\ Current \in Clients
      /\ reconnector.latestPending => reconnector.timers > 0
  BY ClosureFacts
<1>2. /\ call[a].stage = "notifying" /\ Ends(a)
      /\ UNCHANGED <<conn, retrying, waking, registration, abandoned, missed>>
  BY DEF Notified
<1>3. Cardinality(Active)' = Cardinality(Active)
  <2>1. call'[a].stage = "none" /\ \A b \in Calls : b # a => call'[b] = call[b]
    BY <1>2, EndsEffect DEF Inv, FactoryInv
  <2> QED
    BY <1>2, <2>1, CallsStay
<1>4. missed' \in Misses
  BY <1>2, ClosureFacts
<1>7. reconnector'.client = Current => ReplacingMatch'
  BY <1>2, EndsEffect, ReplacingStays DEF Inv, FactoryInv
<1>5. CASE UNCHANGED reconnector /\ Rescue(FALSE)
  <2>1. rescued' \in BOOLEAN /\ (rescued' <=> rescued /\ Attempts' > 0)
    BY <1>5, RescueEffect
  <2>2. Attempts' = Attempts
    BY <1>1, <1>3, <1>5, AttemptsCounted
  <2>3. FactoryInv'
    BY <1>1, <1>2, <1>5, CallEndsInv DEF Inv
  <2>4. ~reconnector.cancelled => reconnector'.watched = Current
    BY <1>5 DEF Inv, ClosureInv, ClosureMatches
  <2> QED
    BY <1>1, <1>2, <1>4, <1>5, <1>7, <2>1, <2>2, <2>3, <2>4, ClosureStep
<1>6. CASE reconnector' = Failed(reconnector) /\ Rescue(TRUE)
  <2>1. /\ reconnector' \in Closures /\ Kept(reconnector, reconnector')
        /\ IF reconnector.cancelled
           THEN /\ reconnector'.timers = reconnector.timers
                /\ reconnector'.latestPending <=> reconnector.latestPending
           ELSE /\ reconnector'.busy /\ reconnector'.latestPending
                /\ reconnector'.timers = reconnector.timers + 1
    BY <1>1, <1>6, FailedEffect
  <2>2. rescued' \in BOOLEAN /\ (rescued' <=> Attempts' > 0)
    BY <1>6, RescueEffect
  <2>3. reconnector'.client = Current /\ Current' = Current
    BY <1>1, <2>1 DEF Kept, Current
  <2>4. FactoryInv'
    BY <1>2, <2>3, CallEndsInv DEF Inv
  <2>5. ReconnectorTypeOK'
    BY <1>4, <2>1, <2>2, <2>4, ClosureTyped DEF FactoryInv
  <2>6. ClosureMatches'
    BY <1>1, <2>1, <2>3 DEF ClosureMatches, Kept, Closures, Inv, ClosureInv
  <2>7. OneAttempt'
    BY <2>2 DEF OneAttempt
  <2>8. ~reconnector.cancelled => Attempts' > 0
    BY <1>1, <1>3, <2>1, AttemptsCounted DEF Closures
  <2>9. Tended'
    BY <2>1, <2>8 DEF Tended, Kept
  <2> QED
    BY <1>7, <2>3, <2>4, <2>5, <2>6, <2>7, <2>9 DEF Inv, ClosureInv
<1> QED
  BY <1>5, <1>6 DEF Notified

LEMMA ClientMovesStepInv ==
    ASSUME Inv, ~Replacing, NEW c \in Clients, ClientMoves(c), reconnector'.timers <= MaxTimers
    PROVE  Inv'
<1> DEFINE now == c = Current /\ conn'[c] = "up"
<1>1. /\ reconnector \in Closures /\ Attempts = reconnector.timers + Cardinality(Active)
      /\ Cardinality(Active) \in Nat /\ Attempts \in Nat
      /\ Current = reconnector.client /\ Current \in Clients
      /\ reconnector.latestPending => reconnector.timers > 0
      /\ ~reconnector.cancelled => reconnector.watched = Current
      /\ missed \in Misses
  BY ClosureFacts
<1>2. /\ Loses(c) \/ Recovers(c) \/ GoesDown(c) \/ RetryStarts(c) \/ RetryStops(c) \/ Wakes(c)
      /\ UNCHANGED <<call, abandoned>>
      /\ \/ /\ conn'[c] # conn[c] /\ Hears(c) /\ Heeds(conn'[c]) /\ missed' = "nothing"
         \/ /\ conn'[c] # conn[c] /\ Hears(c) /\ UNCHANGED reconnector
            /\ missed' = IF conn'[c] = "down" /\ Attempts = 0
                         THEN "the consumer threw" ELSE "nothing"
         \/ /\ ~(conn'[c] # conn[c] /\ Hears(c)) /\ UNCHANGED reconnector
            /\ missed' = IF conn'[Current] = "down" THEN missed ELSE "nothing"
  BY DEF ClientMoves, ConsumerThrows
<1>3. /\ reconnector' \in Closures /\ reconnector'.client = Current
      /\ reconnector'.latestPending => reconnector'.timers > 0
      /\ reconnector.cancelled => reconnector'.cancelled
      /\ ~reconnector'.cancelled =>
            /\ reconnector'.watched = Current
            /\ \/ reconnector' = reconnector
               \/ /\ c = Current /\ conn'[c] = "up"
                  /\ ~reconnector'.busy /\ reconnector'.timers = reconnector.timers
               \/ /\ c = Current /\ conn'[c] = "down" /\ ~reconnector.busy /\ reconnector'.busy
                  /\ reconnector'.timers = reconnector.timers + 1
  <2>1. CASE UNCHANGED reconnector
    BY <1>1, <2>1
  <2>2. CASE Hears(c) /\ Heeds(conn'[c])
    <3>1. ~reconnector.cancelled /\ c = Current
      BY <1>1, <2>2 DEF Hears
    <3>2. /\ reconnector' \in Closures /\ reconnector'.client = Current
          /\ reconnector'.latestPending => reconnector'.timers > 0
          /\ ~reconnector'.cancelled => reconnector'.watched = Current
                                       /\ reconnector' = Reacts(reconnector, conn'[c])
      BY <1>1, <2>2, <3>1, HeedsEffect
    <3> QED
      BY <1>1, <3>1, <3>2, ReactsEffect
  <2> QED
    BY <1>2, <2>1, <2>2
<1>13. ~reconnector'.cancelled /\ conn'[Current] # conn[Current] /\ conn'[Current] = "down" =>
          \/ reconnector'.busy
          \/ reconnector' = reconnector /\ (Attempts > 0 \/ missed' # "nothing")
  <2> SUFFICES ASSUME ~reconnector'.cancelled, conn'[Current] # conn[Current], conn'[Current] = "down"
               PROVE  \/ reconnector'.busy
                      \/ reconnector' = reconnector /\ (Attempts > 0 \/ missed' # "nothing")
    OBVIOUS
  <2>1. c = Current
    BY <1>1, <1>2, MoveEffect
       DEF Loses, Recovers, GoesDown, RetryStarts, RetryStops, Wakes, Inv, FactoryInv, ConnStates
  <2>2. Hears(c)
    BY <1>1, <1>3, <2>1 DEF Hears
  <2>3. CASE Heeds(conn'[c])
    <3>1. reconnector' = Reacts(reconnector, "down")
      BY <1>1, <1>3, <2>1, <2>3, HeedsEffect
    <3>2. ~reconnector.cancelled
      BY <1>3
    <3>3. CASE reconnector.busy
      <4>1. reconnector' = reconnector
        BY <1>1, <3>1, <3>2, <3>3, ReactsEffect
      <4> QED
        BY <3>3, <4>1
    <3>4. CASE ~reconnector.busy
      <4>1. reconnector'.busy
        BY <1>1, <3>1, <3>2, <3>4, ReactsEffect
      <4> QED
        BY <4>1
    <3> QED
      BY <3>3, <3>4
  <2>4. CASE ~Heeds(conn'[c])
    <3>1. /\ UNCHANGED reconnector
          /\ missed' = IF Attempts = 0 THEN "the consumer threw" ELSE "nothing"
      BY <1>2, <2>1, <2>2, <2>4
    <3>2. Attempts = 0 \/ Attempts > 0
      BY <1>1
    <3>3. Attempts = 0 => missed' # "nothing"
      BY <3>1
    <3> QED
      BY <3>1, <3>2, <3>3
  <2> QED
    BY <2>3, <2>4
<1>4. reconnector'.client = Current /\ Current' = Current
  BY <1>1, <1>3 DEF Current
<1>5. FactoryInv' /\ ReplacingMatch'
  BY <1>2, <1>4, ClientMovesInv, NoneReplaces DEF Inv
<1>6. Cardinality(Active)' = Cardinality(Active)
  BY <1>2, CallsStay
<1>7. rescued' \in BOOLEAN /\ (rescued' <=> (rescued \/ now) /\ Attempts' > 0)
  <2>1. now \in BOOLEAN /\ Rescue(now)
    BY DEF ClientMoves
  <2> HIDE DEF now
  <2> QED
    BY <2>1, RescueEffect
<1>8. missed' \in Misses
  BY <1>1, <1>2 DEF Misses
<1>9. ReconnectorTypeOK'
  BY <1>3, <1>5, <1>7, <1>8, ClosureTyped DEF FactoryInv
<1>10. ClosureMatches'
  BY <1>3, <1>4 DEF ClosureMatches
<1>11. CASE reconnector'.cancelled
  BY <1>5, <1>9, <1>10, <1>11 DEF Inv, ClosureInv, OneAttempt, Tended
<1>12. CASE ~reconnector'.cancelled
  <2>0. ~reconnector.cancelled
    BY <1>3, <1>12
  <2>1. Attempts' = reconnector'.timers + Cardinality(Active)
    BY <1>6, AttemptsCounted
  <2>2. c = Current \/ conn'[Current] = conn[Current]
    BY <1>1, <1>2, MoveEffect
       DEF Loses, Recovers, GoesDown, RetryStarts, RetryStops, Wakes, Inv, FactoryInv, ConnStates
  <2>3. Attempts' \in Nat /\ Attempts' >= Attempts
    BY <1>1, <1>3, <1>12, <2>1 DEF Closures
  <2>5. Tended'
    <3>1. reconnector'.busy => Attempts' > 0
      BY <1>1, <1>3, <1>12, <2>0, <2>1, <2>3 DEF Tended, Inv, ClosureInv, Closures
    <3>2. conn'[Current] = "down" => Attempts' > 0 \/ missed' # "nothing"
      <4>1. CASE conn'[Current] = conn[Current] /\ conn[Current] = "down"
        <5>1. Attempts > 0 \/ missed # "nothing"
          BY <2>0, <4>1 DEF Tended, Inv, ClosureInv
        <5>2. missed' = missed
          <6>1. c = Current => conn'[c] = conn[c]
            BY <4>1
          <6>2. Hears(c) => c = Current
            BY <1>1, <2>0 DEF Hears
          <6> QED
            BY <1>2, <4>1, <6>1, <6>2
        <5> QED
          BY <1>1, <2>3, <5>1, <5>2
      <4>2. CASE conn'[Current] # conn[Current]
        BY <1>1, <1>12, <1>13, <2>3, <3>1, <4>2
      <4> QED
        BY <4>1, <4>2
    <3> QED
      BY <1>4, <3>1, <3>2 DEF Tended
  <2>6. OneAttempt'
    <3> SUFFICES ASSUME ~rescued', Attempts' > 0
                 PROVE  Attempts' = 1 /\ reconnector'.busy /\ conn'[Current] # "up"
      BY <1>4 DEF OneAttempt
    <3>1. ~rescued /\ ~(c = Current /\ conn'[c] = "up")
      BY <1>7
    <3>2. Attempts > 0 => Attempts = 1 /\ reconnector.busy /\ conn[Current] # "up"
      BY <2>0, <3>1 DEF Inv, ClosureInv, OneAttempt
    <3>3. conn'[Current] = "up" => conn[Current] = "up" /\ c # Current
      BY <2>2, <3>1
    <3>4. CASE reconnector' = reconnector
      BY <1>1, <2>1, <3>2, <3>3, <3>4
    <3>5. CASE reconnector' # reconnector
      <4>1. c = Current /\ ~(conn'[c] = "up")
        BY <1>3, <1>12, <3>1, <3>5
      <4>2. ~reconnector.busy /\ reconnector'.busy /\ reconnector'.timers = reconnector.timers + 1
        BY <1>3, <1>12, <3>5, <4>1
      <4>3. Attempts = 0
        BY <1>1, <3>2, <4>2
      <4> QED
        BY <1>1, <2>1, <4>1, <4>2, <4>3 DEF Closures
    <3> QED
      BY <3>4, <3>5
  <2> QED
    BY <1>5, <1>9, <1>10, <2>5, <2>6 DEF Inv, ClosureInv
<1> QED
  BY <1>11, <1>12

-----------------------------------------------------------------------------
(* The invariant, and what follows *)

LEMMA InitInv == Init => Inv
<1> SUFFICES ASSUME Init PROVE Inv
  OBVIOUS
<1> USE ReconnectorAssumption, FactoryAssumption, NoClientAssumption DEF Init
<1>1. FactoryTypeOK
  BY DEF FactoryTypeOK, ConnStates, Idle, Stages, Registrations, Unregistered
<1>2. Current \in Clients
  BY DEF Current
<1>3. CallsMatch
  BY DEF CallsMatch, Idle, HasClient
<1>4. ClientsMatch
  BY DEF ClientsMatch, Idle
<1>5. RequestsMatch /\ RegistrationAgrees
  BY DEF RequestsMatch, RegistrationAgrees, Unregistered
<1>6. LiveClientsOwned
  BY DEF LiveClientsOwned, MayLive, Live, Current
<1>7. ReconnectorTypeOK
  <2>1. InitialDelay \in InitialDelay .. MaxDelay /\ 0 \in 0 .. MaxTimers
    OBVIOUS
  <2>2. reconnector \in [cancelled : BOOLEAN, busy : BOOLEAN, delay : InitialDelay .. MaxDelay,
                         timers : 0 .. MaxTimers, latestPending : BOOLEAN,
                         client : Clients, watched : Clients \cup {NoClient}]
    BY <2>1
  <2> QED
    BY <1>1, <2>2 DEF ReconnectorTypeOK
<1>8. Attempts = 0
  <2>1. Active = {}
    BY DEF Active, Idle
  <2>2. Cardinality(Active) = 0
    BY <2>1, FS_EmptySet
  <2> QED
    BY <2>2, AttemptsCounted
<1>9. ClosureMatches /\ OneAttempt /\ Tended /\ ReplacingMatch
  BY <1>8 DEF ClosureMatches, OneAttempt, Tended, ReplacingMatch, Current, Idle
<1> QED
  BY <1>1, <1>2, <1>3, <1>4, <1>5, <1>6, <1>7, <1>9 DEF Inv, FactoryInv, ClosureInv

LEMMA NextInv == Inv /\ [Next]_vars => Inv'
<1> SUFFICES ASSUME Inv, [Next]_vars PROVE Inv'
  OBVIOUS
<1>1. CASE UNCHANGED vars
  <2>1. FactoryInv'
    BY <1>1, FactoryStays DEF vars, Current, Inv
  <2>2. Cardinality(Active)' = Cardinality(Active)
    BY <1>1, CallsStay DEF vars, factoryVars
  <2>3. ReplacingMatch'
    BY <1>1, ReplacingStays DEF vars, factoryVars, Current, Inv
  <2> QED
    BY <1>1, <2>1, <2>2, <2>3, ReconnectorStays DEF vars, factoryVars
<1>2. CASE Next
  <2>1. CASE Cancel
    BY <1>2, <2>1, CancelInv DEF Next
  <2>2. ASSUME NEW a \in Calls, Wire(a) \/ Notified(a)
        PROVE  Inv'
    BY <1>2, <2>2, WireStepInv, NotifiedInv DEF Next
  <2>3. ASSUME ~Replacing, NEW a \in Calls, TimerFires(a) \/ CallStep(a)
        PROVE  Inv'
    BY <1>2, <2>3, TimerFiresInv, CallGoesOnInv, CallFailsInv, ReturnsCancelledInv,
       ReplaceStepInv, WireStepInv DEF Next, CallStep
  <2>4. ASSUME ~Replacing, NEW c \in Clients, ClientMoves(c) \/ Registration(c)
        PROVE  Inv'
    BY <1>2, <2>4, ClientMovesStepInv, RegistrationInv DEF Next
  <2> QED
    BY <1>2, <2>1, <2>2, <2>3, <2>4 DEF Next
<1> QED
  BY <1>1, <1>2

LEMMA Invariance == Spec => []Inv
BY InitInv, NextInv, PTL DEF Spec

\* Every variable of the closure, the calls and the clients has its type.
THEOREM ReconnectorTypeCorrect == Spec => []ReconnectorTypeOK
<1>1. Inv => ReconnectorTypeOK
  BY DEF Inv, ClosureInv
<1> QED
  BY <1>1, Invariance, PTL

\* isReconnecting never blocks a reconnector with nothing under way, and a client
\* that is down is being replaced, unless it went down before it was wired, or the
\* consumer threw when it was told.
THEOREM ClientTended == Spec => []Tended
<1>1. Inv => Tended
  BY DEF Inv, ClosureInv
<1> QED
  BY <1>1, Invariance, PTL

\* No client that is alive, or may come alive when the machine wakes, is lost but in
\* the ways that LiveClientsOwned names.
THEOREM NoClientLeaks == Spec => []LiveClientsOwned
<1>1. Inv => LiveClientsOwned
  BY DEF Inv, FactoryInv
<1> QED
  BY <1>1, Invariance, PTL

\* A client's version and the daemon's knowledge of it agree, but for a version that
\* outlived its session.
THEOREM RegistrationsAgree == Spec => []RegistrationAgrees
<1>1. Inv => RegistrationAgrees
  BY DEF Inv, FactoryInv
<1> QED
  BY <1>1, Invariance, PTL

\* Only Replace begins to disconnect the current client.
LEMMA ToReplace ==
    ASSUME Inv, Next, NEW d \in Calls, call'[d].stage = "replacing", call[d].stage # "replacing"
    PROVE  \E a \in Calls : Replace(a)
<1>1. \A a \in Calls : \A v : call' = [call EXCEPT ![a] = v] => call'[d] = v \/ call'[d] = call[d]
  BY DEF Inv, FactoryInv, FactoryTypeOK
<1>2. call' # call
  OBVIOUS
<1>3. ~Cancel /\ \A c \in Clients : ~ClientMoves(c) /\ ~DaemonAnswers(c)
  BY <1>2 DEF Cancel, factoryVars, ClientMoves, DaemonAnswers
<1>4. \A a \in Calls : ~TimerFires(a)
  <2> SUFFICES ASSUME NEW a \in Calls, TimerFires(a) PROVE FALSE
    OBVIOUS
  <2>1. call' = [call EXCEPT ![a] = [stage |-> "finding", try |-> 0, client |-> NoClient]]
    BY <1>2 DEF TimerFires, Begins, Await
  <2>2. call'[d] = [stage |-> "finding", try |-> 0, client |-> NoClient] \/ call'[d] = call[d]
    BY <1>1, <2>1
  <2> QED
    BY <2>2
<1>5. \A a \in Calls : ~CallGoesOn(a)
  <2> SUFFICES ASSUME NEW a \in Calls, CallGoesOn(a) PROVE FALSE
    OBVIOUS
  <2>1. PICK stage, try, c :
            /\ stage \in {"warming", "connecting", "waiting", "registering", "joining"}
            /\ Await(a, stage, try, c)
    BY DEF CallGoesOn, FindingSucceeds, WarmUpEnds, NextAttempt, Attempt, AttemptFails,
       ConnectFails, AttemptSucceeds, RegistrationTimesOut
  <2>2. call'[d] = [stage |-> stage, try |-> try, client |-> c] \/ call'[d] = call[d]
    BY <1>1, <2>1 DEF Await
  <2>3. call'[d] # call[d]
    OBVIOUS
  <2>4. call'[d].stage = stage
    BY <2>2, <2>3
  <2> QED
    BY <2>1, <2>4
<1>6. \A a \in Calls : ~CallFails(a) /\ ~ReturnsCancelled(a) /\ ~Notified(a)
  <2> SUFFICES ASSUME NEW a \in Calls, Ends(a) PROVE FALSE
    BY DEF CallFails, ReturnsCancelled, Notified
  <2>1. call'[d] = [stage |-> "none", try |-> 0, client |-> NoClient] \/ call'[d] = call[d]
    BY <1>1 DEF Ends, Idle
  <2> QED
    BY <2>1
<1>7. \A a \in Calls : ~Wire(a)
  <2> SUFFICES ASSUME NEW a \in Calls, Wire(a) PROVE FALSE
    OBVIOUS
  <2>1. call' = [call EXCEPT ![a].stage = "notifying"]
    BY DEF Wire
  <2>2. call'[a].stage = "notifying" /\ (d # a => call'[d] = call[d])
    BY <2>1 DEF Inv, FactoryInv, FactoryTypeOK
  <2> QED
    BY <2>2
<1>8. \A c \in Clients : ~AnswerArrives(c)
  <2> SUFFICES ASSUME NEW c \in Clients, AnswerArrives(c) PROVE FALSE
    OBVIOUS
  <2>1. call' = [b \in Calls |-> IF call[b].stage = "registering" /\ call[b].client = c
                                 THEN [call[b] EXCEPT !.stage = "joining"] ELSE call[b]]
    BY DEF AnswerArrives
  <2>2. [call[d] EXCEPT !.stage = "joining"].stage = "joining"
    BY DEF Inv, FactoryInv, FactoryTypeOK
  <2> QED
    BY <2>1, <2>2
<1> QED
  BY <1>3, <1>4, <1>5, <1>6, <1>7, <1>8 DEF Next, CallStep, Registration

CancelledAction ==
    reconnector.cancelled =>
        /\ reconnector'.timers <= reconnector.timers
        /\ \A a \in Calls : call[a] = Idle => call'[a] = Idle
        /\ \A a \in Calls : call'[a].stage = "replacing" => call[a].stage = "replacing"
        /\ reconnector'.client # Current =>
               \E a \in Calls : call[a].stage = "replacing" /\ reconnector'.client = call[a].client

\* A step of a call that is under way.
CallOnly(a) ==
    call[a].stage # "none" /\ \A b \in Calls : b # a => call'[b] = call[b]

\* After cancel() no attempt begins and no client is disconnected to be replaced; what
\* changes the client is an attempt that had disconnected the old one before.
THEOREM CancelledIsFinal == Spec => CancelledStays
<1>1. ASSUME Inv, [Next]_vars PROVE [CancelledAction]_vars
  <2> SUFFICES ASSUME reconnector.cancelled, ~UNCHANGED vars PROVE CancelledAction
    BY DEF CancelledAction
  <2>1. reconnector \in Closures /\ Current = reconnector.client /\ reconnector.timers \in Nat
    BY <1>1, ClosureFacts DEF Closures
  <2>2. /\ UNCHANGED reconnector => reconnector'.client = Current /\ reconnector'.timers <= reconnector.timers
        /\ reconnector' = Failed(reconnector) =>
              reconnector'.client = Current /\ reconnector'.timers <= reconnector.timers
    BY <2>1, FailedEffect DEF Kept
  <2>3. \A a \in Calls : \A v : call' = [call EXCEPT ![a] = v] =>
            call'[a] = v /\ \A b \in Calls : b # a => call'[b] = call[b]
    BY <1>1 DEF Inv, FactoryInv, FactoryTypeOK
  <2>0. \A a \in Calls : call'[a].stage = "replacing" => call[a].stage = "replacing"
    BY <1>1, ToReplace DEF Replace, vars, factoryVars
  <2>4. ASSUME NEW a \in Calls, CallOnly(a),
               reconnector'.client = Current /\ reconnector'.timers <= reconnector.timers
        PROVE  CancelledAction
    BY <2>0, <2>4 DEF CallOnly, CancelledAction, Idle
  <2>5. ASSUME NEW a \in Calls, TimerFires(a) PROVE CancelledAction
    <3>1. PICK l \in BOOLEAN : reconnector' = [reconnector EXCEPT !.timers = @ - 1,
                                                                  !.latestPending = @ /\ ~l]
      BY <2>5 DEF TimerFires
    <3>2. reconnector'.client = Current /\ reconnector'.timers <= reconnector.timers
      BY <2>1, <3>1 DEF Closures
    <3> QED
      BY <2>0, <2>5, <3>2 DEF TimerFires, CancelledAction
  <2>6. ASSUME NEW a \in Calls, CallGoesOn(a) PROVE CancelledAction
    <3>1. CallOnly(a)
      <4>1. PICK stage, try, c : Await(a, stage, try, c)
        BY <2>6 DEF CallGoesOn, FindingSucceeds, WarmUpEnds, NextAttempt, Attempt, AttemptFails,
           ConnectFails, AttemptSucceeds, RegistrationTimesOut
      <4>2. call[a].stage # "none"
        BY <2>6 DEF CallGoesOn, FindingSucceeds, WarmUpEnds, NextAttempt, Attempt, AttemptFails,
           ConnectFails, AttemptSucceeds, RegistrationTimesOut
      <4> QED
        BY <2>3, <4>1, <4>2 DEF Await, CallOnly
    <3> QED
      BY <2>2, <2>4, <2>6, <3>1 DEF CallGoesOn
  <2>7. ASSUME NEW a \in Calls, CallFails(a) \/ Notified(a) \/ ReturnsCancelled(a)
        PROVE  CancelledAction
    <3>1. call[a].stage # "none" /\ Ends(a)
      BY <2>7 DEF CallFails, FindingFails, LastAttemptFails, ConnectFails, JoinFails, Notified,
         ReturnsCancelled, Returns
    <3>2. CallOnly(a)
      BY <2>3, <3>1 DEF Ends, Idle, CallOnly
    <3>3. reconnector' = reconnector \/ reconnector' = Failed(reconnector)
      BY <2>7 DEF CallFails, Notified, ReturnsCancelled
    <3> QED
      BY <2>2, <2>4, <3>2, <3>3
  <2>8. ASSUME NEW a \in Calls, Wire(a) PROVE CancelledAction
    <3> DEFINE new == call[a].client
    <3>1. /\ call[a].stage = "replacing" /\ new \in Clients
          /\ call' = [call EXCEPT ![a].stage = "notifying"]
          /\ reconnector' = [reconnector EXCEPT !.client = new, !.watched = new, !.busy = FALSE,
                                                !.delay = InitialDelay]
      BY <1>1, <2>8, ClientOfCall DEF Wire, Inv
    <3>2. call'[a].stage = "notifying" /\ \A b \in Calls : b # a => call'[b] = call[b]
      BY <1>1, <3>1 DEF Inv, FactoryInv, FactoryTypeOK
    <3>3. reconnector'.client = new /\ reconnector'.timers = reconnector.timers
      BY <2>1, <3>1 DEF Closures
    <3> QED
      BY <2>0, <2>1, <3>1, <3>2, <3>3 DEF CancelledAction, Idle
  <2>9. ASSUME NEW c \in Clients, ClientMoves(c) PROVE CancelledAction
    <3>1. UNCHANGED <<call, reconnector>>
      BY <2>9 DEF ClientMoves, Hears
    <3> QED
      BY <2>0, <2>2, <3>1 DEF CancelledAction
  <2>10. ASSUME NEW c \in Clients, Registration(c) PROVE CancelledAction
    <3>1. UNCHANGED reconnector
      BY <2>10 DEF Registration
    <3>2. ASSUME NEW a \in Calls, call[a] = Idle PROVE call'[a] = Idle
      <4>1. CASE DaemonAnswers(c)
        BY <3>2, <4>1 DEF DaemonAnswers
      <4>2. CASE AnswerArrives(c)
        <5>1. call' = [b \in Calls |-> IF call[b].stage = "registering" /\ call[b].client = c
                                       THEN [call[b] EXCEPT !.stage = "joining"] ELSE call[b]]
          BY <4>2 DEF AnswerArrives
        <5> QED
          BY <3>2, <5>1 DEF Idle
      <4> QED
        BY <2>10, <4>1, <4>2 DEF Registration
    <3> QED
      BY <2>0, <2>2, <3>1, <3>2 DEF CancelledAction
  <2>11. CASE UNCHANGED vars
    BY <2>2, <2>11 DEF vars, factoryVars, CancelledAction
  <2>12. CASE Next
    <3>1. CASE \E a \in Calls : TimerFires(a) \/ CallStep(a) \/ Wire(a) \/ Notified(a)
      BY <2>5, <2>6, <2>7, <2>8, <3>1 DEF CallStep, Replace
    <3> QED
      BY <2>9, <2>10, <2>12, <3>1 DEF Next, Cancel
  <2> QED
    BY <1>1, <2>11, <2>12
<1>2. Inv /\ [Next]_vars => [CancelledAction]_vars
  BY <1>1
<1> QED
  BY <1>2, Invariance, PTL DEF Spec, CancelledStays, CancelledAction

HealthyAction == ~Replacing /\ Replacing' /\ conn[Current] = "up" => rescued

\* A client that works is not replaced, unless it, or one before it, connected by
\* itself while an attempt was under way, or the consumer threw.
THEOREM HealthyClientKept == Spec => HealthyKept
<1>1. ASSUME Inv, Next, ~Replacing, Replacing', conn[Current] = "up"
      PROVE  rescued
  <2>1. PICK a \in Calls : Replace(a)
    BY <1>1, ToReplace DEF Replacing
  <2>2. ~reconnector.cancelled /\ Attempts > 0
    BY <1>1, <2>1, ClosureFacts DEF Replace, Returns, Active
  <2> QED
    BY <1>1, <2>2 DEF Inv, ClosureInv, OneAttempt
<1>2. Inv /\ [Next]_vars => [HealthyAction]_vars
  BY <1>1 DEF HealthyAction, vars, factoryVars, Replacing
<1> QED
  BY <1>2, Invariance, PTL DEF Spec, HealthyKept, HealthyAction

-----------------------------------------------------------------------------
(* The clients of the reconnector follow ClientView, which TransportClient       *)
(* implements: what is said of them here holds of the clients there are.         *)

View(c) == INSTANCE ClientView WITH
               conn <- conn[c], retrying <- (c \in retrying), waking <- (c \in waking)

\* A new client is made, of the name of one that was given up: it is alive no more,
\* but for its wake detection.
Renamed(c) ==
    /\ c \in abandoned
    /\ conn[c] = "down" /\ c \notin retrying
    /\ conn'[c] = "opening" /\ c \notin retrying' /\ c \notin waking'

Follows(c) == View(c)!Next \/ Renamed(c) \/ UNCHANGED View(c)!vars

\* A step that is another client's, or nobody's.
LEMMA OthersFollow ==
    ASSUME NEW c \in Clients, conn'[c] = conn[c], c \in retrying' <=> c \in retrying,
           c \in waking' <=> c \in waking
    PROVE  Follows(c)
BY DEF Follows, View!vars

\* A client that a call makes is new, and has nothing under way.
LEMMA AttemptFollows ==
    ASSUME FactoryInv, NEW a \in Calls, NEW try \in 1 .. MaxRetries, Attempt(a, try, {Current}),
           NEW c \in Clients
    PROVE  Follows(c)
<1>1. PICK d \in Clients \ {Current} :
         /\ ~Live(d) /\ ~InCall(d) /\ conn' = [conn EXCEPT ![d] = "opening"]
         /\ waking' = waking \ {d} /\ UNCHANGED retrying
  BY DEF Attempt
<1>2. conn'[d] = "opening" /\ \A e \in Clients : e # d => conn'[e] = conn[e]
  BY <1>1 DEF FactoryInv, FactoryTypeOK
<1>3. CASE c # d
  BY <1>1, <1>2, <1>3, OthersFollow
<1>4. CASE c = d /\ d \notin waking
  BY <1>1, <1>2, <1>4 DEF Live, Follows, View!Next, View!Opens, View!Init
<1>5. CASE c = d /\ d \in waking
  <2>1. d \in abandoned
    BY <1>1, <1>5 DEF FactoryInv, LiveClientsOwned, MayLive
  <2> QED
    BY <1>1, <1>2, <1>5, <2>1 DEF Live, Follows, Renamed
<1> QED
  BY <1>3, <1>4, <1>5

\* disconnect() of the owner.
LEMMA GiveUpFollows ==
    ASSUME FactoryInv, NEW d \in Clients, GiveUp(d), NEW c \in Clients
    PROVE  Follows(c)
<1>1. Move(d, "down") /\ conn'[d] = "down" /\ \A e \in Clients : e # d => conn'[e] = conn[e]
  BY GiveUpEffect, MoveEffect DEF FactoryInv, ConnStates
<1>2. CASE c # d
  <2>1. (c \in retrying' <=> c \in retrying) /\ (c \in waking' <=> c \in waking)
    BY <1>2 DEF GiveUp
  <2> QED
    BY <1>1, <1>2, <2>1, OthersFollow
<1>3. CASE c = d /\ conn[d] = "down"
  BY <1>1, <1>3, OthersFollow DEF GiveUp
<1>4. CASE c = d /\ conn[d] # "down"
  <2>1. c \notin waking'
    BY <1>4 DEF GiveUp
  <2>2. (c \in retrying') \in BOOLEAN
    OBVIOUS
  <2> QED
    BY <1>1, <1>4, <2>1, <2>2 DEF Follows, View!Next, View!Closes
<1> QED
  BY <1>2, <1>3, <1>4

\* connectToDaemon goes on, or throws: its client's first connection settles.
LEMMA CallsFollow ==
    ASSUME FactoryInv, NEW a \in Calls, CallGoesOn(a) \/ CallFails(a), NEW c \in Clients
    PROVE  Follows(c)
<1>1. CASE UNCHANGED <<conn, retrying, waking>>
  BY <1>1, OthersFollow
<1>2. CASE WarmUpEnds(a, {Current})
  BY <1>2, AttemptFollows, FactoryAssumption DEF WarmUpEnds
<1>3. CASE NextAttempt(a, {Current})
  <2>1. call[a].try + 1 \in 1 .. MaxRetries
    BY <1>3, FactoryAssumption DEF NextAttempt, FactoryInv, CallsMatch, FactoryTypeOK
  <2> QED
    BY <1>3, <2>1, AttemptFollows DEF NextAttempt
<1> DEFINE d == call[a].client
<1>4. call[a].stage = "connecting" => d \in Clients /\ conn[d] = "opening"
  BY ClientOfCall DEF FactoryInv, ClientsMatch
<1>5. CASE ConnectFails(a)
  <2>1. conn'[d] = "down" /\ \A e \in Clients : e # d => conn'[e] = conn[e]
    BY <1>4, <1>5, MoveEffect DEF ConnectFails, FactoryInv, ConnStates
  <2>2. CASE c # d
    BY <1>5, <2>1, <2>2, OthersFollow DEF ConnectFails
  <2>3. CASE c = d
    BY <1>4, <1>5, <2>1, <2>3
       DEF ConnectFails, Follows, View!Next, View!ByItself, View!OpeningFails
  <2> QED
    BY <2>2, <2>3
<1>6. CASE AttemptSucceeds(a)
  <2>1. /\ conn'[d] = "up" /\ waking' = waking \cup {d} /\ UNCHANGED retrying
        /\ \A e \in Clients : e # d => conn'[e] = conn[e]
    BY <1>4, <1>6 DEF AttemptSucceeds, FactoryInv, FactoryTypeOK
  <2>2. CASE c # d
    BY <2>1, <2>2, OthersFollow
  <2>3. CASE c = d
    BY <1>4, <1>6, <2>1, <2>3
       DEF AttemptSucceeds, Follows, View!Next, View!ByItself, View!OpeningSucceeds
  <2> QED
    BY <2>2, <2>3
<1> QED
  BY <1>1, <1>2, <1>3, <1>5, <1>6
     DEF CallGoesOn, CallFails, FindingSucceeds, FindingFails, AttemptFails, LastAttemptFails,
         RegistrationTimesOut, JoinFails

\* A client moves by itself.
LEMMA MovesFollow ==
    ASSUME FactoryInv, NEW d \in Clients, ClientMoves(d), NEW c \in Clients
    PROVE  Follows(c)
<1>1. CASE c # d
  <2>1. conn'[c] = conn[c]
    BY <1>1 DEF ClientMoves, Loses, Recovers, GoesDown, RetryStarts, RetryStops, Wakes, Move,
                FactoryInv, FactoryTypeOK
  <2>2. (c \in retrying' <=> c \in retrying) /\ (c \in waking' <=> c \in waking)
    BY <1>1 DEF ClientMoves, Loses, Recovers, GoesDown, RetryStarts, RetryStops, Wakes
  <2> QED
    BY <2>1, <2>2, OthersFollow
<1>2. CASE c = d
  <2> USE <1>2 DEF FactoryInv, FactoryTypeOK, Move, Follows, View!Next, View!ByItself
  <2>1. CASE Loses(d)
    BY <2>1 DEF Loses, View!Loses
  <2>2. CASE Recovers(d)
    BY <2>2 DEF Recovers, View!Recovers
  <2>3. CASE GoesDown(d)
    <3>1. (c \in retrying') \in BOOLEAN
      OBVIOUS
    <3> QED
      BY <2>3, <3>1 DEF GoesDown, View!GoesDown
  <2>4. CASE RetryStarts(d)
    BY <2>4 DEF RetryStarts, View!RetryStarts
  <2>5. CASE RetryStops(d)
    BY <2>5 DEF RetryStops, View!RetryStops
  <2>6. CASE Wakes(d)
    BY <2>6 DEF Wakes, View!Wakes
  <2> QED
    BY <2>1, <2>2, <2>3, <2>4, <2>5, <2>6 DEF ClientMoves
<1> QED
  BY <1>1, <1>2

\* Every client moves as ClientView allows, until a new one gets its name.
THEOREM ClientsFollowView ==
    ASSUME NEW c \in Clients
    PROVE  Spec => [][View(c)!Next \/ Renamed(c)]_(View(c)!vars)
<1>1. ASSUME Inv, [Next]_vars PROVE Follows(c)
  <2>1. CASE UNCHANGED <<conn, retrying, waking>>
    BY <2>1, OthersFollow
  <2>2. ASSUME NEW a \in Calls, CallGoesOn(a) \/ CallFails(a) PROVE Follows(c)
    BY <1>1, <2>2, CallsFollow DEF Inv
  <2>3. ASSUME NEW a \in Calls, ReturnsCancelled(a) \/ Replace(a) PROVE Follows(c)
    <3>1. PICK d \in Clients : GiveUp(d)
      <4>1. CASE ReturnsCancelled(a)
        BY <1>1, <4>1, ClientOfCall DEF Inv, ReturnsCancelled, Returns
      <4>2. CASE Replace(a)
        BY <1>1, <4>2 DEF Inv, Replace, FactoryInv
      <4> QED
        BY <2>3, <4>1, <4>2
    <3> QED
      BY <1>1, <3>1, GiveUpFollows DEF Inv
  <2>4. ASSUME NEW d \in Clients, ClientMoves(d) PROVE Follows(c)
    BY <1>1, <2>4, MovesFollow DEF Inv
  <2>5. CASE Cancel \/ UNCHANGED vars
    BY <2>1, <2>5 DEF Cancel, vars, factoryVars
  <2>6. ASSUME NEW a \in Calls, TimerFires(a) \/ Notified(a) \/ Wire(a) PROVE Follows(c)
    BY <2>1, <2>6 DEF TimerFires, Notified, Wire
  <2>7. ASSUME NEW d \in Clients, Registration(d) PROVE Follows(c)
    BY <2>1, <2>7 DEF Registration, DaemonAnswers, AnswerArrives
  <2>8. CASE Next
    <3>1. CASE \E a \in Calls : TimerFires(a) \/ CallStep(a) \/ Notified(a) \/ Wire(a)
      BY <2>2, <2>3, <2>6, <3>1 DEF CallStep
    <3> QED
      BY <2>4, <2>5, <2>7, <2>8, <3>1 DEF Next
  <2> QED
    BY <1>1, <2>5, <2>8
<1>2. Inv /\ [Next]_vars => [View(c)!Next \/ Renamed(c)]_(View(c)!vars)
  BY <1>1 DEF Follows
<1> QED
  BY <1>2, Invariance, PTL DEF Spec

=============================================================================
