-------------------------------- MODULE Requests --------------------------------
(***************************************************************************)
(* The three ways a program asks the server something on the current       *)
(* socket (infra/socket-io-client.ts): requestWithAck(), request() with a  *)
(* callback, and isConnected(), which sends a ping.  The first and the     *)
(* last race a timer against the answer.                                   *)
(*                                                                         *)
(* A call without a connected socket throws (isConnected() returns false)  *)
(* and changes nothing.  Event names and payloads are left out.            *)
(***************************************************************************)
CONSTANT Requests           \* calls, each made at most once

VARIABLES
    connected,      \* the current socket is connected
    request,        \* what became of each call
    sent            \* calls whose request or answer is under way in this session

Kinds == {"requestWithAck", "request", "isConnected"}
Settlements == {"data", "error", "timeout"}

(* A call is open while its timer or its callback is: a late answer finds it  *)
(* settled, which is what the flag `handled` says.                            *)
Unused == [phase |-> "unused"]
Open(kind) == [phase |-> "open", kind |-> kind, timer |-> kind # "request"]
Settled(outcome) == [phase |-> "settled", outcome |-> outcome]

TypeOK ==
    /\ connected \in BOOLEAN
    /\ request \in [Requests -> {Unused} \cup [phase : {"open"}, kind : Kinds, timer : BOOLEAN]
                                   \cup {Settled(o) : o \in Settlements}]
    /\ sent \subseteq Requests

Init ==
    /\ request = [q \in Requests |-> Unused]
    /\ sent = {}

IsOpen(q) == request[q].phase = "open"
Becomes(q, now) == request' = [request EXCEPT ![q] = now]

\* A ping is volatile: it is dropped when the transport cannot take it.
Call(q) ==
    /\ connected
    /\ request[q] = Unused
    /\ \E kind \in Kinds :
          /\ Becomes(q, Open(kind))
          /\ \/ sent' = sent \cup {q}
             \/ kind = "isConnected" /\ UNCHANGED sent

\* What the server may answer: an object or not, and the kinds of its fields.
Responses ==
    [object : BOOLEAN, success : {"true", "false", "other"}, error : {"string", "absent", "other"},
     code : {"string", "absent", "other"}]

IsValidResponse(response) ==
    /\ response.object
    /\ response.success # "other"
    /\ response.error # "other"
    /\ response.code # "other"

\* How an answer settles the call that waits for it.
Outcome(kind, response) ==
    IF kind = "requestWithAck" /\ (~IsValidResponse(response) \/ response.success = "false")
    THEN "error" ELSE "data"

MutAnswerArrives(q) ==
    /\ connected
    /\ q \in sent
    /\ sent' = sent \ {q}
    /\ \E response \in Responses :
          request' = CASE ~IsOpen(q) -> request
                       [] IsOpen(q) /\ ~IsValidResponse(response) ->
                              [request EXCEPT ![q].timer = FALSE]
                       [] OTHER -> [request EXCEPT ![q] = Settled(Outcome(@.kind, response))]

\* The answer arrives, whatever it says: a response that is not valid, or not
\* successful, rejects the promise of requestWithAck().
AnswerArrives(q) ==
    /\ connected
    /\ q \in sent
    /\ sent' = sent \ {q}
    /\ \E response \in Responses :
          request' = IF IsOpen(q)
                     THEN [request EXCEPT ![q] = Settled(Outcome(@.kind, response))]
                     ELSE request

\* The timer fires: the promise is rejected, or isConnected() resolves to false.
TimesOut(q) ==
    /\ IsOpen(q)
    /\ request[q].timer
    /\ Becomes(q, Settled("timeout"))
    /\ UNCHANGED sent

\* Requests and answers under way are lost with the connection.
SessionLost == sent' = {} /\ UNCHANGED request

=============================================================================
