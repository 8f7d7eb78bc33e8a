----------------------------- MODULE Connection -----------------------------
(***************************************************************************)
(* What a transport client promises the program that uses it: four         *)
(* connection states, the transitions between them, and one rule about who *)
(* may start a connection.  A client that was closed (disconnect() ran to  *)
(* its end with no discovery call outstanding) connects again only when    *)
(* the program opens it.  TransportClient implements this specification.   *)
(***************************************************************************)

VARIABLES
    state,      \* the ConnectionState the program observes
    closed      \* the program closed the client and has not opened it since

vars == <<state, closed>>

States == {"disconnected", "connecting", "connected", "reconnecting"}

TypeOK == /\ state \in States
          /\ closed \in BOOLEAN

Init == state = "disconnected" /\ closed = FALSE

\* The program calls connect(): the only step that leaves a closed client.
Open == /\ state = "disconnected"
        /\ state' \in {"disconnected", "connecting"}
        /\ closed' = FALSE

\* The client connects again by itself.
Retry == /\ state = "disconnected"
         /\ ~closed
         /\ state' = "connecting"
         /\ UNCHANGED closed

Establish == /\ state \in {"connecting", "reconnecting"}
             /\ state' = "connected"
             /\ UNCHANGED closed

Lose == /\ state = "connected"
        /\ state' = "reconnecting"
        /\ UNCHANGED closed

GiveUp == /\ state # "disconnected"
          /\ state' = "disconnected"
          /\ UNCHANGED closed

\* The program calls disconnect(); the client is closed unless a discovery
\* call is still outstanding.
Close == /\ state # "disconnected"
         /\ state' = "disconnected"
         /\ closed' \in BOOLEAN

Next == Open \/ Retry \/ Establish \/ Lose \/ GiveUp \/ Close

Spec == Init /\ [][Next]_vars

=============================================================================
