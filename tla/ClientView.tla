------------------------------- MODULE ClientView -------------------------------
(***************************************************************************)
(* A transport client as its owner sees it who connects it once, as        *)
(* connectToDaemon does: how it may move by itself, by its three tiers of  *)
(* reconnection and by the wake detection, and when it is silent for good. *)
(* TransportClient implements this specification, and the clients of       *)
(* ClientFactory follow it.                                                *)
(***************************************************************************)

VARIABLES
    conn,       \* its state: "down" is 'disconnected', "opening" the first
                \*   connection, "trying" to get a lost connection back
    retrying,   \* it is down, and will connect again by itself
    waking      \* it watches for the machine to wake

vars == <<conn, retrying, waking>>

TypeOK ==
    /\ conn \in {"opening", "up", "trying", "down"}
    /\ retrying \in BOOLEAN /\ waking \in BOOLEAN

Init == conn = "down" /\ ~retrying /\ ~waking

-----------------------------------------------------------------------------
(* The owner connects the client, and disconnects it.  What disconnect() finds  *)
(* 'disconnected' it leaves alone; a resolver call that it finds under way      *)
(* brings the client back.                                                      *)

Opens == Init /\ conn' = "opening" /\ UNCHANGED <<retrying, waking>>

Closes ==
    /\ conn # "down"
    /\ conn' = "down" /\ waking' = FALSE
    /\ retrying' \in BOOLEAN

-----------------------------------------------------------------------------
(* The client by itself *)

\* The first connection fails, with nothing under way that would try again ...
OpeningFails == conn = "opening" /\ conn' = "down" /\ UNCHANGED <<retrying, waking>>

\* ... or succeeds.
OpeningSucceeds == conn = "opening" /\ conn' = "up" /\ waking' = TRUE /\ UNCHANGED retrying

Loses == conn = "up" /\ conn' = "trying" /\ UNCHANGED <<retrying, waking>>

Recovers == conn = "trying" /\ conn' = "up" /\ waking' = TRUE /\ UNCHANGED retrying

\* Tier 1 gives up, a force attempt fails, the server ends the connection, or the
\* machine woke with a connection that is not one; a tier takes over or none does.
GoesDown ==
    /\ conn \in {"up", "trying"}
    /\ conn' = "down"
    /\ retrying' \in BOOLEAN
    /\ UNCHANGED waking

\* Tier 2 or 3 opens a new connection ...
RetryStarts ==
    retrying /\ conn' = "trying" /\ retrying' = FALSE /\ UNCHANGED waking

\* ... or stops.
RetryStops == retrying /\ retrying' = FALSE /\ UNCHANGED <<conn, waking>>

\* The machine wakes, or tier 1 gives up: force attempts begin anew.
Wakes ==
    /\ conn = "down" /\ waking /\ ~retrying
    /\ retrying' = TRUE
    /\ UNCHANGED <<conn, waking>>

ByItself ==
    \/ OpeningFails \/ OpeningSucceeds
    \/ Loses \/ Recovers \/ GoesDown
    \/ RetryStarts \/ RetryStops \/ Wakes

Next == Opens \/ Closes \/ ByItself

Spec == Init /\ [][Next]_vars

=============================================================================
