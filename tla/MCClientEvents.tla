---------------------------- MODULE MCClientEvents ----------------------------
(* Two subscriptions and a one-time handler for the same event. *)
EXTENDS ClientEvents

CONSTANTS e1, s1, s2, o1

MCEventOf == [x \in {s1, s2, o1} |-> e1]

=============================================================================
