----------------------------- MODULE MCClientRooms -----------------------------
(* Instances of ClientRooms for TLC; the .cfg files give the constants. *)
EXTENDS ClientRooms
=============================================================================
