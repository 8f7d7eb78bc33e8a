------------------------- MODULE MCTransportClient -------------------------
(* Instances of TransportClient for TLC; the .cfg files give the constants. *)
EXTENDS TransportClient
=============================================================================
