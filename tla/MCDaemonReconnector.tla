-------------------------- MODULE MCDaemonReconnector --------------------------
(* Instances of DaemonReconnector for TLC.  Calls are alike, and so are all   *)
(* clients but the first: symmetry is sound for the safety properties.        *)
EXTENDS DaemonReconnector, TLC
Alike == Permutations(Calls) \cup Permutations(Clients \ {FirstClient})
=============================================================================
