---------------------------- MODULE MCDaemonSpawner ----------------------------
(* Instances of DaemonSpawner for TLC. *)
EXTENDS DaemonSpawner, TLC
CONSTANTS p1, p2
\* 3.10.0-beta against 3.9.x: longer than the other, and newer in a number that
\* is smaller as a string.
MCVersion == (p1 :> [segments |-> <<3, 10>>, suffix |-> "beta"]) @@
             (p2 :> [segments |-> <<3, 9, NotANumber>>, suffix |-> ""])
\* A daemon's pid matters only as a name.
DaemonSymmetry == Permutations(Daemons)
=============================================================================
