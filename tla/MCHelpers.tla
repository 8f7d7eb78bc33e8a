------------------------------- MODULE MCHelpers -------------------------------
(* One unit of the clock is 2.5 s: the detector checks every 2 units with a       *)
(* threshold of 4; the delays and the total time are shortened.                   *)
EXTENDS Helpers
CONSTANTS o1, o2, o3
MCDelays == <<2, 4>>
PortsAround == {DaemonPortMin - 1, DaemonPortMin, DaemonPortMax, DaemonPortMax + 1}
MCAges == {-1, 0, HeartbeatStaleThreshold, HeartbeatStaleThreshold + 1}
MCFiles == {Missing, Unreadable, NotJson, NotAnObject} \cup
    {Object([pid |-> p, port |-> q, startedAt |-> s, version |-> v]) :
        p \in {Number(0), Number(1), Fraction(1), Text, Undefined},
        q \in {Number(n) : n \in PortsAround} \cup {Fraction(DaemonPortMin), Text},
        s \in {Number(0), Number(1), Undefined},
        v \in {Text, Undefined, Number(3)}}
=============================================================================
