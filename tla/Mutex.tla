---------------------------------- MODULE Mutex ----------------------------------
(***************************************************************************)
(* What the spawn lock promises: a client enters only when no client is    *)
(* inside.  A client may also be put out, when its lock is taken from it,  *)
(* or end while it is inside.                                              *)
(***************************************************************************)
CONSTANT Procs
VARIABLE inside     \* the clients inside

Init == inside = {}
Enter(p) == inside = {} /\ inside' = {p}
Leave(p) == inside = {p} /\ inside' = {}
Next == \E p \in Procs : Enter(p) \/ Leave(p)
Spec == Init /\ [][Next]_inside
==================================================================================
