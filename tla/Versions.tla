-------------------------------- MODULE Versions --------------------------------
(***************************************************************************)
(* compareSemver (infra/version-utils.ts) on version strings cut at their  *)
(* separators: the dot-separated segments, and the prerelease or build     *)
(* suffix the comparison strips.                                           *)
(***************************************************************************)
EXTENDS Integers, Sequences, FiniteSetsExt

NotANumber == -1

\* A segment that parseInt does not read as a number counts as 0, and so does a
\* segment that one of the two versions does not have.
Part(v, i) ==
    IF i \in DOMAIN v.segments /\ v.segments[i] \in Nat THEN v.segments[i] ELSE 0

\* Negative, 0 or positive as a is older than, equivalent to or newer than b.
CompareSemver(a, b) ==
    LET last == Max({Len(a.segments), Len(b.segments)})
        differing == {i \in 1 .. last : Part(a, i) # Part(b, i)}
    IN  IF differing = {} THEN 0
        ELSE Part(a, Min(differing)) - Part(b, Min(differing))

=============================================================================
