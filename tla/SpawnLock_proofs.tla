---------------------------- MODULE SpawnLock_proofs ----------------------------
(***************************************************************************)
(* What the lock file, the flags and the histories of SpawnLock say of     *)
(* each other, for every set of processes, and that every operation keeps  *)
(* it so.                                                                  *)
(***************************************************************************)
EXTENDS SpawnLock, TLAPS

\* From the exclusive create on, until its own file is gone.
Locking == {"write", "held", "verify", "delete"}

\* A dead process is nowhere, and #acquired is set from the write to the end of
\* release().
ControlMatches ==
    \A p \in Procs :
        /\ pc[p] # "out" => p \in alive
        /\ p \in acquired <=> pc[p] \in {"held", "verify", "delete"}
        /\ p \in robbed => pc[p] \in Locking

\* Unless it was robbed, a process that created a lock file finds it at its path.
HolderOwnsFile ==
    \A p \in Procs : pc[p] \in Locking /\ p \notin robbed =>
        \E f \in lockFile : f.owner = p /\ (f.written \/ pc[p] = "write")

\* What a process that is about to remove a file saw when it read it: its own
\* lock in release(), a stale one in acquire().
JudgedRightly ==
    \A p \in Procs :
        /\ pc[p] = "delete" => \E f \in judged[p] : f.owner = p
        /\ pc[p] = "unlink" =>
               \A f \in judged[p] : f.old \/ ~f.written \/ f.owner \notin alive

LockInv == LockTypeOK /\ ControlMatches /\ HolderOwnsFile /\ JudgedRightly

-----------------------------------------------------------------------------

\* Nothing is locked, judged or robbed at the start.
LEMMA LockInitInv == LockInit => LockInv
BY DEF LockInit, LockInv, LockTypeOK, ControlPoints, ControlMatches, HolderOwnsFile,
       JudgedRightly, Locking

\* Two processes that each find their own file at the path are one.
LEMMA OneHolder ==
    ASSUME LockInv, NEW p \in Procs, NEW q \in Procs,
           pc[p] \in Locking, pc[q] \in Locking, p \notin robbed, q \notin robbed
    PROVE  p = q
BY DEF LockInv, LockTypeOK, HolderOwnsFile

LEMMA AcquireInv ==
    ASSUME LockInv, NEW p \in alive, Acquire(p)
    PROVE  LockInv'
BY DEF Acquire, GoTo, LockInv, LockTypeOK, ControlPoints, ControlMatches, HolderOwnsFile,
       JudgedRightly, Locking

LEMMA TryExclusiveCreateInv ==
    ASSUME LockInv, NEW p \in alive, TryExclusiveCreate(p)
    PROVE  LockInv'
<1> USE DEF TryExclusiveCreate, GoTo, LockInv, LockTypeOK
<1>1. LockTypeOK'
  BY DEF ControlPoints, LockFiles
<1>2. ControlMatches'
  BY DEF ControlMatches, Locking
<1>3. HolderOwnsFile'
  <2>1. CASE lockFile = {} /\ lockFile' = {[owner |-> p, written |-> FALSE, old |-> FALSE]}
                           /\ pc' = [pc EXCEPT ![p] = "write"]
    <3>1. [owner |-> p, written |-> FALSE, old |-> FALSE] \in lockFile'
      BY <2>1
    <3>2. \A q \in Procs : q # p => pc'[q] = pc[q]
      BY <2>1
    <3> QED
      BY <2>1, <3>1, <3>2 DEF HolderOwnsFile
  <2>2. CASE UNCHANGED lockFile /\ \E next \in {"judge", "out"} : pc' = [pc EXCEPT ![p] = next]
    <3>1. \A q \in Procs : pc'[q] \in Locking => pc'[q] = pc[q]
      BY <2>2 DEF Locking
    <3> QED
      BY <2>2, <3>1 DEF HolderOwnsFile
  <2> QED
    BY <2>1, <2>2
<1>4. JudgedRightly'
  BY DEF JudgedRightly
<1> QED
  BY <1>1, <1>2, <1>3, <1>4

\* A write sets "written" in the writer's file and leaves any other as it is.
LEMMA WrittenFile ==
    ASSUME NEW f \in LockFiles, NEW p
    PROVE  /\ [f EXCEPT !.written = @ \/ f.owner = p] \in LockFiles
           /\ [f EXCEPT !.written = @ \/ f.owner = p].owner = f.owner
           /\ [f EXCEPT !.written = @ \/ f.owner = p].written <=> (f.written \/ f.owner = p)
<1>1. PICK o \in Procs, w \in BOOLEAN, a \in BOOLEAN :
          f = [owner |-> o, written |-> w, old |-> a]
  BY DEF LockFiles
<1>2. [f EXCEPT !.written = @ \/ f.owner = p] =
          [owner |-> o, written |-> (w \/ o = p), old |-> a]
  BY <1>1
<1> QED
  BY <1>1, <1>2 DEF LockFiles

LEMMA WriteLockInv ==
    ASSUME LockInv, NEW p \in alive, WriteLock(p)
    PROVE  LockInv'
<1> USE DEF GoTo, LockInv, LockTypeOK
<1> DEFINE Write(f) == [f EXCEPT !.written = @ \/ f.owner = p]
<1>0. \/ UNCHANGED lockFile /\ pc' = [pc EXCEPT ![p] = "out"]
      \/ lockFile = {} /\ lockFile' = {}
      \/ \E f \in LockFiles :
            /\ lockFile = {f}
            /\ lockFile' = {Write(f)}
            /\ Write(f) \in LockFiles
            /\ Write(f).owner = f.owner
            /\ Write(f).written <=> (f.written \/ f.owner = p)
  <2> HIDE DEF Write
  <2>1. \A f \in LockFiles : /\ Write(f) \in LockFiles
                             /\ Write(f).owner = f.owner
                             /\ Write(f).written <=> (f.written \/ f.owner = p)
    BY WrittenFile DEF Write
  <2>2. \/ lockFile' = {Write(f) : f \in lockFile}
        \/ UNCHANGED lockFile /\ pc' = [pc EXCEPT ![p] = "out"]
    BY Zenon DEF WriteLock, Write
  <2> QED
    BY <2>1, <2>2
<1> HIDE DEF Write
<1>a. /\ pc[p] = "write"
      /\ \/ acquired' = acquired \cup {p} /\ pc' = [pc EXCEPT ![p] = "held"] /\ UNCHANGED robbed
         \/ /\ pc' = [pc EXCEPT ![p] = "out"] /\ robbed' = robbed \ {p}
            /\ UNCHANGED <<lockFile, acquired>>
      /\ UNCHANGED <<alive, judged>>
  BY Zenon DEF WriteLock
<1>1. LockTypeOK'
  BY <1>0, <1>a DEF ControlPoints
<1>2. ControlMatches'
  BY <1>a DEF ControlMatches, Locking
<1>3. HolderOwnsFile'
  <2> SUFFICES ASSUME NEW q \in Procs, pc'[q] \in Locking, q \notin robbed'
               PROVE  \E f \in lockFile' : f.owner = q /\ (f.written \/ pc'[q] = "write")
    BY DEF HolderOwnsFile
  <2>1. q \notin robbed
    BY <1>a DEF Locking
  <2>2. pc[q] \in Locking /\ (q # p => pc'[q] = pc[q])
    BY <1>a DEF Locking
  <2>3. PICK f \in lockFile : f.owner = q /\ (f.written \/ pc[q] = "write")
    BY <2>1, <2>2 DEF HolderOwnsFile
  <2>4. CASE UNCHANGED lockFile /\ pc' = [pc EXCEPT ![p] = "out"]
    <3>1. q # p
      BY <1>a, <2>2, <2>4 DEF Locking
    <3> QED
      BY <2>2, <2>3, <2>4, <3>1
  <2>5. CASE lockFile = {f} /\ lockFile' = {Write(f)} /\ Write(f).owner = f.owner
              /\ (Write(f).written <=> (f.written \/ f.owner = p))
    BY <2>2, <2>3, <2>5
  <2> QED
    BY <1>0, <2>3, <2>4, <2>5
<1>4. JudgedRightly'
  BY <1>a DEF JudgedRightly
<1> QED
  BY <1>1, <1>2, <1>3, <1>4

LEMMA IsLockHeldInv ==
    ASSUME LockInv, NEW p \in alive, IsLockHeld(p)
    PROVE  LockInv'
<1> USE DEF IsLockHeld, GoTo, LockInv, LockTypeOK
<1>1. LockTypeOK'
  BY DEF ControlPoints
<1>2. ControlMatches'
  BY DEF ControlMatches, Locking
<1>3. HolderOwnsFile'
  BY DEF HolderOwnsFile, Locking
<1>4. JudgedRightly'
  BY DEF JudgedRightly, Held, LockFiles
<1> QED
  BY <1>1, <1>2, <1>3, <1>4

LEMMA RemoveStaleLockInv ==
    ASSUME LockInv, NEW p \in alive, RemoveStaleLock(p)
    PROVE  LockInv'
<1> USE DEF RemoveStaleLock, Unlink, GoTo, LockInv, LockTypeOK
<1>1. LockTypeOK'
  BY DEF ControlPoints, LockFiles
<1>2. ControlMatches'
  BY DEF ControlMatches, Locking, LockFiles
<1>3. HolderOwnsFile'
  BY DEF HolderOwnsFile, ControlMatches, Locking, LockFiles
<1>4. JudgedRightly'
  BY DEF JudgedRightly
<1> QED
  BY <1>1, <1>2, <1>3, <1>4

LEMMA ReleaseInv ==
    ASSUME LockInv, NEW p \in Procs, Release(p)
    PROVE  LockInv'
<1> USE DEF Release, GoTo, LockInv, LockTypeOK
<1>1. LockTypeOK'
  BY DEF ControlPoints
<1>2. ControlMatches'
  BY DEF ControlMatches, Locking
<1>3. HolderOwnsFile'
  BY DEF HolderOwnsFile, Locking
<1>4. JudgedRightly'
  BY DEF JudgedRightly
<1> QED
  BY <1>1, <1>2, <1>3, <1>4

LEMMA VerifyOwnershipInv ==
    ASSUME LockInv, NEW p \in alive, VerifyOwnership(p)
    PROVE  LockInv'
<1> USE DEF VerifyOwnership, GoTo, LockInv, LockTypeOK
<1>1. LockTypeOK'
  BY DEF ControlPoints
<1>2. ControlMatches'
  BY DEF ControlMatches, Locking
<1>3. HolderOwnsFile'
  BY DEF HolderOwnsFile, ControlMatches, Locking
<1>4. JudgedRightly'
  BY DEF JudgedRightly
<1> QED
  BY <1>1, <1>2, <1>3, <1>4

LEMMA DeleteLockInv ==
    ASSUME LockInv, NEW p \in alive, DeleteLock(p)
    PROVE  LockInv'
<1> USE DEF DeleteLock, Unlink, GoTo, LockInv, LockTypeOK
<1>1. LockTypeOK'
  BY DEF ControlPoints, LockFiles
<1>2. ControlMatches'
  BY DEF ControlMatches, Locking, LockFiles
<1>3. HolderOwnsFile'
  BY DEF HolderOwnsFile, ControlMatches, Locking, LockFiles
<1>4. JudgedRightly'
  BY DEF JudgedRightly
<1> QED
  BY <1>1, <1>2, <1>3, <1>4

LEMMA LockStepInv ==
    ASSUME LockInv, NEW p \in Procs, LockStep(p)
    PROVE  LockInv'
BY TryExclusiveCreateInv, WriteLockInv, IsLockHeldInv, RemoveStaleLockInv,
   VerifyOwnershipInv, DeleteLockInv DEF LockStep

\* Ageing changes nothing but "old".
LEMMA AgedFile ==
    ASSUME NEW f \in LockFiles
    PROVE  /\ [f EXCEPT !.old = TRUE] \in LockFiles
           /\ [f EXCEPT !.old = TRUE].owner = f.owner
           /\ [f EXCEPT !.old = TRUE].written = f.written
           /\ [f EXCEPT !.old = TRUE].old
<1>1. PICK o \in Procs, w \in BOOLEAN, a \in BOOLEAN :
          f = [owner |-> o, written |-> w, old |-> a]
  BY DEF LockFiles
<1>2. \A t \in BOOLEAN : [f EXCEPT !.old = t] = [owner |-> o, written |-> w, old |-> t]
  BY <1>1
<1>3. [f EXCEPT !.old = TRUE] = [owner |-> o, written |-> w, old |-> TRUE]
  BY <1>2, Zenon
<1> QED
  BY <1>1, <1>3 DEF LockFiles

LEMMA LockAgesInv ==
    ASSUME LockInv, LockAges
    PROVE  LockInv'
<1> USE DEF LockInv, LockTypeOK
<1>a. UNCHANGED <<pc, acquired, alive, judged, robbed>>
  BY Zenon DEF LockAges
<1>0. \E f \in LockFiles, g \in LockFiles :
          /\ lockFile = {f} /\ lockFile' = {g}
          /\ g.owner = f.owner /\ g.written = f.written /\ g.old
  <2> DEFINE Aged(f) == [f EXCEPT !.old = TRUE]
  <2>1. lockFile # {} /\ lockFile' = {Aged(f) : f \in lockFile}
    BY Zenon DEF LockAges, Aged
  <2>2. \A f \in LockFiles : /\ Aged(f) \in LockFiles
                             /\ Aged(f).owner = f.owner
                             /\ Aged(f).written = f.written
                             /\ Aged(f).old
    BY AgedFile DEF Aged
  <2> HIDE DEF Aged
  <2> QED
    BY <2>1, <2>2
<1>1. LockTypeOK'
  BY <1>0, <1>a
<1>2. ControlMatches'
  BY <1>a DEF ControlMatches
<1>3. HolderOwnsFile'
  BY <1>0, <1>a DEF HolderOwnsFile
<1>4. JudgedRightly'
  BY <1>a DEF JudgedRightly
<1> QED
  BY <1>1, <1>2, <1>3, <1>4

LEMMA CrashInv ==
    ASSUME LockInv, NEW p \in Procs, Crash(p)
    PROVE  LockInv'
<1> USE DEF Crash, GoTo, LockInv, LockTypeOK
<1>1. LockTypeOK'
  BY DEF ControlPoints
<1>2. ControlMatches'
  BY DEF ControlMatches, Locking
<1>3. HolderOwnsFile'
  BY DEF HolderOwnsFile, Locking
<1>4. JudgedRightly'
  BY DEF JudgedRightly
<1> QED
  BY <1>1, <1>2, <1>3, <1>4

LEMMA StartInv ==
    ASSUME LockInv, NEW p \in Procs, Start(p)
    PROVE  LockInv'
<1> USE DEF Start, LockInv, LockTypeOK
<1>1. LockTypeOK'
  OBVIOUS
<1>2. ControlMatches'
  BY DEF ControlMatches
<1>3. HolderOwnsFile'
  BY DEF HolderOwnsFile
<1>4. JudgedRightly'
  BY DEF JudgedRightly
<1> QED
  BY <1>1, <1>2, <1>3, <1>4

LEMMA UnchangedLockInv ==
    ASSUME LockInv, UNCHANGED lockVars
    PROVE  LockInv'
BY DEF lockVars, LockInv, LockTypeOK, ControlMatches, HolderOwnsFile, JudgedRightly

\* Where one operation of acquire() or release() leads; the other processes stay
\* where they are.
LEMMA LockStepMoves ==
    ASSUME LockInv, NEW p \in Procs, LockStep(p)
    PROVE  /\ pc[p] \notin {"held", "out"}
           /\ \E next \in ControlPoints :
                 /\ pc' = [pc EXCEPT ![p] = next]
                 /\ pc[p] \in {"create", "judge", "unlink", "retry", "write"} =>
                        next \in {"judge", "unlink", "retry", "write", "held", "out"}
                 /\ pc[p] \in {"verify", "delete"} => next \in {"delete", "out"}
BY DEF LockStep, TryExclusiveCreate, WriteLock, IsLockHeld, RemoveStaleLock,
       VerifyOwnership, DeleteLock, GoTo, ControlPoints

=============================================================================
