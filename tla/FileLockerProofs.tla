--------------------------- MODULE FileLockerProofs --------------------------
(***************************************************************************)
(* Proofs about FileLocker, for any processes, inodes and number of tries. *)
(***************************************************************************)
EXTENDS FileLocker, TLAPS

USE NoneAssumption, MaxTriesAssumption

HasFile == {"opened", "locked", "holding", "removed"}

(* A process past open() has an inode: what Lock and the owner of a lock   *)
(* rely on.                                                                *)
OpenedHaveFiles == \A p \in Processes : pc[p] \in HasFile => fd[p] \in Inodes

(* A process that has not given up has an attempt left.                    *)
AttemptsLeft ==
    \A p \in Processes : pc[p] \in {"trying", "opened"} => tries[p] < MaxTries

IInv ==
    /\ TypeOK
    /\ OpenedHaveFiles
    /\ AttemptsLeft
    /\ LocksAreHeld

LEMMA InitIInv == Init => IInv
BY DEF Init, IInv, TypeOK, OpenedHaveFiles, AttemptsLeft, LocksAreHeld,
       Places, HasFile

LEMMA NextIInv == IInv /\ [Next]_vars => IInv'
<1> SUFFICES ASSUME IInv, [Next]_vars PROVE IInv'
  OBVIOUS
<1> USE DEF IInv, TypeOK, OpenedHaveFiles, AttemptsLeft, LocksAreHeld,
            HasFile, Places, Goto
<1>1. ASSUME NEW p \in Processes, Begin(p) PROVE IInv'
  BY <1>1 DEF Begin
<1>2. ASSUME NEW p \in Processes, OpenFile(p) PROVE IInv'
  BY <1>2 DEF OpenFile
<1>3. ASSUME NEW p \in Processes, Lock(p) PROVE IInv'
  BY <1>3 DEF Lock
<1>4. ASSUME NEW p \in Processes, LockFails(p) PROVE IInv'
  <2>1. tries[p] + 1 \in 0..MaxTries
    BY <1>4 DEF LockFails
  <2> QED BY <1>4, <2>1 DEF LockFails
<1>5. ASSUME NEW p \in Processes, Construct(p) PROVE IInv'
  BY <1>5 DEF Construct
<1>6. ASSUME NEW p \in Processes, RemovePath(p) PROVE IInv'
  BY <1>6 DEF RemovePath
<1>7. ASSUME NEW p \in Processes, Close(p) PROVE IInv'
  BY <1>7 DEF Close, Unlock
<1>8. ASSUME NEW p \in Processes, Crash(p) PROVE IInv'
  BY <1>8 DEF Crash, Unlock
<1>9. ASSUME NEW p \in Processes, OpenFails(p) PROVE IInv'
  <2>1. tries[p] + 1 \in 0..MaxTries
    BY <1>9 DEF OpenFails
  <2> QED BY <1>9, <2>1 DEF OpenFails
<1>10. CASE UNCHANGED vars
  BY <1>10 DEF vars
<1> QED
  BY <1>1, <1>2, <1>3, <1>4, <1>5, <1>6, <1>7, <1>8, <1>9, <1>10
  DEF Next, Acquire, Release

(* Every lock belongs to a live process that is past flock() on the very   *)
(* file that carries it: what a dead or finished process leaves at the     *)
(* path locks nobody out.                                                  *)
THEOREM LockSafety == Spec => [](TypeOK /\ LocksAreHeld)
<1>1. IInv => TypeOK /\ LocksAreHeld
  BY DEF IInv
<1> QED BY <1>1, InitIInv, NextIInv, PTL DEF Spec

-----------------------------------------------------------------------------
(* Mutual exclusion among processes that never remove the lock file: they  *)
(* all meet at one inode.                                                  *)

OneInode ==
    /\ \A p \in Processes : pc[p] # "removed"
    /\ \A p \in Processes :
           pc[p] \in {"opened", "locked", "holding"} => fd[p] = lock_path
    /\ \A p \in Holders : flocked[fd[p]] = p

LEMMA InitOneInode == Init => OneInode
BY DEF Init, OneInode, Holders

LEMMA KilledIsNext == [NextKilled]_vars => [Next]_vars
BY DEF NextKilled, Next

LEMMA NextOneInode == IInv /\ OneInode /\ [NextKilled]_vars => OneInode'
<1> SUFFICES ASSUME IInv, OneInode, [NextKilled]_vars PROVE OneInode'
  OBVIOUS
<1> USE DEF IInv, TypeOK, OpenedHaveFiles, OneInode, Holders, HasFile, Places,
            Goto
<1>1. ASSUME NEW p \in Processes, Begin(p) PROVE OneInode'
  BY <1>1 DEF Begin
<1>2. ASSUME NEW p \in Processes, OpenFile(p) PROVE OneInode'
  <2>1. CASE lock_path = None
    <3>1. \A q \in Processes : pc[q] \notin {"opened", "locked", "holding"}
      BY <2>1
    <3> QED BY <1>2, <3>1 DEF OpenFile
  <2>2. CASE lock_path # None
    <3>1. lock_path' = lock_path /\ fd' = [fd EXCEPT ![p] = lock_path]
      BY <1>2, <2>2 DEF OpenFile
    <3> QED BY <1>2, <3>1 DEF OpenFile
  <2> QED BY <2>1, <2>2
<1>3. ASSUME NEW p \in Processes, Lock(p) PROVE OneInode'
  BY <1>3 DEF Lock
<1>4. ASSUME NEW p \in Processes, LockFails(p) PROVE OneInode'
  BY <1>4 DEF LockFails
<1>5. ASSUME NEW p \in Processes, Construct(p) PROVE OneInode'
  BY <1>5 DEF Construct
<1>6. ASSUME NEW p \in Processes, Crash(p) PROVE OneInode'
  BY <1>6 DEF Crash, Unlock
<1>7. ASSUME NEW p \in Processes, OpenFails(p) PROVE OneInode'
  BY <1>7 DEF OpenFails
<1>8. CASE UNCHANGED vars
  BY <1>8 DEF vars
<1> QED
  BY <1>1, <1>2, <1>3, <1>4, <1>5, <1>6, <1>7, <1>8 DEF NextKilled, Acquire

(* Any number of processes that create, lock and die, but never remove the *)
(* lock file, exclude each other: it takes delete_lock_file(), which       *)
(* removes the file before it closes it, to let two of them in.            *)
THEOREM KilledExclude == SpecKilled => []MutualExclusion
<1>1. OneInode => MutualExclusion
  BY DEF OneInode, MutualExclusion, Holders
<1> QED
  BY <1>1, InitIInv, InitOneInode, NextIInv, NextOneInode, KilledIsNext, PTL
  DEF SpecKilled
=============================================================================
