------------------------------ MODULE FileLocker -----------------------------
(***************************************************************************)
(* file_locker<T> (libsystemutility, the POSIX build): processes that want *)
(* the object stored at a path first open "<path>.lock", creating it if it *)
(* is not there, and take an flock on what they opened, without waiting;   *)
(* up to MaxTries times.  The holder removes the file and closes it.       *)
(*                                                                         *)
(* A lock belongs to a file (inode), not to the path: removing the path    *)
(* leaves the inode and its lock to those that have it open.               *)
(***************************************************************************)
EXTENDS Naturals, FiniteSets

CONSTANTS
    Processes,
    Inodes,         \* files that can be created at the path
    None,           \* no file, no process
    MaxTries        \* attempts at the lock (10)

ASSUME NoneAssumption == None \notin Inodes \cup Processes
ASSUME MaxTriesAssumption == MaxTries \in Nat \ {0}

VARIABLES
    lock_path,      \* the inode "<path>.lock" names, or None
    fd,             \* native_handle: the inode the process has open
    flocked,        \* whose flock the inode carries
    pc,             \* where the process is in file_locker
    tries           \* attempts made by the constructor so far

vars == <<lock_path, fd, flocked, pc, tries>>

Places == {"out", "trying", "opened", "locked", "holding", "removed"}

TypeOK ==
    /\ lock_path \in Inodes \cup {None}
    /\ fd \in [Processes -> Inodes \cup {None}]
    /\ flocked \in [Inodes -> Processes \cup {None}]
    /\ pc \in [Processes -> Places]
    /\ tries \in [Processes -> 0..MaxTries]

Init ==
    /\ lock_path = None
    /\ fd = [p \in Processes |-> None]
    /\ flocked = [i \in Inodes |-> None]
    /\ pc = [p \in Processes |-> "out"]
    /\ tries = [p \in Processes |-> 0]

Goto(p, place) == pc' = [pc EXCEPT ![p] = place]

Unused(i) == i # lock_path /\ \A p \in Processes : fd[p] # i

-----------------------------------------------------------------------------
Begin(p) ==
    /\ pc[p] = "out"
    /\ tries' = [tries EXCEPT ![p] = 0]
    /\ Goto(p, "trying")
    /\ UNCHANGED <<lock_path, fd, flocked>>

(* open(path, O_RDWR | O_CREAT)                                            *)
OpenFile(p) ==
    /\ pc[p] = "trying"
    /\ \E i \in Inodes :
           /\ IF lock_path = None THEN Unused(i) ELSE i = lock_path
           /\ lock_path' = i
           /\ fd' = [fd EXCEPT ![p] = i]
    /\ Goto(p, "opened")
    /\ UNCHANGED <<flocked, tries>>

(* open() fails: an attempt without a file.                                *)
OpenFails(p) ==
    /\ pc[p] = "trying"
    /\ tries' = [tries EXCEPT ![p] = @ + 1]
    /\ Goto(p, IF tries[p] + 1 < MaxTries THEN "trying" ELSE "out")
    /\ UNCHANGED <<lock_path, fd, flocked>>

(* flock(fd, LOCK_EX | LOCK_NB) succeeds ...                               *)
Lock(p) ==
    /\ pc[p] = "opened"
    /\ flocked[fd[p]] = None
    /\ flocked' = [flocked EXCEPT ![fd[p]] = p]
    /\ Goto(p, "locked")
    /\ UNCHANGED <<lock_path, fd, tries>>

(* Mutant: one attempt too many.                                           *)
LockFails_OffByOne(p) ==
    /\ pc[p] = "opened"
    /\ flocked[fd[p]] # None
    /\ fd' = [fd EXCEPT ![p] = None]
    /\ tries' = [tries EXCEPT ![p] = @ + 1]
    /\ Goto(p, IF tries[p] + 1 <= MaxTries THEN "trying" ELSE "out")
    /\ UNCHANGED <<lock_path, flocked>>

(* Mutant: the attempts are not counted.                                   *)
LockFails_Forever(p) ==
    /\ pc[p] = "opened"
    /\ flocked[fd[p]] # None
    /\ fd' = [fd EXCEPT ![p] = None]
    /\ Goto(p, "trying")
    /\ UNCHANGED <<lock_path, flocked, tries>>

(* ... or fails: the file is closed, and after small_random_sleep() opened *)
(* again, until the constructor throws "unable to create lock file".       *)
LockFails(p) ==
    /\ pc[p] = "opened"
    /\ flocked[fd[p]] # None
    /\ fd' = [fd EXCEPT ![p] = None]
    /\ tries' = [tries EXCEPT ![p] = @ + 1]
    /\ Goto(p, IF tries[p] + 1 < MaxTries THEN "trying" ELSE "out")
    /\ UNCHANGED <<lock_path, flocked>>

(* dostuff() wrote the owner and T was constructed.                        *)
Construct(p) ==
    /\ pc[p] = "locked"
    /\ Goto(p, "holding")
    /\ UNCHANGED <<lock_path, fd, flocked, tries>>

(* delete_lock_file(): by the destructor, or by the constructor's guard if *)
(* dostuff() or T threw.  The path is removed, whatever it names by now.   *)
RemovePath(p) ==
    /\ pc[p] \in {"locked", "holding"}
    /\ lock_path' = None
    /\ Goto(p, "removed")
    /\ UNCHANGED <<fd, flocked, tries>>

Unlock(p) ==
    [i \in Inodes |-> IF flocked[i] = p THEN None ELSE flocked[i]]

(* Mutant: the lock file is removed but never closed.                      *)
Close_Leaks(p) ==
    /\ pc[p] = "removed"
    /\ Goto(p, "out")
    /\ UNCHANGED <<lock_path, fd, flocked, tries>>

Close(p) ==
    /\ pc[p] = "removed"
    /\ fd' = [fd EXCEPT ![p] = None]
    /\ flocked' = Unlock(p)
    /\ Goto(p, "out")
    /\ UNCHANGED <<lock_path, tries>>

(* The system closes the files of a process that dies.                     *)
Crash(p) ==
    /\ pc[p] # "out"
    /\ fd' = [fd EXCEPT ![p] = None]
    /\ flocked' = Unlock(p)
    /\ Goto(p, "out")
    /\ UNCHANGED <<lock_path, tries>>

-----------------------------------------------------------------------------
Acquire(p) ==
    \/ OpenFile(p) \/ OpenFails(p)
    \/ Lock(p) \/ LockFails(p)
    \/ Construct(p)

Release(p) == RemovePath(p) \/ Close(p)

Next == \E p \in Processes :
            Begin(p) \/ Acquire(p) \/ Release(p) \/ Crash(p)

(* A process in the constructor or the destructor goes on; what it does    *)
(* with the object, and whether it begins again, is its own affair.        *)
Fairness == \A p \in Processes : WF_vars(Acquire(p)) /\ WF_vars(Close(p))

Spec == Init /\ [][Next]_vars /\ Fairness

(* Processes that keep the lock until they die: a daemon that is killed.   *)
NextKilled == \E p \in Processes : Begin(p) \/ Acquire(p) \/ Crash(p)

SpecKilled == Init /\ [][NextKilled]_vars

-----------------------------------------------------------------------------
(* Properties.                                                             *)

Holders == {p \in Processes : pc[p] \in {"locked", "holding"}}

(* A file_locker exists to be alone with the object at the path.           *)
MutualExclusion == \A p, q \in Holders : p = q

(* create_lock_file() never waits: an attempt ends with the object or with *)
(* "unable to create lock file", however the others come and go.           *)
AttemptEnds ==
    \A p \in Processes : pc[p] = "trying" ~> pc[p] \in {"out", "holding", "removed"}

(* A file left at the path by a dead process does not lock anybody out,    *)
(* and a removed file keeps its lock only as long as somebody uses it.     *)
LocksAreHeld ==
    \A i \in Inodes : flocked[i] # None =>
        /\ pc[flocked[i]] \in {"locked", "holding", "removed"}
        /\ fd[flocked[i]] = i
=============================================================================
