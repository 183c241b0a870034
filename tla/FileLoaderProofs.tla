--------------------------- MODULE FileLoaderProofs --------------------------
(***************************************************************************)
(* Proofs about FileLoader, for any set of states of the stored object.    *)
(***************************************************************************)
EXTENDS FileLoader, TLAPS

USE DefaultAssumption, TornAssumption

(* The file is never torn and a commit in progress owns the transaction;   *)
(* so a pending transaction has a whole copy to put in place.              *)
IInv ==
    /\ TypeOK
    /\ TransactionHasCopy
    /\ FileIsWhole
    /\ ~Idle => ptransaction /\ opened
    /\ ptransaction => opened

LEMMA InitIInv == Init => IInv
BY DEF Init, IInv, TypeOK, Contents, TransactionHasCopy, FileIsWhole, Idle

LEMMA NextIInv == IInv /\ [Next]_vars => IInv'
<1> SUFFICES ASSUME IInv, [Next]_vars PROVE IInv'
  OBVIOUS
<1> USE DEF IInv, TypeOK, Contents, TransactionHasCopy, FileIsWhole, Idle,
            Ready, Loaded, disk, commit
<1>1. CASE Open BY <1>1 DEF Open
<1>2. ASSUME NEW v \in Values, Change(v) PROVE IInv'
  BY <1>2 DEF Change
<1>3. CASE Save BY <1>3 DEF Save
<1>4. CASE SaveFails BY <1>4 DEF SaveFails, FailedWrite
<1>5. CASE CommitBegins BY <1>5 DEF CommitBegins
<1>6. CASE CommitEnds BY <1>6 DEF CommitEnds
<1>7. CASE Destroy BY <1>7 DEF Destroy
<1>8. CASE Discard BY <1>8 DEF Discard
<1>9. CASE Crash BY <1>9 DEF Crash, Die
<1>10. CASE UNCHANGED vars BY <1>10 DEF vars
<1> QED
  BY <1>1, <1>2, <1>3, <1>4, <1>5, <1>6, <1>7, <1>8, <1>9, <1>10 DEF Next

(* commit() and rollback() always find the copy they rename or remove, so  *)
(* that neither of them terminates the process.                            *)
THEOREM CopySafety == Spec => [](TypeOK /\ TransactionHasCopy)
<1>1. IInv => TypeOK /\ TransactionHasCopy
  BY DEF IInv
<1> QED BY <1>1, InitIInv, NextIInv, PTL DEF Spec

-----------------------------------------------------------------------------
LEMMA InitAbs == Init => Abs!Init
BY DEF Init, Abs!Init, Abs!EmptyMap, AbsView, AbsSaved, AbsCommitted, Saved,
       Entry, Loaded, Idle

LEMMA NextAbs == IInv /\ [Next]_vars => [Abs!Next]_(Abs!vars)
<1> SUFFICES ASSUME IInv, [Next]_vars PROVE [Abs!Next]_(Abs!vars)
  OBVIOUS
<1> USE DEF IInv, TypeOK, Contents, TransactionHasCopy, FileIsWhole, Idle,
            Ready, Loaded, disk, commit, AbsView, AbsSaved, AbsCommitted,
            Saved, Entry
<1>1. CASE Open BY <1>1 DEF Open, Abs!vars
<1>2. ASSUME NEW v \in Values, Change(v) PROVE [Abs!Next]_(Abs!vars)
  <2>1. /\ UNCHANGED <<AbsSaved, AbsCommitted>>
        /\ AbsView = Entry(object)
        /\ AbsView' = Entry(v)
    BY <1>2 DEF Change
  <2>2. /\ AbsView[Key] = object
        /\ \A w : Entry(w) = [AbsView EXCEPT ![Key] = w]
    BY <1>2 DEF Change
  <2>3. CASE v = object
    BY <2>1, <2>3 DEF Abs!vars
  <2>4. CASE v # Default /\ object = Default
    <3>1. Abs!Insert(Key, v) BY <2>1, <2>2, <2>4 DEF Abs!Insert
    <3> QED BY <2>4, <3>1 DEF Abs!Next
  <2>5. CASE v # Default /\ object # Default
    <3>1. Abs!Assign(Key, v) BY <2>1, <2>2, <2>5 DEF Abs!Assign
    <3> QED BY <2>5, <3>1 DEF Abs!Next
  <2>6. CASE v = Default /\ object # Default
    <3>1. Abs!Erase(Key) BY <2>1, <2>2, <2>6 DEF Abs!Erase
    <3> QED BY <3>1 DEF Abs!Next
  <2> QED BY <2>3, <2>4, <2>5, <2>6
<1>3. CASE Save BY <1>3 DEF Save, Abs!Next, Abs!Save
<1>4. CASE SaveFails BY <1>4 DEF SaveFails, FailedWrite, Abs!vars
<1>5. CASE CommitBegins
  <2>1. CASE committing' = "commit"
    BY <1>5, <2>1 DEF CommitBegins, Abs!Next, Abs!Commit
  <2>2. CASE committing' = "destroy"
    BY <1>5, <2>2 DEF CommitBegins, Abs!Next, Abs!Reopen
  <2> QED BY <1>5, <2>1, <2>2 DEF CommitBegins
<1>6. CASE CommitEnds
  <2>1. file_tr # NoFile BY <1>6 DEF CommitEnds
  <2> QED BY <1>6, <2>1 DEF CommitEnds, Abs!vars
<1>7. CASE Destroy
  <2>1. AbsCommitted = AbsSaved BY <1>7 DEF Destroy
  <2> QED BY <1>7, <2>1 DEF Destroy, Abs!Next, Abs!Rollback
<1>8. CASE Discard BY <1>8 DEF Discard, Abs!Next, Abs!Rollback
<1>9. CASE Crash BY <1>9 DEF Crash, Die, Abs!Next, Abs!Rollback
<1>10. CASE UNCHANGED vars BY <1>10 DEF vars, Abs!vars
<1> QED
  BY <1>1, <1>2, <1>3, <1>4, <1>5, <1>6, <1>7, <1>8, <1>9, <1>10 DEF Next

(* For any states of the object, file_loader is a transactional cell: what *)
(* is loaded after a commit is what was saved, after a discard() or a      *)
(* crash outside commit() what was committed; a failing first save() and   *)
(* copies that dead processes left change nothing.                         *)
THEOREM Refinement == Spec => ImplementsTxMap
<1>1. IInv /\ [Next]_vars => [Abs!Next]_(Abs!vars) BY NextAbs
<1> QED
  BY <1>1, InitAbs, InitIInv, NextIInv, PTL
  DEF Spec, ImplementsTxMap, Abs!Spec
=============================================================================
