--------------------------- MODULE MapLoaderProofs ---------------------------
(***************************************************************************)
(* Proofs about MapLoader, for any finite set of keys, any values and any  *)
(* distribution of the keys over data files.                               *)
(***************************************************************************)
EXTENDS MapLoader, FiniteSetTheorems, TLAPS

(* The inductive invariant: every part needs the others.  Save writes the  *)
(* right data only if an erased key is really stored in its file           *)
(* (OverlayMatchesIndex with IndexMatchesData); a rollback restores the    *)
(* index only if index_to_rollback is the committed one.                   *)
IInv ==
    /\ TypeOK
    /\ KeysAreView
    /\ IndexMatchesData
    /\ DiscardCanRollBack
    /\ OverlayMatchesIndex

USE NoValueAssumption, FileOfAssumption

LEMMA InitIInv == Init => IInv
BY DEF Init, IInv, TypeOK, KeysAreView, IndexMatchesData, DiscardCanRollBack,
       OverlayMatchesIndex, View, Stored, IndexFile, NoOverlay, NoItems,
       ECodes, Cells

-----------------------------------------------------------------------------
(* What an operation on the overlay leaves alone.                          *)

OverlayOnly == UNCHANGED <<disk, transaction, index, index_to_rollback>>

LEMMA OverlayOnlyFrame ==
    ASSUME OverlayOnly
    PROVE  /\ IndexFile' = IndexFile
           /\ \A k \in Keys : Stored(k)' = Stored(k)
           /\ IndexMatchesData => IndexMatchesData'
           /\ DiscardCanRollBack => DiscardCanRollBack'
           /\ AbsSaved' = AbsSaved
           /\ AbsCommitted' = AbsCommitted
<1>1. UNCHANGED <<mainIndex, mainData, trIndex, trData, ptransaction, txIndex,
                  txFiles, index, index_to_rollback>>
  BY DEF OverlayOnly, disk, transaction
<1>2. IndexFile' = IndexFile
  BY <1>1 DEF IndexFile
<1>3. \A k \in Keys : Stored(k)' = Stored(k)
  BY <1>1 DEF Stored
<1>4. IndexMatchesData => IndexMatchesData'
  BY <1>1, <1>2, <1>3 DEF IndexMatchesData
<1>5. DiscardCanRollBack => DiscardCanRollBack'
  BY <1>1 DEF DiscardCanRollBack
<1>6. AbsSaved' = AbsSaved /\ AbsCommitted' = AbsCommitted
  BY <1>1, <1>3 DEF AbsSaved, AbsCommitted
<1> QED BY <1>2, <1>3, <1>4, <1>5, <1>6

(* The overlay operations: one cell changes, or all do.                    *)
LEMMA AtConstStep ==
    ASSUME IInv, NEW k \in Keys, AtConst(k)
    PROVE  /\ IInv'
           /\ AbsView' = AbsView
<1>1. OverlayOnly BY DEF AtConst, OverlayOnly
<1>2. /\ ecode' = [ecode EXCEPT ![k] = "none"]
      /\ item' = [item EXCEPT ![k] = Stored(k)]
      /\ keys_with_overlay' = keys_with_overlay
      /\ index' = index
      /\ ecode[k] = "absent" /\ k \in index
  BY DEF AtConst, SetOverlay
<1>3. Stored(k) \in Cells
  BY DEF IInv, TypeOK, Stored
<1>4. TypeOK'
  BY <1>1, <1>2, <1>3
  DEF IInv, TypeOK, OverlayOnly, disk, transaction, ECodes
<1>5. \A q \in Keys : View(q)' = View(q)
  BY <1>1, <1>2, OverlayOnlyFrame DEF View, IInv, TypeOK
<1>6. KeysAreView'
  BY <1>2, <1>5 DEF KeysAreView, IInv
<1>7. OverlayMatchesIndex'
  BY <1>1, <1>2, OverlayOnlyFrame
  DEF OverlayMatchesIndex, IInv, TypeOK, IndexMatchesData
<1>8. AbsView' = AbsView
  BY <1>5 DEF AbsView
<1> QED BY <1>1, <1>4, <1>6, <1>7, <1>8, OverlayOnlyFrame DEF IInv

LEMMA WriteStep ==
    ASSUME IInv, NEW k \in Keys, NEW v \in Values, At(k, v) \/ Insert(k, v)
    PROVE  /\ IInv'
           /\ AbsView' = [AbsView EXCEPT ![k] = v]
<1>1. OverlayOnly BY DEF At, Insert, OverlayOnly
<1>2. /\ ecode' = [ecode EXCEPT ![k] = "modified"]
      /\ item' = [item EXCEPT ![k] = v]
      /\ index' = index
  BY DEF At, Insert, SetOverlay
<1>3. TypeOK'
  BY <1>1, <1>2
  DEF IInv, TypeOK, OverlayOnly, disk, transaction, ECodes, Cells, At, Insert
<1>4. \A q \in Keys : View(q)' = IF q = k THEN v ELSE View(q)
  BY <1>1, <1>2, OverlayOnlyFrame DEF View, IInv, TypeOK
<1>5. keys_with_overlay' = keys_with_overlay \cup {k}
  <2>1. CASE At(k, v)
    <3>1. View(k) # NoValue
      BY <2>1 DEF At, View, IInv, TypeOK, ECodes, IndexMatchesData,
                  OverlayMatchesIndex
    <3> QED BY <2>1, <3>1 DEF At, IInv, KeysAreView
  <2>2. CASE Insert(k, v)
    BY <2>2 DEF Insert
  <2> QED BY <2>1, <2>2
<1>6. KeysAreView'
  BY <1>4, <1>5 DEF KeysAreView, IInv
<1>7. OverlayMatchesIndex'
  BY <1>1, <1>2, OverlayOnlyFrame
  DEF OverlayMatchesIndex, IInv, TypeOK
<1>8. AbsView' = [AbsView EXCEPT ![k] = v]
  BY <1>4 DEF AbsView
<1> QED BY <1>1, <1>3, <1>6, <1>7, <1>8, OverlayOnlyFrame DEF IInv

LEMMA EraseStep ==
    ASSUME IInv, NEW k \in Keys, Erase(k)
    PROVE  /\ IInv'
           /\ AbsView' = [AbsView EXCEPT ![k] = NoValue]
<1>1. OverlayOnly BY DEF Erase, OverlayOnly
<1>2. /\ ecode' = [ecode EXCEPT ![k] = IF k \in index THEN "deleted"
                                                      ELSE "absent"]
      /\ item' = [item EXCEPT ![k] = NoValue]
      /\ keys_with_overlay' = keys_with_overlay \ {k}
      /\ index' = index
  BY DEF Erase, SetOverlay
<1>3. TypeOK'
  BY <1>1, <1>2
  DEF IInv, TypeOK, OverlayOnly, disk, transaction, ECodes, Cells
<1>4. \A q \in Keys : View(q)' = IF q = k THEN NoValue ELSE View(q)
  BY <1>1, <1>2, OverlayOnlyFrame DEF View, IInv, TypeOK
<1>5. KeysAreView'
  BY <1>2, <1>4 DEF KeysAreView, IInv
<1>6. OverlayMatchesIndex'
  BY <1>1, <1>2, OverlayOnlyFrame
  DEF OverlayMatchesIndex, IInv, TypeOK, IndexMatchesData
<1>7. AbsView' = [AbsView EXCEPT ![k] = NoValue]
  BY <1>4 DEF AbsView
<1> QED BY <1>1, <1>3, <1>5, <1>6, <1>7, OverlayOnlyFrame DEF IInv

LEMMA ClearStep ==
    ASSUME IInv, Clear
    PROVE  /\ IInv'
           /\ AbsView' = [k \in Keys |-> NoValue]
<1>1. OverlayOnly BY DEF Clear, OverlayOnly
<1>2. /\ ecode' = [k \in Keys |-> IF k \in index THEN "deleted" ELSE "absent"]
      /\ item' = [k \in Keys |-> NoValue]
      /\ keys_with_overlay' = {}
      /\ index' = index
  BY <1>1 DEF Clear, NoItems, OverlayOnly
<1>3. TypeOK'
  BY <1>1, <1>2
  DEF IInv, TypeOK, OverlayOnly, disk, transaction, ECodes, Cells
<1>4. \A q \in Keys : View(q)' = NoValue
  BY <1>1, <1>2, OverlayOnlyFrame DEF View
<1>5. KeysAreView'
  BY <1>2, <1>4 DEF KeysAreView
<1>6. OverlayMatchesIndex'
  BY <1>1, <1>2, OverlayOnlyFrame
  DEF OverlayMatchesIndex, IInv, IndexMatchesData
<1>7. AbsView' = [k \in Keys |-> NoValue]
  BY <1>4 DEF AbsView
<1> QED BY <1>1, <1>3, <1>5, <1>6, <1>7, OverlayOnlyFrame DEF IInv

-----------------------------------------------------------------------------
(* save().                                                                 *)

(* purpose_clear_all compares two sizes instead of two sets, and is right: *)
(* what is erased is stored, so that equal sizes mean equal sets.          *)
LEMMA ErasedFromExact ==
    ASSUME IInv, NEW f \in Files
    PROVE  ErasedFrom(f, WithCode("deleted")) =
               {k \in WithCode("deleted") : FileOf[k] = f}
<1> DEFINE requested == {k \in WithCode("deleted") : FileOf[k] = f}
<1>1. requested \subseteq StoredKeys(f)
  BY DEF IInv, IndexMatchesData, OverlayMatchesIndex, WithCode, StoredKeys
<1>2. IsFiniteSet(StoredKeys(f))
  <2>1. StoredKeys(f) \in SUBSET Keys BY DEF StoredKeys
  <2> QED BY <2>1, KeysAssumption, FS_Subset
<1>3. Cardinality(StoredKeys(f)) = Cardinality(requested)
          => StoredKeys(f) = requested
  BY <1>1, <1>2, FS_Subset
<1> QED BY <1>3 DEF ErasedFrom

LEMMA DataAfterSaveIsView ==
    ASSUME IInv, NEW k \in Keys
    PROVE  DataAfterSave(k) = View(k)
<1>1. k \in ErasedFrom(FileOf[k], WithCode("deleted")) <=>
          ecode[k] = "deleted"
  BY ErasedFromExact DEF WithCode
<1> QED
  BY <1>1 DEF DataAfterSave, View, IInv, TypeOK, ECodes, IndexMatchesData,
              OverlayMatchesIndex

LEMMA SaveStep ==
    ASSUME IInv, Save
    PROVE  /\ IInv'
           /\ AbsView' = AbsView
           /\ AbsSaved' = AbsView
           /\ AbsCommitted' = AbsCommitted
<1>1. /\ mainIndex' = mainIndex /\ mainData' = mainData
      /\ index_to_rollback' = index_to_rollback
      /\ keys_with_overlay' = keys_with_overlay
      /\ ptransaction' = TRUE
      /\ txFiles' = txFiles \cup TouchedFiles
      /\ index' = (index \ WithCode("deleted")) \cup WithCode("modified")
      /\ ecode' = NoOverlay /\ item' = NoItems
  BY DEF Save
<1>2. \A k \in Keys : View(k) \in Cells
  BY DEF View, IInv, TypeOK, Stored, Cells
<1>3. trData' = [k \in Keys |-> IF FileOf[k] \in txFiles \cup TouchedFiles
                                THEN View(k) ELSE trData[k]]
  BY DataAfterSaveIsView DEF Save
<1>4. TypeOK'
  <2>1. /\ TouchedFiles \subseteq Files
        /\ WithCode("modified") \subseteq Keys
        /\ IndexFile \subseteq Keys
    BY DEF TouchedFiles, FilesOf, WithCode, IndexFile, IInv, TypeOK
  <2>2. trData' \in [Keys -> Cells]
    BY <1>2, <1>3 DEF IInv, TypeOK
  <2>3. txIndex' \in BOOLEAN /\ trIndex' \subseteq Keys
    BY <2>1 DEF Save, IInv, TypeOK
  <2> QED
    BY <1>1, <2>1, <2>2, <2>3
    DEF IInv, TypeOK, NoOverlay, NoItems, ECodes, Cells
<1>5. \A k \in Keys : Stored(k)' = View(k)
  <2> SUFFICES ASSUME NEW k \in Keys PROVE Stored(k)' = View(k)
    OBVIOUS
  <2>1. CASE FileOf[k] \in txFiles \cup TouchedFiles
    BY <1>1, <1>3, <2>1 DEF Stored
  <2>2. CASE FileOf[k] \notin txFiles \cup TouchedFiles
    <3>1. Stored(k)' = Stored(k)
      BY <1>1, <2>2 DEF Stored
    <3>2. ecode[k] \in {"absent", "none"}
      BY <2>2 DEF TouchedFiles, FilesOf, WithCode, IInv, TypeOK, ECodes
    <3>3. View(k) = Stored(k)
      BY <3>2 DEF View, IInv, IndexMatchesData, OverlayMatchesIndex
    <3> QED BY <3>1, <3>3
  <2> QED BY <2>1, <2>2
<1>6. index' = {k \in Keys : View(k) # NoValue}
  BY <1>1 DEF View, WithCode, IInv, TypeOK, ECodes, IndexMatchesData,
              OverlayMatchesIndex
<1>7. IndexFile' = index'
  <2>1. CASE IndexWritten
    BY <1>1, <2>1 DEF Save, IndexFile, IInv, IndexMatchesData
  <2>2. CASE ~IndexWritten
    BY <1>1, <2>2 DEF Save, IndexFile, IndexWritten, IInv, IndexMatchesData
  <2> QED BY <2>1, <2>2
<1>8. IndexMatchesData'
  BY <1>1, <1>5, <1>6, <1>7 DEF IInv, IndexMatchesData
<1>9. \A k \in Keys : View(k)' = View(k)
  BY <1>1, <1>5, <1>6 DEF View, NoOverlay
<1>10. KeysAreView'
  BY <1>1, <1>9 DEF KeysAreView, IInv
<1>11. DiscardCanRollBack'
  BY <1>1 DEF DiscardCanRollBack, IInv
<1>12. OverlayMatchesIndex'
  BY <1>1 DEF OverlayMatchesIndex, NoOverlay
<1>13. AbsView' = AbsView
  BY <1>9 DEF AbsView
<1>14. AbsSaved' = AbsView
  BY <1>5, <1>6 DEF AbsSaved, AbsView
<1>15. AbsCommitted' = AbsCommitted
  BY <1>1 DEF AbsCommitted
<1> QED BY <1>4, <1>8, <1>10, <1>11, <1>12, <1>13, <1>14, <1>15 DEF IInv

-----------------------------------------------------------------------------
(* Leaving the transaction.                                                *)

(* Discard, SaveFails and Crash all end without a transaction, on the main *)
(* files, with the committed index and an empty overlay.                   *)
RolledBack ==
    /\ mainIndex' = mainIndex /\ mainData' = mainData
    /\ trIndex' \subseteq Keys /\ trData' \in [Keys -> Cells]
    /\ ptransaction' = FALSE /\ txIndex' = FALSE /\ txFiles' = {}
    /\ index' = mainIndex /\ index_to_rollback' = mainIndex
    /\ keys_with_overlay' = mainIndex
    /\ ecode' = NoOverlay /\ item' = NoItems

LEMMA RollbacksRollBack ==
    ASSUME IInv, Discard \/ SaveFails \/ Crash
    PROVE  RolledBack
<1>1. ASSUME NEW also, NEW indexToo, DropCopies(also, indexToo)
      PROVE  trIndex' \subseteq Keys /\ trData' \in [Keys -> Cells]
  BY <1>1 DEF DropCopies, IInv, TypeOK, Cells
<1>2. CASE Discard
  BY <1>1, <1>2
  DEF Discard, DropCopies, ForgetEdits, RolledBack, IInv, DiscardCanRollBack
<1>3. CASE SaveFails
  BY <1>1, <1>3
  DEF SaveFails, DropCopies, RolledBack, IInv, DiscardCanRollBack
<1>4. CASE Crash
  BY <1>4 DEF Crash, Construct, disk, RolledBack, IInv, TypeOK
<1> QED BY <1>2, <1>3, <1>4

LEMMA RollbackStep ==
    ASSUME IInv, RolledBack
    PROVE  /\ IInv'
           /\ AbsView' = AbsCommitted
           /\ AbsSaved' = AbsCommitted
           /\ AbsCommitted' = AbsCommitted
<1>1. /\ \A k \in Keys : Stored(k)' = mainData[k]
      /\ IndexFile' = mainIndex
  BY DEF RolledBack, Stored, IndexFile
<1>2. \A k \in Keys : View(k)' = IF k \in mainIndex THEN mainData[k]
                                                   ELSE NoValue
  BY <1>1 DEF RolledBack, View, NoOverlay
<1>3. TypeOK'
  BY DEF IInv, TypeOK, RolledBack, NoOverlay, NoItems, ECodes, Cells
<1>4. KeysAreView'
  BY <1>2 DEF KeysAreView, RolledBack, IInv, TypeOK, IndexMatchesData
<1>5. IndexMatchesData'
  BY <1>1 DEF IndexMatchesData, RolledBack, IInv
<1>6. DiscardCanRollBack' /\ OverlayMatchesIndex'
  BY DEF DiscardCanRollBack, OverlayMatchesIndex, RolledBack, NoOverlay
<1>7. AbsView' = AbsCommitted /\ AbsCommitted' = AbsCommitted
  BY <1>2 DEF AbsView, AbsCommitted, RolledBack
<1>8. AbsSaved' = AbsCommitted
  BY <1>1 DEF AbsSaved, AbsCommitted, RolledBack
<1> QED BY <1>3, <1>4, <1>5, <1>6, <1>7, <1>8 DEF IInv

(* After the files are committed the main files are what was stored.       *)
LEMMA CommitFilesFrame ==
    ASSUME IInv, CommitFiles
    PROVE  /\ \A k \in Keys : Stored(k)' = Stored(k) /\ mainData'[k] = Stored(k)
           /\ IndexFile' = index /\ mainIndex' = index
           /\ mainData' \in [Keys -> Cells] /\ mainIndex' \subseteq Keys
           /\ trData' \in [Keys -> Cells] /\ trIndex' \subseteq Keys
           /\ ptransaction' = FALSE /\ txIndex' = FALSE /\ txFiles' = {}
           /\ AbsCommitted' = AbsSaved
<1>1. /\ \A k \in Keys : Stored(k)' = Stored(k) /\ mainData'[k] = Stored(k)
      /\ IndexFile' = index /\ mainIndex' = index
      /\ ptransaction' = FALSE /\ txIndex' = FALSE /\ txFiles' = {}
  BY DEF CommitFiles, Stored, IndexFile, IInv, IndexMatchesData
<1>2. \A k \in Keys : Stored(k) \in Cells
  BY DEF Stored, IInv, TypeOK
<1>3. mainData' \in [Keys -> Cells] /\ mainIndex' \subseteq Keys
  BY <1>1, <1>2 DEF CommitFiles, IInv, TypeOK
<1>4. trData' \in [Keys -> Cells] /\ trIndex' \subseteq Keys
  BY DEF CommitFiles, IInv, TypeOK, Cells
<1>5. AbsCommitted' = AbsSaved
  BY <1>1 DEF AbsCommitted, AbsSaved
<1> QED BY <1>1, <1>3, <1>4, <1>5

LEMMA CommitStep ==
    ASSUME IInv, Commit
    PROVE  /\ IInv'
           /\ AbsView' = AbsView
           /\ AbsSaved' = AbsSaved
           /\ AbsCommitted' = AbsSaved
<1>1. /\ CommitFiles
      /\ index' = index /\ index_to_rollback' = index
      /\ keys_with_overlay' = keys_with_overlay
      /\ ecode' = ecode /\ item' = item
  BY DEF Commit
<1>2. \A k \in Keys : View(k)' = View(k)
  BY <1>1, CommitFilesFrame DEF View
<1>3. TypeOK'
  BY <1>1, CommitFilesFrame DEF IInv, TypeOK
<1>4. KeysAreView'
  BY <1>1, <1>2 DEF IInv, KeysAreView
<1>5. IndexMatchesData'
  BY <1>1, CommitFilesFrame DEF IInv, IndexMatchesData
<1>6. DiscardCanRollBack'
  BY <1>1, CommitFilesFrame DEF DiscardCanRollBack
<1>7. OverlayMatchesIndex'
  BY <1>1, CommitFilesFrame DEF IInv, OverlayMatchesIndex, IndexMatchesData
<1>8. AbsView' = AbsView /\ AbsSaved' = AbsSaved
  BY <1>1, <1>2, CommitFilesFrame DEF AbsView, AbsSaved
<1> QED
  BY <1>1, <1>3, <1>4, <1>5, <1>6, <1>7, <1>8, CommitFilesFrame DEF IInv

LEMMA ReopenStep ==
    ASSUME IInv, Reopen
    PROVE  /\ IInv'
           /\ AbsView' = AbsSaved
           /\ AbsSaved' = AbsSaved
           /\ AbsCommitted' = AbsSaved
<1>1. /\ CommitFiles
      /\ index' = index /\ index_to_rollback' = index
      /\ keys_with_overlay' = index
      /\ ecode' = NoOverlay /\ item' = NoItems
  BY DEF Reopen, Construct, IInv, IndexMatchesData
<1>2. \A k \in Keys : View(k)' = IF k \in index THEN Stored(k) ELSE NoValue
  BY <1>1, CommitFilesFrame DEF View, NoOverlay
<1>3. TypeOK'
  BY <1>1, CommitFilesFrame
  DEF IInv, TypeOK, NoOverlay, NoItems, ECodes, Cells
<1>4. KeysAreView'
  BY <1>1, <1>2 DEF IInv, TypeOK, KeysAreView, IndexMatchesData
<1>5. IndexMatchesData'
  BY <1>1, CommitFilesFrame DEF IInv, IndexMatchesData
<1>6. DiscardCanRollBack'
  BY <1>1, CommitFilesFrame DEF DiscardCanRollBack
<1>7. OverlayMatchesIndex'
  BY <1>1 DEF OverlayMatchesIndex, NoOverlay
<1>8. AbsView' = AbsSaved /\ AbsSaved' = AbsSaved
  BY <1>1, <1>2, CommitFilesFrame DEF AbsView, AbsSaved
<1> QED
  BY <1>1, <1>3, <1>4, <1>5, <1>6, <1>7, <1>8, CommitFilesFrame DEF IInv

-----------------------------------------------------------------------------
LEMMA StutterIInv ==
    ASSUME IInv, UNCHANGED vars
    PROVE  IInv'
BY DEF vars, IInv, TypeOK, KeysAreView, IndexMatchesData, DiscardCanRollBack,
       OverlayMatchesIndex, View, Stored, IndexFile

LEMMA NextIInv == IInv /\ [Next]_vars => IInv'
<1> SUFFICES ASSUME IInv, [Next]_vars PROVE IInv'
  OBVIOUS
<1>1. ASSUME NEW k \in Keys, AtConst(k) \/ Erase(k) PROVE IInv'
  BY <1>1, AtConstStep, EraseStep
<1>2. ASSUME NEW k \in Keys, NEW v \in Values, At(k, v) \/ Insert(k, v)
      PROVE  IInv'
  BY <1>2, WriteStep
<1>3. CASE Clear BY <1>3, ClearStep
<1>4. CASE Save BY <1>4, SaveStep
<1>5. CASE SaveFails \/ Discard \/ Crash
  BY <1>5, RollbacksRollBack, RollbackStep
<1>6. CASE Commit BY <1>6, CommitStep
<1>7. CASE Reopen BY <1>7, ReopenStep
<1>8. CASE UNCHANGED vars BY <1>8, StutterIInv
<1> QED BY <1>1, <1>2, <1>3, <1>4, <1>5, <1>6, <1>7, <1>8 DEF Next

(* The inductive invariant holds in every reachable state.                 *)
THEOREM Invariance == Spec => []IInv
BY InitIInv, NextIInv, PTL DEF Spec

(* keys() and contains() agree with at(), in every state, and save()'s and *)
(* discard()'s own assertions hold.                                        *)
THEOREM MapSafety ==
    Spec => [](TypeOK /\ KeysAreView /\ IndexMatchesData
                 /\ DiscardCanRollBack /\ OverlayMatchesIndex)
BY Invariance, PTL DEF IInv

-----------------------------------------------------------------------------
(* Refinement.                                                             *)

LEMMA InitAbs == Init => Abs!Init
BY DEF Init, Abs!Init, Abs!EmptyMap, AbsView, AbsSaved, AbsCommitted, View,
       Stored, NoOverlay, NoItems

LEMMA ViewPresent ==
    ASSUME IInv, NEW k \in Keys
    PROVE  AbsView[k] # NoValue <=>
               /\ ecode[k] # "deleted"
               /\ ecode[k] = "absent" => k \in index
BY DEF AbsView, View, IInv, TypeOK, ECodes, IndexMatchesData,
       OverlayMatchesIndex

LEMMA NextAbs == IInv /\ [Next]_vars => [Abs!Next]_(Abs!vars)
<1> SUFFICES ASSUME IInv, [Next]_vars PROVE [Abs!Next]_(Abs!vars)
  OBVIOUS
<1>1. ASSUME NEW k \in Keys, AtConst(k) PROVE UNCHANGED Abs!vars
  <2>1. OverlayOnly BY <1>1 DEF AtConst, OverlayOnly
  <2> QED BY <1>1, <2>1, AtConstStep, OverlayOnlyFrame DEF Abs!vars
<1>2. ASSUME NEW k \in Keys, NEW v \in Values, At(k, v)
      PROVE  Abs!Assign(k, v)
  <2>1. OverlayOnly BY <1>2 DEF At, OverlayOnly
  <2>2. AbsView[k] # NoValue BY <1>2, ViewPresent DEF At
  <2> QED BY <1>2, <2>1, <2>2, WriteStep, OverlayOnlyFrame DEF Abs!Assign
<1>3. ASSUME NEW k \in Keys, NEW v \in Values, Insert(k, v)
      PROVE  Abs!Insert(k, v)
  <2>1. OverlayOnly BY <1>3 DEF Insert, OverlayOnly
  <2>2. AbsView[k] = NoValue BY <1>3, ViewPresent DEF Insert
  <2> QED BY <1>3, <2>1, <2>2, WriteStep, OverlayOnlyFrame DEF Abs!Insert
<1>4. ASSUME NEW k \in Keys, Erase(k) PROVE Abs!Erase(k)
  <2>1. OverlayOnly BY <1>4 DEF Erase, OverlayOnly
  <2>2. AbsView[k] # NoValue BY <1>4, ViewPresent DEF Erase
  <2> QED BY <1>4, <2>1, <2>2, EraseStep, OverlayOnlyFrame DEF Abs!Erase
<1>5. CASE Clear
  <2>1. OverlayOnly BY <1>5 DEF Clear, OverlayOnly
  <2> QED BY <1>5, <2>1, ClearStep, OverlayOnlyFrame
          DEF Abs!Next, Abs!Clear, Abs!EmptyMap
<1>6. CASE Save
  BY <1>6, SaveStep DEF Abs!Next, Abs!Save
<1>7. CASE SaveFails \/ Discard \/ Crash
  BY <1>7, RollbacksRollBack, RollbackStep DEF Abs!Next, Abs!Rollback
<1>8. CASE Commit
  BY <1>8, CommitStep DEF Abs!Next, Abs!Commit
<1>9. CASE Reopen
  BY <1>9, ReopenStep DEF Abs!Next, Abs!Reopen
<1>10. CASE UNCHANGED vars
  BY <1>10 DEF vars, Abs!vars, AbsView, AbsSaved, AbsCommitted, View, Stored
<1> QED
  BY <1>1, <1>2, <1>3, <1>4, <1>5, <1>6, <1>7, <1>8, <1>9, <1>10
  DEF Next, Abs!Next

(* For every set of keys, values and files, map_loader is a transactional  *)
(* map: whatever calls, failing saves and crashes outside commit() happen, *)
(* the owner sees, saves and commits exactly what TxMap says.              *)
THEOREM Refinement == Spec => ImplementsTxMap
<1>1. Init => Abs!Init BY InitAbs
<1>2. IInv /\ [Next]_vars => [Abs!Next]_(Abs!vars) BY NextAbs
<1> QED
  BY <1>1, <1>2, Invariance, PTL DEF Spec, ImplementsTxMap, Abs!Spec
=============================================================================
