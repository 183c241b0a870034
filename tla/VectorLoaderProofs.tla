-------------------------- MODULE VectorLoaderProofs --------------------------
(***************************************************************************)
(* Proofs about VectorLoader, for any bound on the size, any values and    *)
(* any distribution of the positions over data files.                      *)
(***************************************************************************)
EXTENDS VectorLoader, FiniteSetTheorems, TLAPS

(* The inductive invariant.  save() erases exactly what is stored, and     *)
(* finds the right size, only because the positions marked deleted are     *)
(* those between the two sizes; these marks are right only while size is   *)
(* what the files store.                                                   *)
IInv ==
    /\ TypeOK
    /\ SizeIsView
    /\ SizeMatchesData
    /\ OverlayMatchesSize
    /\ SavedIsCommitted

LEMMA InitIInv ==
    ASSUME Parameters, Init
    PROVE  IInv
<1>1. TypeOK
  <2>1. 0 \in Sizes BY DEF Parameters, Sizes
  <2>2. /\ NoItems \in [Positions -> Cells]
        /\ NoOverlay \in [Positions -> ECodes]
    BY DEF NoItems, NoOverlay, Cells, ECodes
  <2> QED BY <2>1, <2>2 DEF Init, TypeOK
<1>2. SizeIsView /\ SizeMatchesData /\ OverlayMatchesSize /\ SavedIsCommitted
  BY DEF Parameters, Init, SizeIsView, SizeMatchesData, OverlayMatchesSize,
         SavedIsCommitted, View, Stored, SizeFile, Positions, NoItems,
         NoOverlay
<1> QED BY <1>1, <1>2 DEF IInv

-----------------------------------------------------------------------------
(* What an operation on the overlay leaves alone.                          *)

OverlayOnly == UNCHANGED <<disk, transaction, size>>

LEMMA OverlayOnlyFrame ==
    ASSUME OverlayOnly
    PROVE  /\ SizeFile' = SizeFile
           /\ \A i \in Positions : Stored(i)' = Stored(i)
           /\ SizeMatchesData => SizeMatchesData'
           /\ SavedIsCommitted => SavedIsCommitted'
           /\ AbsSaved' = AbsSaved
           /\ AbsCommitted' = AbsCommitted
<1>1. UNCHANGED <<mainSize, mainData, trSize, trData, ptransaction, txSize,
                  txFiles, size>>
  BY DEF OverlayOnly, disk, transaction
<1>2. SizeFile' = SizeFile
  BY <1>1 DEF SizeFile
<1>3. \A i \in Positions : Stored(i)' = Stored(i)
  BY <1>1 DEF Stored
<1>4. SizeMatchesData => SizeMatchesData'
  BY <1>1, <1>2, <1>3 DEF SizeMatchesData
<1>5. SavedIsCommitted => SavedIsCommitted'
  BY <1>1 DEF SavedIsCommitted
<1>6. AbsSaved' = AbsSaved /\ AbsCommitted' = AbsCommitted
  BY <1>1, <1>3 DEF AbsSaved, AbsCommitted
<1> QED BY <1>2, <1>3, <1>4, <1>5, <1>6

LEMMA StoredType ==
    ASSUME TypeOK, NEW i \in Positions
    PROVE  Stored(i) \in Cells
BY DEF TypeOK, Stored

(* One cell of the overlay changes; TypeOK follows for all such actions.   *)
LEMMA SetOverlayType ==
    ASSUME TypeOK, OverlayOnly, size_with_overlay' \in Sizes,
           NEW i \in Positions, NEW code \in ECodes, NEW v \in Cells,
           SetOverlay(i, code, v)
    PROVE  /\ TypeOK'
           /\ \A q \in Positions :
                  /\ ecode'[q] = IF q = i THEN code ELSE ecode[q]
                  /\ item'[q] = IF q = i THEN v ELSE item[q]
BY DEF TypeOK, OverlayOnly, disk, transaction, SetOverlay

LEMMA AtConstStep ==
    ASSUME Parameters, IInv, NEW i \in Positions, AtConst(i)
    PROVE  IInv' /\ AbsView' = AbsView
<1>1. /\ OverlayOnly /\ size' = size
      /\ size_with_overlay' = size_with_overlay
      /\ ecode[i] = "absent" /\ i < size
  BY DEF AtConst, OverlayOnly
<1>2. /\ TypeOK'
      /\ \A q \in Positions :
             /\ ecode'[q] = IF q = i THEN "none" ELSE ecode[q]
             /\ item'[q] = IF q = i THEN Stored(i) ELSE item[q]
  <2>1. Stored(i) \in Cells BY StoredType DEF IInv
  <2>2. size_with_overlay' \in Sizes BY <1>1 DEF IInv, TypeOK
  <2>3. SetOverlay(i, "none", Stored(i)) BY DEF AtConst
  <2>4. "none" \in ECodes BY DEF ECodes
  <2> QED BY <1>1, <2>1, <2>2, <2>3, <2>4, SetOverlayType DEF IInv
<1>3. \A q \in Positions : View(q)' = View(q)
  BY <1>1, <1>2, OverlayOnlyFrame DEF View
<1>4. SizeIsView'
  BY <1>1, <1>3 DEF SizeIsView, IInv
<1>5. OverlayMatchesSize'
  BY <1>1, <1>2, OverlayOnlyFrame DEF OverlayMatchesSize, IInv
<1>6. AbsView' = AbsView
  BY <1>3 DEF AbsView
<1> QED BY <1>1, <1>2, <1>4, <1>5, <1>6, OverlayOnlyFrame DEF IInv

LEMMA AtStep ==
    ASSUME Parameters, IInv, NEW i \in Positions, NEW v \in Values, At(i, v)
    PROVE  /\ IInv'
           /\ View(i) # NoValue
           /\ AbsView' = [AbsView EXCEPT ![i] = v]
<1>1. /\ OverlayOnly /\ size' = size
      /\ size_with_overlay' = size_with_overlay
      /\ ecode[i] # "deleted" /\ (ecode[i] = "absent" => i < size)
  BY DEF At, OverlayOnly
<1>2. /\ TypeOK'
      /\ \A q \in Positions :
             /\ ecode'[q] = IF q = i THEN "modified" ELSE ecode[q]
             /\ item'[q] = IF q = i THEN v ELSE item[q]
  <2>1. v \in Cells /\ "modified" \in ECodes BY DEF Cells, ECodes
  <2>2. size_with_overlay' \in Sizes BY <1>1 DEF IInv, TypeOK
  <2>3. SetOverlay(i, "modified", v) BY DEF At
  <2> QED BY <1>1, <2>1, <2>2, <2>3, SetOverlayType DEF IInv
<1>3. \A q \in Positions : View(q)' = IF q = i THEN v ELSE View(q)
  BY <1>1, <1>2, OverlayOnlyFrame DEF View
<1>4. View(i) # NoValue
  BY <1>1 DEF View, IInv, TypeOK, ECodes, OverlayMatchesSize, SizeMatchesData
<1>5. i < size_with_overlay
  BY <1>4 DEF IInv, SizeIsView
<1>6. v # NoValue
  BY DEF Parameters
<1>7. SizeIsView'
  BY <1>1, <1>3, <1>4, <1>6 DEF SizeIsView, IInv
<1>8. OverlayMatchesSize'
  BY <1>1, <1>2, <1>5, <1>6, OverlayOnlyFrame DEF OverlayMatchesSize, IInv
<1>9. AbsView' = [AbsView EXCEPT ![i] = v]
  BY <1>3 DEF AbsView
<1> QED
  BY <1>1, <1>2, <1>4, <1>7, <1>8, <1>9, OverlayOnlyFrame DEF IInv

LEMMA PushBackStep ==
    ASSUME Parameters, IInv, NEW v \in Values, PushBack(v)
    PROVE  /\ IInv'
           /\ size_with_overlay \in Positions
           /\ AbsView' = [AbsView EXCEPT ![size_with_overlay] = v]
<1> DEFINE i == size_with_overlay
<1>1. /\ OverlayOnly /\ size' = size
      /\ size_with_overlay' = i + 1 /\ i < MaxSize
  BY DEF PushBack, OverlayOnly
<1>2. i \in Positions /\ i + 1 \in Sizes /\ size \in Nat
  BY <1>1 DEF IInv, TypeOK, Sizes, Positions, Parameters
<1>3. /\ TypeOK'
      /\ \A q \in Positions :
             /\ ecode'[q] = IF q = i THEN "modified" ELSE ecode[q]
             /\ item'[q] = IF q = i THEN v ELSE item[q]
  <2>1. v \in Cells /\ "modified" \in ECodes BY DEF Cells, ECodes
  <2>2. SetOverlay(i, "modified", v) BY DEF PushBack
  <2> QED BY <1>1, <1>2, <2>1, <2>2, SetOverlayType DEF IInv
<1>4. \A q \in Positions : View(q)' = IF q = i THEN v ELSE View(q)
  BY <1>1, <1>3, OverlayOnlyFrame DEF View
<1>5. v # NoValue
  BY DEF Parameters
<1>6. Positions \subseteq Nat
  BY DEF Positions, Parameters
<1>7. SizeIsView'
  BY <1>1, <1>2, <1>4, <1>5, <1>6 DEF SizeIsView, IInv
<1>8. OverlayMatchesSize'
  BY <1>1, <1>2, <1>3, <1>5, <1>6, OverlayOnlyFrame
  DEF OverlayMatchesSize, IInv
<1>9. AbsView' = [AbsView EXCEPT ![i] = v]
  BY <1>4 DEF AbsView
<1> QED
  BY <1>1, <1>2, <1>3, <1>7, <1>8, <1>9, OverlayOnlyFrame DEF IInv

(* The last position is stored, read or not, or is only in the overlay.    *)
LEMMA PopBackStep ==
    ASSUME Parameters, IInv, PopBack
    PROVE  /\ IInv'
           /\ size_with_overlay - 1 \in Positions
           /\ AbsView' = [AbsView EXCEPT ![size_with_overlay - 1] = NoValue]
<1> DEFINE last == size_with_overlay - 1
           code == IF ecode[last] # "absent" /\ size <= last
                   THEN "absent" ELSE "deleted"
<1>1. /\ OverlayOnly /\ size' = size
      /\ size_with_overlay' = last /\ size_with_overlay > 0
      /\ SetOverlay(last, code, NoValue)
  BY DEF PopBack, OverlayOnly
<1>2. /\ last \in Positions /\ last \in Sizes /\ size \in Nat
      /\ size_with_overlay = last + 1 /\ Positions \subseteq Nat
  BY <1>1 DEF IInv, TypeOK, Sizes, Positions, Parameters
<1>3. /\ TypeOK'
      /\ \A q \in Positions :
             /\ ecode'[q] = IF q = last THEN code ELSE ecode[q]
             /\ item'[q] = IF q = last THEN NoValue ELSE item[q]
  <2>1. NoValue \in Cells /\ code \in ECodes BY DEF Cells, ECodes
  <2> QED BY <1>1, <1>2, <2>1, SetOverlayType DEF IInv
<1>4. code = IF last < size THEN "deleted" ELSE "absent"
  BY <1>1, <1>2 DEF IInv, OverlayMatchesSize
<1> HIDE DEF code
<1>5. \A q \in Positions : View(q)' = IF q = last THEN NoValue ELSE View(q)
  BY <1>1, <1>2, <1>3, <1>4, OverlayOnlyFrame DEF View
<1>6. SizeIsView'
  BY <1>1, <1>2, <1>5 DEF SizeIsView, IInv
<1>7. OverlayMatchesSize'
  BY <1>1, <1>2, <1>3, <1>4, OverlayOnlyFrame DEF OverlayMatchesSize, IInv
<1>8. AbsView' = [AbsView EXCEPT ![last] = NoValue]
  BY <1>5 DEF AbsView
<1> QED
  BY <1>1, <1>2, <1>3, <1>6, <1>7, <1>8, OverlayOnlyFrame DEF IInv

LEMMA ClearStep ==
    ASSUME Parameters, IInv, Clear
    PROVE  /\ IInv'
           /\ AbsView' = [i \in Positions |-> NoValue]
<1>1. /\ OverlayOnly /\ size' = size
      /\ size_with_overlay' = 0
      /\ ecode' = [i \in Positions |-> IF i < size THEN "deleted"
                                                   ELSE "absent"]
      /\ item' = NoItems
  BY DEF Clear, OverlayOnly
<1>2. Positions \subseteq Nat /\ 0 \in Sizes
  BY DEF Positions, Sizes, Parameters
<1>3. TypeOK'
  <2>1. item' \in [Positions -> Cells] BY <1>1 DEF NoItems, Cells
  <2>2. ecode' \in [Positions -> ECodes] BY <1>1 DEF ECodes
  <2> QED
    BY <1>1, <1>2, <2>1, <2>2
    DEF IInv, TypeOK, OverlayOnly, disk, transaction
<1>4. \A i \in Positions : View(i)' = NoValue
  BY <1>1, OverlayOnlyFrame DEF View
<1>5. SizeIsView'
  BY <1>1, <1>2, <1>4 DEF SizeIsView
<1>6. OverlayMatchesSize'
  BY <1>1, <1>2 DEF OverlayMatchesSize, IInv, TypeOK, Sizes, Parameters
<1>7. AbsView' = [i \in Positions |-> NoValue]
  BY <1>4 DEF AbsView
<1> QED BY <1>1, <1>3, <1>5, <1>6, <1>7, OverlayOnlyFrame DEF IInv

-----------------------------------------------------------------------------
(* save().                                                                 *)

(* What is erased is stored, so that equal numbers mean equal sets.        *)
LEMMA ErasedFromExact ==
    ASSUME Parameters, IInv, NEW f
    PROVE  ErasedFrom(f, WithCode("deleted")) =
               {i \in WithCode("deleted") : filename(i) = f}
<1> DEFINE requested == {i \in WithCode("deleted") : filename(i) = f}
<1>1. requested \subseteq StoredIn(f)
  BY DEF IInv, SizeMatchesData, OverlayMatchesSize, WithCode, StoredIn
<1>2. IsFiniteSet(StoredIn(f))
  <2>1. IsFiniteSet(Positions)
    BY FS_Interval DEF Positions, Parameters
  <2>2. StoredIn(f) \in SUBSET Positions BY DEF StoredIn
  <2> QED BY <2>1, <2>2, FS_Subset
<1>3. Cardinality(StoredIn(f)) = Cardinality(requested)
          => StoredIn(f) = requested
  BY <1>1, <1>2, FS_Subset
<1> QED BY <1>3 DEF ErasedFrom

LEMMA DataAfterSaveIsView ==
    ASSUME Parameters, IInv, NEW i \in Positions
    PROVE  DataAfterSave(i) = View(i)
<1>1. i \in ErasedFrom(filename(i), WithCode("deleted")) <=>
          ecode[i] = "deleted"
  BY ErasedFromExact DEF WithCode
<1>2. ecode[i] \in ECodes
  BY DEF IInv, TypeOK
<1>3. ecode[i] # "deleted" /\ ~(i < size) => ecode[i] # "none"
  BY DEF IInv, OverlayMatchesSize
<1>4. ~(i < size) => Stored(i) = NoValue
  BY DEF IInv, SizeMatchesData
<1> QED
  BY <1>1, <1>2, <1>3, <1>4
  DEF DataAfterSave, View, ECodes, IInv, OverlayMatchesSize

(* The marks lead back to the size the owner sees.                         *)
LEMMA SizeSavedIsView ==
    ASSUME Parameters, IInv
    PROVE  SizeSaved = size_with_overlay
<1> DEFINE seen == size_with_overlay
           erased == {size} \cup WithCode("deleted")
           least == IF seen < size THEN seen ELSE size
           entered == {least} \cup {i + 1 : i \in WithCode("modified")}
<1>1. size \in 0..MaxSize /\ seen \in 0..MaxSize
  BY DEF IInv, TypeOK, Sizes
<1>2. \A i \in Positions : ecode[i] = "deleted" <=> seen <= i /\ i < size
  BY DEF IInv, OverlayMatchesSize
<1>3. \A i \in Positions : ecode[i] = "modified" => i < seen
  BY DEF IInv, OverlayMatchesSize
<1>4. \A i \in Positions : size <= i /\ i < seen => ecode[i] = "modified"
  BY DEF IInv, OverlayMatchesSize
<1>5. SizeErased = least
  <2>1. least \in erased /\ \A x \in erased : least <= x
    BY <1>1, <1>2 DEF WithCode, Positions, Parameters
  <2>2. \A x \in erased : (\A y \in erased : x <= y) => x = least
    BY <1>1, <2>1 DEF WithCode, Positions, Parameters
  <2> HIDE DEF erased, least
  <2>3. Min(erased) = least
    BY <2>1, <2>2 DEF Min
  <2> QED BY <2>3 DEF SizeErased, erased
<1>6. SizeSaved = seen
  <2>1. seen \in entered
    <3>1. CASE seen <= size
      BY <1>1, <3>1
    <3>2. CASE size < seen
      <4>1. seen - 1 \in WithCode("modified")
        BY <1>1, <1>4, <3>2 DEF WithCode, Positions, Parameters
      <4>2. seen = (seen - 1) + 1
        BY <1>1
      <4> QED BY <4>1, <4>2
    <3> QED BY <1>1, <3>1, <3>2
  <2>2. \A x \in entered : x <= seen /\ x \in Nat
    BY <1>1, <1>3 DEF WithCode, Positions, Parameters
  <2>3. \A x \in entered : (\A y \in entered : y <= x) => x = seen
    BY <1>1, <2>1, <2>2
  <2> HIDE DEF entered
  <2>4. Max(entered) = seen
    BY <1>1, <2>1, <2>2, <2>3 DEF Max
  <2> QED BY <1>5, <2>4 DEF SizeSaved, entered
<1> QED BY <1>6

LEMMA SaveStep ==
    ASSUME Parameters, IInv, Save
    PROVE  /\ IInv'
           /\ AbsView' = AbsView
           /\ AbsSaved' = AbsView
           /\ AbsCommitted' = AbsCommitted
<1>1. /\ mainSize' = mainSize /\ mainData' = mainData
      /\ size_with_overlay' = size_with_overlay
      /\ ptransaction' = TRUE
      /\ txFiles' = txFiles \cup TouchedFiles
      /\ size' = size_with_overlay
      /\ txSize' = TRUE /\ trSize' = size_with_overlay
      /\ ecode' = NoOverlay /\ item' = NoItems
  BY SizeSavedIsView DEF Save
<1>2. \A i \in Positions : View(i) \in Cells
  BY StoredType DEF View, IInv, TypeOK, Cells
<1>3. trData' = [i \in Positions |->
                    IF filename(i) \in txFiles \cup TouchedFiles
                    THEN View(i) ELSE trData[i]]
  BY DataAfterSaveIsView DEF Save
<1>4. TypeOK'
  <2>1. TouchedFiles \subseteq FilesOf(Positions)
    BY DEF TouchedFiles, FilesOf, WithCode
  <2>2. trData' \in [Positions -> Cells]
    BY <1>2, <1>3 DEF IInv, TypeOK
  <2>3. /\ NoItems \in [Positions -> Cells]
        /\ NoOverlay \in [Positions -> ECodes]
    BY DEF NoItems, NoOverlay, Cells, ECodes
  <2> QED BY <1>1, <2>1, <2>2, <2>3 DEF IInv, TypeOK
<1>5. \A i \in Positions : Stored(i)' = View(i)
  <2> SUFFICES ASSUME NEW i \in Positions PROVE Stored(i)' = View(i)
    OBVIOUS
  <2>1. CASE filename(i) \in txFiles \cup TouchedFiles
    BY <1>1, <1>3, <2>1 DEF Stored
  <2>2. CASE filename(i) \notin txFiles \cup TouchedFiles
    <3>1. Stored(i)' = Stored(i)
      BY <1>1, <2>2 DEF Stored
    <3>2. ecode[i] \in {"absent", "none"}
      BY <2>2 DEF TouchedFiles, FilesOf, WithCode, IInv, TypeOK, ECodes
    <3>3. View(i) = Stored(i)
      BY <3>2 DEF View, IInv, SizeMatchesData, OverlayMatchesSize
    <3> QED BY <3>1, <3>3
  <2> QED BY <2>1, <2>2
<1>6. SizeMatchesData'
  BY <1>1, <1>5 DEF SizeMatchesData, SizeFile, IInv, SizeIsView
<1>7. \A i \in Positions : View(i)' = View(i)
  BY <1>1, <1>5 DEF View, NoOverlay, IInv, SizeIsView
<1>8. SizeIsView'
  BY <1>1, <1>7 DEF SizeIsView, IInv
<1>9. OverlayMatchesSize'
  BY <1>1 DEF OverlayMatchesSize, NoOverlay, IInv, TypeOK, Sizes, Positions,
              Parameters
<1>10. SavedIsCommitted'
  BY <1>1 DEF SavedIsCommitted
<1>11. AbsView' = AbsView
  BY <1>7 DEF AbsView
<1>12. AbsSaved' = AbsView
  BY <1>1, <1>5 DEF AbsSaved, AbsView, IInv, SizeIsView
<1>13. AbsCommitted' = AbsCommitted
  BY <1>1 DEF AbsCommitted
<1> QED
  BY <1>4, <1>6, <1>8, <1>9, <1>10, <1>11, <1>12, <1>13 DEF IInv

-----------------------------------------------------------------------------
(* Leaving the transaction.                                                *)

(* Any way out of a transaction leaves the overlay empty, both sizes equal *)
(* to the committed one, and nothing of the transaction but leftovers.     *)
OutOfTransaction ==
    /\ trSize' \in Sizes /\ trData' \in [Positions -> Cells]
    /\ ptransaction' = FALSE /\ txSize' = FALSE /\ txFiles' = {}
    /\ size' = mainSize' /\ size_with_overlay' = mainSize'
    /\ ecode' = NoOverlay /\ item' = NoItems

LEMMA OutOfTransactionStep ==
    ASSUME Parameters, OutOfTransaction,
           mainSize' \in Sizes, mainData' \in [Positions -> Cells],
           \A i \in Positions : mainData'[i] # NoValue <=> i < mainSize'
    PROVE  /\ IInv'
           /\ AbsView' = AbsCommitted'
           /\ AbsSaved' = AbsCommitted'
<1>1. \A i \in Positions : Stored(i)' = mainData'[i]
  BY DEF OutOfTransaction, Stored
<1>2. \A i \in Positions : View(i)' = IF i < mainSize' THEN mainData'[i]
                                                       ELSE NoValue
  BY <1>1 DEF OutOfTransaction, View, NoOverlay
<1>3. TypeOK'
  <2>1. /\ NoItems \in [Positions -> Cells]
        /\ NoOverlay \in [Positions -> ECodes]
    BY DEF NoItems, NoOverlay, Cells, ECodes
  <2> QED BY <2>1 DEF OutOfTransaction, TypeOK
<1>4. SizeIsView'
  BY <1>2 DEF SizeIsView, OutOfTransaction
<1>5. SizeMatchesData'
  BY <1>1 DEF SizeMatchesData, SizeFile, OutOfTransaction
<1>6. OverlayMatchesSize' /\ SavedIsCommitted'
  BY DEF OverlayMatchesSize, SavedIsCommitted, OutOfTransaction, NoOverlay,
         Sizes, Positions, Parameters
<1>7. AbsView' = AbsCommitted' /\ AbsSaved' = AbsCommitted'
  BY <1>1, <1>2 DEF AbsView, AbsSaved, AbsCommitted, OutOfTransaction
<1> QED BY <1>3, <1>4, <1>5, <1>6, <1>7 DEF IInv

LEMMA RollbackStep ==
    ASSUME Parameters, IInv, Discard \/ SaveFails \/ Crash
    PROVE  /\ IInv'
           /\ AbsView' = AbsCommitted
           /\ AbsSaved' = AbsCommitted
           /\ AbsCommitted' = AbsCommitted
<1>1. ASSUME NEW also, DropCopies(also)
      PROVE  /\ trSize' \in Sizes /\ trData' \in [Positions -> Cells]
             /\ ptransaction' = FALSE /\ txSize' = FALSE /\ txFiles' = {}
             /\ mainSize' = mainSize /\ mainData' = mainData
  <2>1. 0 \in Sizes BY DEF Sizes, Parameters
  <2> QED BY <1>1, <2>1 DEF DropCopies, IInv, TypeOK, Cells
<1>2. OutOfTransaction /\ mainSize' = mainSize /\ mainData' = mainData
  <2>1. CASE Discard
    BY <1>1, <2>1 DEF Discard, Load, OutOfTransaction
  <2>2. CASE SaveFails
    BY <1>1, <2>2 DEF SaveFails, Load, OutOfTransaction
  <2>3. CASE Crash
    BY <2>3 DEF Crash, Load, disk, OutOfTransaction, IInv, TypeOK
  <2> QED BY <2>1, <2>2, <2>3
<1>3. AbsCommitted' = AbsCommitted
  BY <1>2 DEF AbsCommitted
<1> QED
  BY <1>2, <1>3, OutOfTransactionStep DEF IInv, TypeOK, SizeMatchesData

(* After the files are committed the main files are what was stored.       *)
LEMMA CommitFilesFrame ==
    ASSUME Parameters, IInv, CommitFiles
    PROVE  /\ \A i \in Positions :
                  Stored(i)' = Stored(i) /\ mainData'[i] = Stored(i)
           /\ SizeFile' = size /\ mainSize' = size
           /\ mainData' \in [Positions -> Cells]
           /\ trData' \in [Positions -> Cells] /\ trSize' \in Sizes
           /\ ptransaction' = FALSE /\ txSize' = FALSE /\ txFiles' = {}
           /\ AbsCommitted' = AbsSaved
<1>1. /\ \A i \in Positions :
             Stored(i)' = Stored(i) /\ mainData'[i] = Stored(i)
      /\ SizeFile' = size /\ mainSize' = size
      /\ ptransaction' = FALSE /\ txSize' = FALSE /\ txFiles' = {}
  BY DEF CommitFiles, Stored, SizeFile, IInv, SizeMatchesData
<1>2. mainData' \in [Positions -> Cells]
  BY StoredType DEF CommitFiles, IInv
<1>3. trData' \in [Positions -> Cells] /\ trSize' \in Sizes
  <2>1. 0 \in Sizes BY DEF Sizes, Parameters
  <2> QED BY <2>1 DEF CommitFiles, IInv, TypeOK, Cells
<1>4. AbsCommitted' = AbsSaved
  BY <1>1 DEF AbsCommitted, AbsSaved
<1> QED BY <1>1, <1>2, <1>3, <1>4

LEMMA CommitStep ==
    ASSUME Parameters, IInv, Commit
    PROVE  /\ IInv'
           /\ AbsView' = AbsView
           /\ AbsSaved' = AbsSaved
           /\ AbsCommitted' = AbsSaved
<1>1. /\ CommitFiles /\ size' = size
      /\ size_with_overlay' = size_with_overlay
      /\ ecode' = ecode /\ item' = item
  BY DEF Commit
<1>2. \A i \in Positions : View(i)' = View(i)
  BY <1>1, CommitFilesFrame DEF View
<1>3. TypeOK'
  BY <1>1, CommitFilesFrame DEF IInv, TypeOK
<1>4. SizeIsView'
  BY <1>1, <1>2 DEF IInv, SizeIsView
<1>5. SizeMatchesData'
  BY <1>1, CommitFilesFrame DEF IInv, SizeMatchesData
<1>6. SavedIsCommitted'
  BY <1>1, CommitFilesFrame DEF SavedIsCommitted
<1>7. OverlayMatchesSize'
  BY <1>1, CommitFilesFrame DEF IInv, OverlayMatchesSize
<1>8. AbsView' = AbsView /\ AbsSaved' = AbsSaved
  BY <1>1, <1>2, CommitFilesFrame DEF AbsView, AbsSaved
<1> QED
  BY <1>1, <1>3, <1>4, <1>5, <1>6, <1>7, <1>8, CommitFilesFrame DEF IInv

LEMMA ReopenStep ==
    ASSUME Parameters, IInv, Reopen
    PROVE  /\ IInv'
           /\ AbsView' = AbsSaved
           /\ AbsSaved' = AbsSaved
           /\ AbsCommitted' = AbsSaved
<1>1. /\ CommitFiles
      /\ size' = size /\ size_with_overlay' = size
      /\ ecode' = NoOverlay /\ item' = NoItems
  BY DEF Reopen, Load, IInv, SizeMatchesData
<1>2. OutOfTransaction
  BY <1>1, CommitFilesFrame DEF OutOfTransaction
<1>3. \A i \in Positions : mainData'[i] # NoValue <=> i < mainSize'
  BY <1>1, CommitFilesFrame DEF IInv, SizeMatchesData
<1>4. mainSize' \in Sizes
  BY <1>1, CommitFilesFrame DEF IInv, TypeOK
<1> QED
  BY <1>1, <1>2, <1>3, <1>4, CommitFilesFrame, OutOfTransactionStep

-----------------------------------------------------------------------------
LEMMA StutterIInv ==
    ASSUME IInv, UNCHANGED vars
    PROVE  IInv'
BY DEF vars, IInv, TypeOK, SizeIsView, SizeMatchesData, OverlayMatchesSize,
       SavedIsCommitted, View, Stored, SizeFile

LEMMA NextIInv ==
    ASSUME Parameters, IInv, [Next]_vars
    PROVE  IInv'
<1>1. ASSUME NEW i \in Positions, AtConst(i) PROVE IInv'
  BY <1>1, AtConstStep
<1>2. ASSUME NEW i \in Positions, NEW v \in Values, At(i, v) PROVE IInv'
  BY <1>2, AtStep
<1>3. ASSUME NEW v \in Values, PushBack(v) PROVE IInv'
  BY <1>3, PushBackStep
<1>4. CASE PopBack BY <1>4, PopBackStep
<1>5. CASE Clear BY <1>5, ClearStep
<1>6. CASE Save BY <1>6, SaveStep
<1>7. CASE SaveFails \/ Discard \/ Crash BY <1>7, RollbackStep
<1>8. CASE Commit BY <1>8, CommitStep
<1>9. CASE Reopen BY <1>9, ReopenStep
<1>10. CASE UNCHANGED vars BY <1>10, StutterIInv
<1> QED
  BY <1>1, <1>2, <1>3, <1>4, <1>5, <1>6, <1>7, <1>8, <1>9, <1>10 DEF Next

(* The inductive invariant holds in every reachable state.                 *)
THEOREM Invariance ==
    ASSUME Parameters
    PROVE  Spec => []IInv
<1>1. Init => IInv BY InitIInv
<1>2. IInv /\ [Next]_vars => IInv' BY NextIInv
<1> QED BY <1>1, <1>2, PTL DEF Spec

(* For every bound and every distribution over files: size() is where at() *)
(* stops finding items, the size file and the data files agree in every    *)
(* version of the vector, and save() computes the size the owner sees.     *)
THEOREM VectorSafety ==
    ASSUME Parameters
    PROVE  Spec => [](TypeOK /\ SizeIsView /\ SizeMatchesData
                        /\ OverlayMatchesSize /\ SavedIsCommitted)
BY Invariance, PTL DEF IInv

-----------------------------------------------------------------------------
(* Refinement.                                                             *)

LEMMA InitAbs == Init => Abs!Init
BY DEF Init, Abs!Init, Abs!Empty, AbsView, AbsSaved, AbsCommitted, View,
       Stored, NoOverlay, NoItems

LEMMA NextAbs ==
    ASSUME Parameters, IInv, [Next]_vars
    PROVE  [Abs!Next]_(Abs!vars)
<1>1. ASSUME NEW i \in Positions, AtConst(i) PROVE UNCHANGED Abs!vars
  <2>1. OverlayOnly BY <1>1 DEF AtConst, OverlayOnly
  <2> QED BY <1>1, <2>1, AtConstStep, OverlayOnlyFrame DEF Abs!vars
<1>2. ASSUME NEW i \in Positions, NEW v \in Values, At(i, v)
      PROVE  Abs!Assign(i, v)
  <2>1. OverlayOnly BY <1>2 DEF At, OverlayOnly
  <2>2. AbsView[i] # NoValue BY <1>2, AtStep DEF AbsView
  <2> QED BY <1>2, <2>1, <2>2, AtStep, OverlayOnlyFrame DEF Abs!Assign
<1>3. Abs!HasSize(AbsView, size_with_overlay)
  BY DEF IInv, SizeIsView, AbsView, Abs!HasSize
<1>4. ASSUME NEW v \in Values, PushBack(v) PROVE Abs!PushBack(v)
  <2>1. OverlayOnly BY <1>4 DEF PushBack, OverlayOnly
  <2> QED
    BY <1>3, <1>4, <2>1, PushBackStep, OverlayOnlyFrame DEF Abs!PushBack
<1>5. CASE PopBack
  <2>1. OverlayOnly BY <1>5 DEF PopBack, OverlayOnly
  <2>2. size_with_overlay = (size_with_overlay - 1) + 1
    BY DEF IInv, TypeOK, Sizes, Parameters
  <2>3. Abs!PopBack
    BY <1>3, <1>5, <2>1, <2>2, PopBackStep, OverlayOnlyFrame DEF Abs!PopBack
  <2> QED BY <2>3 DEF Abs!Next
<1>6. CASE Clear
  <2>1. OverlayOnly BY <1>6 DEF Clear, OverlayOnly
  <2> QED BY <1>6, <2>1, ClearStep, OverlayOnlyFrame
          DEF Abs!Next, Abs!Clear, Abs!Empty
<1>7. CASE Save
  BY <1>7, SaveStep DEF Abs!Next, Abs!Save
<1>8. CASE SaveFails \/ Discard \/ Crash
  BY <1>8, RollbackStep DEF Abs!Next, Abs!Rollback
<1>9. CASE Commit
  BY <1>9, CommitStep DEF Abs!Next, Abs!Commit
<1>10. CASE Reopen
  BY <1>10, ReopenStep DEF Abs!Next, Abs!Reopen
<1>11. CASE UNCHANGED vars
  BY <1>11 DEF vars, Abs!vars, AbsView, AbsSaved, AbsCommitted, View, Stored
<1> QED
  BY <1>1, <1>2, <1>4, <1>5, <1>6, <1>7, <1>8, <1>9, <1>10, <1>11
  DEF Next, Abs!Next

(* For every bound and every distribution over files, vector_loader is a   *)
(* transactional vector: whatever calls, failing saves and crashes outside *)
(* commit() happen, the owner sees, saves and commits what TxVector says.  *)
THEOREM Refinement ==
    ASSUME Parameters
    PROVE  Spec => ImplementsTxVector
<1>1. Init => Abs!Init BY InitAbs
<1>2. IInv /\ [Next]_vars => [Abs!Next]_(Abs!vars) BY NextAbs
<1> QED
  BY <1>1, <1>2, Invariance, PTL DEF Spec, ImplementsTxVector, Abs!Spec
=============================================================================
