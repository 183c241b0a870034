------------------------------ MODULE MapLoader ------------------------------
(***************************************************************************)
(* map_loader<T> and detail::map_loader_internals (libsystemutility): a    *)
(* string-keyed map kept in one index file and `limit' data files, edited  *)
(* through an in-memory overlay and made durable by save() and commit().   *)
(*                                                                         *)
(* A data file is the set of the keys it stores: trData and mainData give  *)
(* each key the value its file (FileOf[k]) stores, or NoValue.  A file of  *)
(* the transaction is a ".tr" copy; how one file becomes a copy and back   *)
(* is the subject of module BlockFile.                                     *)
(***************************************************************************)
EXTENDS Naturals, FiniteSets

CONSTANTS
    Keys,       \* the keys the owner uses
    Values,     \* the values it stores
    NoValue,    \* no item: the key is not stored
    Files,      \* the data files name.0000, name.0001, ...
    FileOf      \* the data file of a key: hash(key) % limit

ASSUME KeysAssumption == IsFiniteSet(Keys)
ASSUME NoValueAssumption == NoValue \notin Values
ASSUME FileOfAssumption == FileOf \in [Keys -> Files]

VARIABLES
    mainIndex, mainData,    \* the committed index file and data files
    trIndex, trData,        \* their .tr copies, which outlive a crash
    ptransaction,           \* pimpl->ptransaction is not null
    txIndex, txFiles,       \* the files with a transaction of their own
    index,                  \* the in-memory index (its key set)
    index_to_rollback,      \* the index discard() goes back to
    keys_with_overlay,      \* what keys() and contains() answer from
    ecode, item             \* the overlay: the code and packet of each key

disk == <<mainIndex, mainData, trIndex, trData>>
transaction == <<ptransaction, txIndex, txFiles>>
memory == <<index, index_to_rollback, keys_with_overlay, ecode, item>>
vars == <<mainIndex, mainData, trIndex, trData, ptransaction, txIndex,
          txFiles, index, index_to_rollback, keys_with_overlay, ecode, item>>

ECodes == {"absent", "none", "modified", "deleted"}
Cells == Values \cup {NoValue}
NoOverlay == [k \in Keys |-> "absent"]
NoItems == [k \in Keys |-> NoValue]

-----------------------------------------------------------------------------
(* What a block_file_loader opened with the transaction's file reads.      *)

IndexFile == IF txIndex THEN trIndex ELSE mainIndex

Stored(k) == IF FileOf[k] \in txFiles THEN trData[k] ELSE mainData[k]

StoredKeys(f) == {k \in Keys : FileOf[k] = f /\ Stored(k) # NoValue}

WithCode(c) == {k \in Keys : ecode[k] = c}

FilesOf(ks) == {FileOf[k] : k \in ks}

(* What the owner sees of key k.                                           *)
View(k) ==
    IF ecode[k] \in {"none", "modified"} THEN item[k]
    ELSE IF ecode[k] = "absent" /\ k \in index THEN Stored(k)
    ELSE NoValue

TypeOK ==
    /\ mainIndex \subseteq Keys /\ trIndex \subseteq Keys
    /\ mainData \in [Keys -> Cells] /\ trData \in [Keys -> Cells]
    /\ ptransaction \in BOOLEAN /\ txIndex \in BOOLEAN
    /\ txFiles \subseteq Files
    /\ index \subseteq Keys /\ index_to_rollback \subseteq Keys
    /\ keys_with_overlay \subseteq Keys
    /\ ecode \in [Keys -> ECodes]
    /\ item \in [Keys -> Cells]

Init ==
    /\ mainIndex = {} /\ mainData = NoItems
    /\ trIndex = {} /\ trData = NoItems
    /\ ptransaction = FALSE /\ txIndex = FALSE /\ txFiles = {}
    /\ index = {} /\ index_to_rollback = {}
    /\ keys_with_overlay = {}
    /\ ecode = NoOverlay /\ item = NoItems

-----------------------------------------------------------------------------
(* Operations on the overlay.                                              *)

SetOverlay(k, code, v) ==
    /\ ecode' = [ecode EXCEPT ![k] = code]
    /\ item' = [item EXCEPT ![k] = v]

(* T const& at(key): a miss loads the item; a hit changes nothing.         *)
AtConst(k) ==
    /\ ecode[k] = "absent"
    /\ k \in index
    /\ SetOverlay(k, "none", Stored(k))
    /\ UNCHANGED <<disk, transaction, index, index_to_rollback,
                   keys_with_overlay>>

(* T& at(key), and what its caller writes through the reference.           *)
At(k, v) ==
    /\ ecode[k] # "deleted"
    /\ ecode[k] = "absent" => k \in index
    /\ SetOverlay(k, "modified", v)
    /\ UNCHANGED <<disk, transaction, index, index_to_rollback,
                   keys_with_overlay>>

Insert(k, v) ==
    /\ \/ ecode[k] = "absent" /\ k \notin index
       \/ ecode[k] = "deleted"
    /\ SetOverlay(k, "modified", v)
    /\ keys_with_overlay' = keys_with_overlay \cup {k}
    /\ UNCHANGED <<disk, transaction, index, index_to_rollback>>

(* Mutant: what only the overlay has is marked deleted like the rest.      *)
Erase_AlwaysMarks(k) ==
    /\ ecode[k] # "deleted"
    /\ ecode[k] = "absent" => k \in index
    /\ SetOverlay(k, "deleted", NoValue)
    /\ keys_with_overlay' = keys_with_overlay \ {k}
    /\ UNCHANGED <<disk, transaction, index, index_to_rollback>>

(* Erasing what only the overlay has drops the entry, else marks it.       *)
Erase(k) ==
    /\ ecode[k] # "deleted"
    /\ ecode[k] = "absent" => k \in index
    /\ SetOverlay(k, IF k \in index THEN "deleted" ELSE "absent", NoValue)
    /\ keys_with_overlay' = keys_with_overlay \ {k}
    /\ UNCHANGED <<disk, transaction, index, index_to_rollback>>

Clear ==
    /\ ecode' = [k \in Keys |-> IF k \in index THEN "deleted" ELSE "absent"]
    /\ item' = NoItems
    /\ keys_with_overlay' = {}
    /\ UNCHANGED <<disk, transaction, index, index_to_rollback>>

-----------------------------------------------------------------------------
(* save(): first the erased keys leave the index file, the index and their *)
(* data files, then the modified keys enter them; the overlay is emptied.  *)

(* block_file_loader::erase() on file f.  purpose_clear_all: when as many  *)
(* keys are erased as the file has markers, all markers are dropped.       *)
ErasedFrom(f, ks) ==
    LET requested == {k \in ks : FileOf[k] = f} IN
    IF Cardinality(requested) = Cardinality(StoredKeys(f))
    THEN StoredKeys(f)
    ELSE requested

(* Mutant: only new keys are written, not those that were changed.         *)
DataAfterSave_OnlyNew(k) ==
    IF ecode[k] = "modified" /\ k \notin index THEN item[k]
    ELSE IF k \in ErasedFrom(FileOf[k], WithCode("deleted")) THEN NoValue
    ELSE Stored(k)

(* What key k's file stores after both groups were written.                *)
DataAfterSave(k) ==
    IF ecode[k] = "modified" THEN item[k]
    ELSE IF k \in ErasedFrom(FileOf[k], WithCode("deleted")) THEN NoValue
    ELSE Stored(k)

(* Mutant: a transaction per key instead of one per file name.             *)
TouchedFiles_PerKey == WithCode("deleted") \cup WithCode("modified")

TouchedFiles == FilesOf(WithCode("deleted") \cup WithCode("modified"))

(* Mutant: erasing does not write the index file.                          *)
IndexWritten_OnlyNew == ~ (WithCode("modified") \subseteq IndexFile)

(* The index file is written by the erase group if there is one and by the *)
(* modified group only if one of its keys is new to it.                    *)
IndexWritten ==
    \/ WithCode("deleted") # {}
    \/ ~ (WithCode("modified") \subseteq IndexFile)

(* save() returns at once when the overlay is empty.                       *)
HasOverlay == ecode # NoOverlay

Save ==
    /\ HasOverlay
    /\ ptransaction' = TRUE
    /\ IF IndexWritten
         THEN /\ txIndex' = TRUE
              /\ trIndex' = (IndexFile \ WithCode("deleted"))
                                \cup WithCode("modified")
         ELSE UNCHANGED <<txIndex, trIndex>>
    /\ txFiles' = txFiles \cup TouchedFiles
    /\ trData' = [k \in Keys |-> IF FileOf[k] \in txFiles \cup TouchedFiles
                                 THEN DataAfterSave(k)
                                 ELSE trData[k]]
    /\ index' = (index \ WithCode("deleted")) \cup WithCode("modified")
    /\ ecode' = NoOverlay
    /\ item' = NoItems
    /\ UNCHANGED <<mainIndex, mainData, index_to_rollback, keys_with_overlay>>

-----------------------------------------------------------------------------
(* The transaction as a whole.                                             *)

(* Roll back every file of the transaction: its .tr copy is removed.       *)
(* `also' are files, and `indexToo' the index file, whose copy a failing   *)
(* save() has made itself and removes.                                     *)
DropCopies(also, indexToo) ==
    /\ trIndex' = IF txIndex \/ indexToo THEN {} ELSE trIndex
    /\ trData' = [k \in Keys |-> IF FileOf[k] \in txFiles \cup also
                                 THEN NoValue ELSE trData[k]]
    /\ ptransaction' = FALSE /\ txIndex' = FALSE /\ txFiles' = {}
    /\ UNCHANGED <<mainIndex, mainData>>

(* Mutant: keys_with_overlay is not computed again.                        *)
ForgetEdits_KeepsKeys ==
    /\ index' = IF ptransaction THEN index_to_rollback ELSE index
    /\ ecode' = NoOverlay
    /\ item' = NoItems
    /\ UNCHANGED <<index_to_rollback, keys_with_overlay>>

(* Memory goes back to the index the last commit left.                     *)
ForgetEdits ==
    /\ index' = IF ptransaction THEN index_to_rollback ELSE index
    /\ keys_with_overlay' = index'
    /\ ecode' = NoOverlay
    /\ item' = NoItems
    /\ UNCHANGED index_to_rollback

Discard ==
    /\ DropCopies({}, FALSE)
    /\ ForgetEdits

(* An exception in the middle of save(), once it has its transaction: its  *)
(* on_failure guard discards, whatever part of the files was written.      *)
SaveFails ==
    /\ HasOverlay
    /\ \E also \in SUBSET TouchedFiles, indexToo \in {FALSE, IndexWritten} :
           DropCopies(also, indexToo)
    /\ index' = index_to_rollback
    /\ keys_with_overlay' = index_to_rollback
    /\ ecode' = NoOverlay
    /\ item' = NoItems
    /\ UNCHANGED index_to_rollback

(* Each file's copy replaces it, the index file last.                      *)
CommitFiles ==
    /\ mainIndex' = IndexFile
    /\ mainData' = [k \in Keys |-> Stored(k)]
    /\ trIndex' = IF txIndex THEN {} ELSE trIndex
    /\ trData' = [k \in Keys |-> IF FileOf[k] \in txFiles
                                 THEN NoValue ELSE trData[k]]
    /\ ptransaction' = FALSE /\ txIndex' = FALSE /\ txFiles' = {}

(* Mutant: index_to_rollback stays at the commit before.                   *)
Commit_KeepsRollback ==
    /\ ptransaction
    /\ CommitFiles
    /\ UNCHANGED <<index, index_to_rollback, keys_with_overlay, ecode, item>>

Commit ==
    /\ ptransaction
    /\ CommitFiles
    /\ index_to_rollback' = index
    /\ UNCHANGED <<index, keys_with_overlay, ecode, item>>

(* The constructor: the index is what load_index() reads.                  *)
Construct(idx) ==
    /\ index' = idx
    /\ index_to_rollback' = idx
    /\ keys_with_overlay' = idx
    /\ ecode' = NoOverlay
    /\ item' = NoItems

(* The destructor commits what was saved, then the map is opened again.    *)
Reopen ==
    /\ CommitFiles
    /\ Construct(IndexFile)

(* The process dies outside commit(); the .tr copies stay on the disk, and *)
(* the next process opens the committed files.                             *)
Crash ==
    /\ ptransaction' = FALSE /\ txIndex' = FALSE /\ txFiles' = {}
    /\ Construct(mainIndex)
    /\ UNCHANGED disk

-----------------------------------------------------------------------------
Next ==
    \/ \E k \in Keys : AtConst(k) \/ Erase(k)
    \/ \E k \in Keys, v \in Values : At(k, v) \/ Insert(k, v)
    \/ Clear
    \/ Save
    \/ SaveFails
    \/ Discard
    \/ Commit
    \/ Reopen
    \/ Crash

Spec == Init /\ [][Next]_vars

-----------------------------------------------------------------------------
(* Properties.                                                             *)

(* keys() and contains() answer from keys_with_overlay alone, which insert *)
(* and erase keep by hand: it is always the set of the keys at() finds a   *)
(* value for.                                                              *)
KeysAreView == keys_with_overlay = {k \in Keys : View(k) # NoValue}

(* The index file and the data files are different files written one after *)
(* the other: between calls a key is in the index exactly when its data    *)
(* file stores it, in the transaction's copies as in the committed files.  *)
(* A key indexed without data makes at() return an empty packet and makes  *)
(* erase() count one marker too few and clear its neighbours.              *)
IndexMatchesData ==
    /\ index = IndexFile
    /\ index = {k \in Keys : Stored(k) # NoValue}
    /\ mainIndex = {k \in Keys : mainData[k] # NoValue}

(* discard() terminates the process if there is no transaction and index   *)
(* differs from index_to_rollback: no sequence of calls gets there; and    *)
(* what discard() goes back to is what the disk has.                       *)
DiscardCanRollBack ==
    /\ ~ptransaction => index = index_to_rollback /\ ~txIndex /\ txFiles = {}
    /\ index_to_rollback = mainIndex

(* save() asserts that every key of the erase group is in the index file,  *)
(* and at() that what it loads is not marked deleted; an item that was     *)
(* only read is still the stored one, so that save() may skip it.          *)
OverlayMatchesIndex ==
    \A k \in Keys :
        /\ ecode[k] = "deleted" => k \in IndexFile
        /\ ecode[k] = "none" => k \in IndexFile /\ item[k] = Stored(k)
        /\ ecode[k] = "modified" => item[k] # NoValue

(* The refinement mapping: what the owner sees, what the index and files of *)
(* the transaction hold, what the committed ones hold.                     *)
AbsView == [k \in Keys |-> View(k)]
AbsSaved == [k \in Keys |-> IF k \in index THEN Stored(k) ELSE NoValue]
AbsCommitted == [k \in Keys |-> IF k \in mainIndex THEN mainData[k]
                                ELSE NoValue]

(* The map, its overlay, its files and its transaction are together a      *)
(* TxMap: save() publishes the whole overlay to the transaction, commit()  *)
(* the transaction to the disk, and discard(), a failing save() and a      *)
(* crash go back to the last commit, nothing less and nothing more.        *)
Abs == INSTANCE TxMap WITH
    view <- AbsView, saved <- AbsSaved, committed <- AbsCommitted

ImplementsTxMap == Abs!Spec
=============================================================================
