----------------------------- MODULE VectorLoader -----------------------------
(***************************************************************************)
(* vector_loader<T> and detail::vector_loader_internals (libsystemutility):*)
(* a vector kept in a size file and `limit' data files, edited through an  *)
(* in-memory overlay and made durable by save() and commit().              *)
(*                                                                         *)
(* As in MapLoader, a data file is the set of the positions it stores, and *)
(* a file of the transaction is a ".tr" copy.                              *)
(***************************************************************************)
EXTENDS Naturals, FiniteSets, FiniteSetsExt

CONSTANTS
    Values,     \* the values the owner stores
    NoValue,    \* no item: the position is not stored
    limit,      \* the number of data files
    group,      \* how many neighbours share a file
    MaxSize     \* bound on the size

VARIABLES
    mainSize, mainData,     \* the committed size file and data files
    trSize, trData,         \* their .tr copies, which outlive a crash
    ptransaction,           \* pimpl->ptransaction is not null
    txSize, txFiles,        \* the files with a transaction of their own
    size,                   \* the size of what was saved
    size_with_overlay,      \* what size() answers
    ecode, item             \* the overlay: code and packet of a position

disk == <<mainSize, mainData, trSize, trData>>
transaction == <<ptransaction, txSize, txFiles>>
vars == <<mainSize, mainData, trSize, trData, ptransaction, txSize, txFiles,
          size, size_with_overlay, ecode, item>>

Positions == 0..(MaxSize - 1)
Sizes == 0..MaxSize
Cells == Values \cup {NoValue}
ECodes == {"absent", "none", "modified", "deleted"}
NoOverlay == [i \in Positions |-> "absent"]
NoItems == [i \in Positions |-> NoValue]

(* What the constants stand for.                                           *)
Parameters ==
    /\ NoValue \notin Values
    /\ MaxSize \in Nat
    /\ limit \in Nat \ {0} /\ group \in Nat \ {0}

-----------------------------------------------------------------------------
filename(i) == (i \div group) % limit

FilesOf(is) == {filename(i) : i \in is}

(* What a block_file_loader opened with the transaction's file reads.      *)
SizeFile == IF txSize THEN trSize ELSE mainSize

Stored(i) == IF filename(i) \in txFiles THEN trData[i] ELSE mainData[i]

StoredIn(f) == {i \in Positions : filename(i) = f /\ Stored(i) # NoValue}

WithCode(c) == {i \in Positions : ecode[i] = c}

(* What the owner sees at position i.                                      *)
View(i) ==
    IF ecode[i] \in {"none", "modified"} THEN item[i]
    ELSE IF ecode[i] = "absent" /\ i < size THEN Stored(i)
    ELSE NoValue

TypeOK ==
    /\ mainSize \in Sizes /\ trSize \in Sizes
    /\ mainData \in [Positions -> Cells] /\ trData \in [Positions -> Cells]
    /\ ptransaction \in BOOLEAN /\ txSize \in BOOLEAN
    /\ txFiles \subseteq FilesOf(Positions)
    /\ size \in Sizes /\ size_with_overlay \in Sizes
    /\ ecode \in [Positions -> ECodes]
    /\ item \in [Positions -> Cells]

Init ==
    /\ mainSize = 0 /\ mainData = NoItems
    /\ trSize = 0 /\ trData = NoItems
    /\ ptransaction = FALSE /\ txSize = FALSE /\ txFiles = {}
    /\ size = 0 /\ size_with_overlay = 0
    /\ ecode = NoOverlay /\ item = NoItems

-----------------------------------------------------------------------------
(* Operations on the overlay.                                              *)

SetOverlay(i, code, v) ==
    /\ ecode' = [ecode EXCEPT ![i] = code]
    /\ item' = [item EXCEPT ![i] = v]

(* T const& at(index): a miss loads the item; a hit changes nothing.       *)
AtConst(i) ==
    /\ ecode[i] = "absent"
    /\ i < size
    /\ SetOverlay(i, "none", Stored(i))
    /\ UNCHANGED <<disk, transaction, size, size_with_overlay>>

(* T& at(index), and what its caller writes through the reference.         *)
At(i, v) ==
    /\ ecode[i] # "deleted"
    /\ ecode[i] = "absent" => i < size
    /\ SetOverlay(i, "modified", v)
    /\ UNCHANGED <<disk, transaction, size, size_with_overlay>>

PushBack(v) ==
    /\ size_with_overlay < MaxSize
    /\ SetOverlay(size_with_overlay, "modified", v)
    /\ size_with_overlay' = size_with_overlay + 1
    /\ UNCHANGED <<disk, transaction, size>>

(* What only the overlay has is dropped from it, else marked.  Nothing     *)
(* looks at whether a position the overlay does not have is stored.        *)
PopBack ==
    /\ size_with_overlay > 0
    /\ LET last == size_with_overlay - 1
           dropped == ecode[last] # "absent" /\ size <= last
       IN  SetOverlay(last, IF dropped THEN "absent" ELSE "deleted", NoValue)
    /\ size_with_overlay' = size_with_overlay - 1
    /\ UNCHANGED <<disk, transaction, size>>

Clear ==
    /\ ecode' = [i \in Positions |-> IF i < size THEN "deleted" ELSE "absent"]
    /\ item' = NoItems
    /\ size_with_overlay' = 0
    /\ UNCHANGED <<disk, transaction, size>>

-----------------------------------------------------------------------------
(* save(): first the erased positions leave their data files, then the     *)
(* modified ones enter them, then the size file is written.                *)

(* block_file_loader::erase() on file f, with purpose_clear_all: when as   *)
(* many positions are erased as the file stores, it drops all of them.     *)
ErasedFrom(f, is) ==
    LET requested == {i \in is : filename(i) = f} IN
    IF Cardinality(requested) = Cardinality(StoredIn(f))
    THEN StoredIn(f)
    ELSE requested

(* What position i's file stores after both groups were written.           *)
DataAfterSave(i) ==
    IF ecode[i] = "modified" THEN item[i]
    ELSE IF i \in ErasedFrom(filename(i), WithCode("deleted")) THEN NoValue
    ELSE Stored(i)

TouchedFiles == FilesOf(WithCode("deleted") \cup WithCode("modified"))

(* The loops over the positions of the two groups.                         *)
SizeErased == Min({size} \cup WithCode("deleted"))

SizeSaved == Max({SizeErased} \cup {i + 1 : i \in WithCode("modified")})

Save ==
    /\ ecode # NoOverlay
    /\ ptransaction' = TRUE
    /\ txFiles' = txFiles \cup TouchedFiles
    /\ trData' = [i \in Positions |->
                     IF filename(i) \in txFiles \cup TouchedFiles
                     THEN DataAfterSave(i) ELSE trData[i]]
    /\ size' = SizeSaved
    /\ txSize' = TRUE
    /\ trSize' = SizeSaved
    /\ ecode' = NoOverlay /\ item' = NoItems
    /\ UNCHANGED <<mainSize, mainData, size_with_overlay>>

-----------------------------------------------------------------------------
(* The transaction as a whole.                                             *)

(* rollback(): the .tr copy of every file is removed.  `also' are files    *)
(* whose copy save() removed itself when it failed.                        *)
DropCopies(also) ==
    /\ trSize' = IF txSize THEN 0 ELSE trSize
    /\ trData' = [i \in Positions |-> IF filename(i) \in txFiles \cup also
                                      THEN NoValue ELSE trData[i]]
    /\ ptransaction' = FALSE /\ txSize' = FALSE /\ txFiles' = {}
    /\ UNCHANGED <<mainSize, mainData>>

(* Memory after load_size(), which reads the committed size file.          *)
Load(committed) ==
    /\ size' = committed
    /\ size_with_overlay' = committed
    /\ ecode' = NoOverlay /\ item' = NoItems

Discard == DropCopies({}) /\ Load(mainSize)

(* An exception in the middle of save(): its on_failure guard discards,    *)
(* whatever part of the files was written.                                 *)
SaveFails ==
    /\ ecode # NoOverlay
    /\ \E also \in SUBSET TouchedFiles : DropCopies(also)
    /\ Load(mainSize)

(* Each file's copy replaces it, the size file last.                       *)
CommitFiles ==
    /\ mainSize' = SizeFile
    /\ mainData' = [i \in Positions |-> Stored(i)]
    /\ trSize' = IF txSize THEN 0 ELSE trSize
    /\ trData' = [i \in Positions |-> IF filename(i) \in txFiles
                                      THEN NoValue ELSE trData[i]]
    /\ ptransaction' = FALSE /\ txSize' = FALSE /\ txFiles' = {}

Commit ==
    /\ ptransaction
    /\ CommitFiles
    /\ UNCHANGED <<size, size_with_overlay, ecode, item>>

(* The destructor commits what was saved, then the vector is opened again. *)
Reopen == CommitFiles /\ Load(SizeFile)

(* The process dies outside commit(); the .tr copies stay on the disk.     *)
Crash ==
    /\ ptransaction' = FALSE /\ txSize' = FALSE /\ txFiles' = {}
    /\ Load(mainSize)
    /\ UNCHANGED disk

-----------------------------------------------------------------------------
Next ==
    \/ \E i \in Positions : AtConst(i)
    \/ \E i \in Positions, v \in Values : At(i, v)
    \/ \E v \in Values : PushBack(v)
    \/ PopBack
    \/ Clear
    \/ Save
    \/ SaveFails
    \/ Discard
    \/ Commit
    \/ Reopen
    \/ Crash

Spec == Init /\ [][Next]_vars

-----------------------------------------------------------------------------
(* Properties.                                                             *)

(* size() answers from a counter push_back and pop_back keep by hand: at() *)
(* finds an item at every position below it and at none from it on.        *)
SizeIsView == \A i \in Positions : View(i) # NoValue <=> i < size_with_overlay

(* Size file and data files are written one after the other: between calls *)
(* the data files store exactly the positions below the size, in the       *)
(* transaction's copies as in the committed files.                         *)
SizeMatchesData ==
    /\ size = SizeFile
    /\ \A i \in Positions : Stored(i) # NoValue <=> i < size
    /\ \A i \in Positions : mainData[i] # NoValue <=> i < mainSize

(* The overlay says how to get from the saved size to the visible one:     *)
(* everything between them is marked deleted, or is new, and nothing else. *)
(* save() computes the size from these marks alone.                        *)
OverlayMatchesSize ==
    \A i \in Positions :
        /\ ecode[i] = "deleted" <=> size_with_overlay <= i /\ i < size
        /\ size <= i /\ i < size_with_overlay => ecode[i] = "modified"
        /\ ecode[i] = "modified" =>
               i < size_with_overlay /\ item[i] # NoValue
        /\ ecode[i] = "none" => i < size /\ item[i] = Stored(i)

(* Without a transaction, memory has what discard() would load.            *)
SavedIsCommitted ==
    ~ptransaction => size = mainSize /\ ~txSize /\ txFiles = {}

(* The refinement mapping: what the owner sees, what the size and files of *)
(* the transaction hold, what the committed ones hold.                     *)
AbsView == [i \in Positions |-> View(i)]
AbsSaved == [i \in Positions |-> IF i < size THEN Stored(i) ELSE NoValue]
AbsCommitted == [i \in Positions |-> IF i < mainSize THEN mainData[i]
                                     ELSE NoValue]

Abs == INSTANCE TxVector WITH
    view <- AbsView, saved <- AbsSaved, committed <- AbsCommitted

(* The vector loader is a transactional vector.                            *)
ImplementsTxVector == Abs!Spec
=============================================================================
