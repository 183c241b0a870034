------------------------------ MODULE BlockFile ------------------------------
(***************************************************************************)
(* block_file_loader (libsystemutility): items of different sizes kept in  *)
(* one contents file, found through a marker file.  An item that changes   *)
(* is appended and its old cells become a gap; compact() closes the gaps   *)
(* when they outgrow the items.  All of it happens in the ".tr" copies     *)
(* until commit() puts the two copies in place in four file system calls.  *)
(*                                                                         *)
(* The object itself lives for one call only (map_loader opens the file,   *)
(* saves or erases, takes the transaction and drops the object), so that   *)
(* the state is the four files and the transaction.                        *)
(***************************************************************************)
EXTENDS Naturals, Sequences, SequencesExt, FiniteSets, FiniteSetsExt

CONSTANTS
    Keys,       \* the keys that can be stored in this file
    Values,     \* the items
    NoValue,    \* not stored
    Size,       \* the length of an item's serialisation
    Hash,       \* key_to_uint64_t: what a marker stores of a key
    MaxCells    \* bound: the longest contents save() is modelled for

ASSUME SizeAssumption == Size \in [Values -> Nat \ {0}]
ASSUME HashAssumption == Hash \in [Keys -> Nat]
ASSUME NoValueAssumption == NoValue \notin Values
ASSUME MaxCellsAssumption == MaxCells \in Nat

VARIABLES
    main, tr,           \* contents files: sequences of cells, <<>> if absent
    main_m, tr_m,       \* marker files: sequences of markers, <<>> if absent
    ptransaction,       \* the holder has this file's transaction
    committing          \* the next file system call of commit(), or 0

vars == <<main, tr, main_m, tr_m, ptransaction, committing>>

(* A cell is one unit of the serialisation of key k's item v, or filler.   *)
Zero == <<"zero">>
Cells == {Zero} \cup (Keys \X Values)

Marker == [start: Nat, end: Nat, key: Nat]

TypeOK ==
    /\ main \in Seq(Cells) /\ tr \in Seq(Cells)
    /\ main_m \in Seq(Marker) /\ tr_m \in Seq(Marker)
    /\ ptransaction \in BOOLEAN
    /\ committing \in 0..3

Init ==
    /\ main = <<>> /\ tr = <<>>
    /\ main_m = <<>> /\ tr_m = <<>>
    /\ ptransaction = FALSE
    /\ committing = 0

-----------------------------------------------------------------------------
(* The constructor: reading rows through markers.                          *)

Row(contents, marker) == SubSeq(contents, marker.start + 1, marker.end)

Serialised(k, v) == [i \in 1..Size[v] |-> <<k, v>>]

(* The marker of key k: the hash must match, then the key in the row.  No  *)
(* row is read if the contents file is empty or missing.                   *)
MarkersOf(contents, ms, k) ==
    IF contents = <<>> THEN {}
    ELSE {i \in DOMAIN ms : /\ ms[i].key = Hash[k]
                            /\ \E v \in Values :
                                   Row(contents, ms[i]) = Serialised(k, v)}

Read(contents, ms, k) ==
    LET found == MarkersOf(contents, ms, k) IN
    IF found = {} THEN NoValue
    ELSE Row(contents, ms[Max(found)])[1][2]

(* The pair of files an object opened now would use.                       *)
Contents == IF ptransaction THEN tr ELSE main
Markers == IF ptransaction THEN tr_m ELSE main_m

Stored(k) == Read(Contents, Markers, k)
StoredKeys == {k \in Keys : Stored(k) # NoValue}

-----------------------------------------------------------------------------
(* save(), erase() and compact() on contents and markers.                  *)

(* seekp() and write(): cells past the end that nothing wrote are zero.    *)
Overwrite(contents, at, cells) ==
    [i \in 1..Max({Len(contents), at + Len(cells)}) |->
        IF i \in (at + 1)..(at + Len(cells)) THEN cells[i - at]
        ELSE IF i \in DOMAIN contents THEN contents[i]
        ELSE Zero]

EndOf(ms) == IF ms = <<>> THEN 0 ELSE Last(ms).end

(* The markers of keys that are not rewritten or erased, in their order.   *)
Without(contents, ms, keys) ==
    LET dropped == UNION {MarkersOf(contents, ms, k) : k \in keys}
        kept[i \in 0..Len(ms)] ==
            IF i = 0 THEN <<>>
            ELSE IF i \in dropped THEN kept[i - 1]
            ELSE Append(kept[i - 1], ms[i])
    IN  kept[Len(ms)]

(* Sums(lengths)[i] adds up the first i lengths.                           *)
Sums(lengths) ==
    LET sum[i \in 0..Len(lengths)] ==
            IF i = 0 THEN 0 ELSE sum[i - 1] + lengths[i]
    IN  sum

(* The items, in some order, are appended behind the last marker.          *)
AppendedMarkers(items, order, ms) ==
    LET sum == Sums([j \in DOMAIN order |-> Size[items[order[j]]]])
    IN  [j \in DOMAIN order |-> [start |-> EndOf(ms) + sum[j - 1],
                                end |-> EndOf(ms) + sum[j],
                                key |-> Hash[order[j]]]]

Bulk(items, order) ==
    FlattenSeq([j \in DOMAIN order |-> Serialised(order[j], items[order[j]])])

Lengths(ms) == [i \in DOMAIN ms |-> ms[i].end - ms[i].start]

(* size_sum: how long the items are.                                       *)
Live(ms) == Sums(Lengths(ms))[Len(ms)]

(* shift_sum: how far the last item would move.                            *)
Gaps(ms) == EndOf(ms) - Live(ms)

(* Mutant: a gap as long as the items is left.                             *)
Compacts_WhenLonger(ms) == Gaps(ms) > Live(ms)

(* compact(): the gaps are closed once they are as long as the items; the  *)
(* file then ends where the last item does.  Without items it is removed.  *)
Compacts(ms) == Gaps(ms) >= Live(ms) /\ Gaps(ms) # 0

(* Mutant: the file is not cut behind the last item.                       *)
CompactedContents_NotCut(contents, ms) ==
    IF Gaps(ms) >= Live(ms) /\ Gaps(ms) # 0
    THEN LET items == FlattenSeq([i \in DOMAIN ms |-> Row(contents, ms[i])])
         IN  items \o SubSeq(contents, Len(items) + 1, Len(contents))
    ELSE contents

CompactedContents(contents, ms) ==
    IF Compacts(ms)
    THEN FlattenSeq([i \in DOMAIN ms |-> Row(contents, ms[i])])
    ELSE SubSeq(contents, 1, EndOf(ms))

(* Mutant: every marker moves by the sum of the gaps.                      *)
CompactedMarkers_AllByTotal(ms) ==
    IF Compacts(ms)
    THEN [i \in DOMAIN ms |-> [ms[i] EXCEPT !.start = @ - Gaps(ms),
                                            !.end = @ - Gaps(ms)]]
    ELSE ms

CompactedMarkers(ms) ==
    IF Compacts(ms)
    THEN LET sum == Sums(Lengths(ms))
         IN  [i \in DOMAIN ms |-> [ms[i] EXCEPT !.start = sum[i - 1],
                                               !.end = sum[i]]]
    ELSE ms

(* Mutant: every save of a transaction starts from the committed contents. *)
Base_AlwaysMain == IF main # <<>> THEN main ELSE tr

(* The file save() writes to: a new transaction starts from a copy of the  *)
(* committed contents; if there are none, a .tr file a dead process left   *)
(* is written over as it is.                                               *)
Base == IF ~ptransaction /\ main # <<>> THEN main ELSE tr

(* What save() has written before compact().                               *)
WrittenContents(items, order) ==
    Overwrite(Base, EndOf(Markers), Bulk(items, order))

(* Mutant: the old markers of rewritten keys stay.                         *)
WrittenMarkers_KeepsOld(items, order) ==
    Markers \o AppendedMarkers(items, order, Markers)

WrittenMarkers(items, order) ==
    Without(Contents, Markers, DOMAIN items)
        \o AppendedMarkers(items, order, Markers)

(* The markers that remain after erase(); purpose_clear_all goes by the    *)
(* number of keys alone.                                                   *)
ErasedMarkers(keys) ==
    IF Cardinality(keys) = Len(Markers) THEN <<>>
    ELSE Without(Contents, Markers, keys)

-----------------------------------------------------------------------------
(* Actions.                                                                *)

Idle == committing = 0

Write(items, order) ==
    LET contents == WrittenContents(items, order)
        ms == WrittenMarkers(items, order)
    IN  /\ Idle
        /\ Len(contents) <= MaxCells
        /\ tr' = CompactedContents(contents, ms)
        /\ tr_m' = CompactedMarkers(ms)
        /\ ptransaction' = TRUE
        /\ UNCHANGED <<main, main_m, committing>>

(* The containers erase only keys that the file stores.                    *)
Erase(keys) ==
    LET ms == ErasedMarkers(keys)
        contents == IF ms = <<>> THEN <<>> ELSE Base
    IN  /\ Idle
        /\ keys \subseteq StoredKeys
        /\ tr' = CompactedContents(contents, ms)
        /\ tr_m' = CompactedMarkers(ms)
        /\ ptransaction' = TRUE
        /\ UNCHANGED <<main, main_m, committing>>

(* rollback(); also the way a failing save() or erase() ends, because the  *)
(* container discards.  Without a transaction only what the failing call   *)
(* itself wrote is removed.                                                *)
Rollback ==
    /\ Idle
    /\ ptransaction
    /\ tr' = <<>> /\ tr_m' = <<>>
    /\ ptransaction' = FALSE
    /\ UNCHANGED <<main, main_m, committing>>

SaveFails ==
    /\ Idle
    /\ tr' = <<>>
    /\ \/ tr_m' = <<>>
       \/ ~ptransaction /\ UNCHANGED tr_m
    /\ ptransaction' = FALSE
    /\ UNCHANGED <<main, main_m, committing>>

(* copy_file() breaks off, and the guard that would remove the copy is not *)
(* set yet.                                                                *)
CopyFails ==
    /\ Idle
    /\ ~ptransaction
    /\ \E n \in 1..(Len(main) - 1) : tr' = SubSeq(main, 1, n)
    /\ UNCHANGED <<main, main_m, tr_m, ptransaction, committing>>

(* commit(): remove the contents, rename their copy, remove the markers,   *)
(* rename theirs.  A file that does not exist is skipped.                  *)
RemoveContents ==
    /\ Idle
    /\ ptransaction
    /\ main' = <<>>
    /\ committing' = 1
    /\ UNCHANGED <<tr, main_m, tr_m, ptransaction>>

RenameContents ==
    /\ committing = 1
    /\ main' = tr
    /\ tr' = <<>>
    /\ committing' = 2
    /\ UNCHANGED <<main_m, tr_m, ptransaction>>

RemoveMarkers ==
    /\ committing = 2
    /\ main_m' = <<>>
    /\ committing' = 3
    /\ UNCHANGED <<main, tr, tr_m, ptransaction>>

RenameMarkers ==
    /\ committing = 3
    /\ main_m' = tr_m
    /\ tr_m' = <<>>
    /\ ptransaction' = FALSE
    /\ committing' = 0
    /\ UNCHANGED <<main, tr>>

CommitStep ==
    RemoveContents \/ RenameContents \/ RemoveMarkers \/ RenameMarkers

(* The process dies: the transaction is gone, the files are not.           *)
Die ==
    /\ ptransaction' = FALSE
    /\ committing' = 0
    /\ UNCHANGED <<main, main_m>>

Crash ==
    /\ Idle
    /\ Die
    /\ UNCHANGED <<tr, tr_m>>

(* In the middle of save(): the copy is written, its markers are not.      *)
CrashInWrite(items, order) ==
    /\ Idle
    /\ Die
    /\ tr' = WrittenContents(items, order)
    /\ Len(tr') <= MaxCells
    /\ UNCHANGED tr_m

CrashInCommit ==
    /\ ~Idle
    /\ Die
    /\ UNCHANGED <<tr, tr_m>>

-----------------------------------------------------------------------------
(* The keys of one call.                                                   *)
KeySets == {keys \in SUBSET Keys : IsFiniteSet(keys) /\ keys # {}}

Operation ==
    \/ \E keys \in KeySets :
           \/ Erase(keys)
           \/ \E items \in [keys -> Values], order \in SetToSeqs(keys) :
                  Write(items, order) \/ CrashInWrite(items, order)
    \/ Rollback
    \/ SaveFails
    \/ CopyFails
    \/ CommitStep
    \/ Crash

Spec == Init /\ [][Operation]_vars

(* The same with a process that may die between the calls of commit().     *)
SpecCrash == Init /\ [][Operation \/ CrashInCommit]_vars

-----------------------------------------------------------------------------
(* Properties.                                                             *)

WellFormed(contents, ms) ==
    /\ \A i \in DOMAIN ms : ms[i].start < ms[i].end
    /\ \A i \in 2..Len(ms) : ms[i - 1].end <= ms[i].start
    /\ EndOf(ms) = Len(contents)
    /\ \A i \in DOMAIN ms :
           \E k \in Keys, v \in Values :
               /\ ms[i].key = Hash[k]
               /\ Row(contents, ms[i]) = Serialised(k, v)

(* What the constructor throws "invalid entry in marker file" or fails to  *)
(* read for does not happen to a file that save(), erase() and compact()   *)
(* wrote: its markers are ordered, do not overlap, end with the contents,  *)
(* and each one delimits exactly one serialised item.                      *)
MarkersDelimitItems ==
    /\ Idle => WellFormed(main, main_m)
    /\ ptransaction /\ Idle => WellFormed(tr, tr_m)

(* Appending never leaves two markers of one key, so that it does not      *)
(* matter in which order the markers are read.                             *)
OneMarkerPerKey ==
    Idle => \A k \in Keys : Cardinality(MarkersOf(Contents, Markers, k)) <= 1

(* compact() bounds the file: less than twice the size of its items.       *)
SpaceBound ==
    Idle /\ Contents # <<>> => Len(Contents) < 2 * Live(Markers)

(* load_all: assert(markers.empty()) when there are no contents.           *)
NoMarkersWithoutContents == Idle /\ main = <<>> => main_m = <<>>

(* Whatever the order of saves, erases, compactions, failures and crashes  *)
(* outside commit(), and whatever copies earlier crashes left behind, the  *)
(* file is a TxFile: it reads back what was written last.  commit() takes  *)
(* effect with its first call; the last one must leave that in place.      *)
AbsSaved == [k \in Keys |->
    CASE committing <= 1 -> Stored(k)
      [] committing >= 2 -> Read(main, tr_m, k)]

AbsCommitted == [k \in Keys |->
    IF Idle THEN Read(main, main_m, k) ELSE AbsSaved[k]]

File == INSTANCE TxFile WITH saved <- AbsSaved, committed <- AbsCommitted

ImplementsTxFile == File!Spec
=============================================================================
