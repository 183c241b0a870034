------------------------------ MODULE FileLoader -----------------------------
(***************************************************************************)
(* file_loader<T> (libsystemutility): one object kept in memory and stored *)
(* as a whole in one file.  save() writes a ".tr" copy, commit() removes   *)
(* the file and renames the copy over it.                                  *)
(*                                                                         *)
(* An object is opened, changed, saved, committed or discarded, destroyed  *)
(* and opened again; its process can die at any moment.                    *)
(***************************************************************************)
EXTENDS Naturals

CONSTANTS
    Values,     \* the states T can be in
    Default,    \* the one a default-constructed T is in
    NoFile,     \* there is no such file
    Torn        \* a file holding the beginning of a serialisation

ASSUME DefaultAssumption == Default \in Values
ASSUME TornAssumption == Torn \notin Values /\ NoFile \notin Values \cup {Torn}

VARIABLES
    file, file_tr,      \* the contents of the file and of its .tr copy
    opened,             \* the object exists
    object,             \* *ptr
    modified,           \* the non-const accessors were used since the save
    ptransaction,       \* a transaction is pending
    committing,         \* the file was removed, its copy not yet renamed
    removed             \* history: the file that commit() has removed

disk == <<file, file_tr>>
commit == <<committing, removed>>
vars == <<file, file_tr, opened, object, modified, ptransaction, committing,
          removed>>

Contents == Values \cup {NoFile, Torn}

TypeOK ==
    /\ file \in Contents
    /\ file_tr \in Contents
    /\ object \in Values
    /\ opened \in BOOLEAN
    /\ modified \in BOOLEAN
    /\ ptransaction \in BOOLEAN
    /\ committing \in {"no", "commit", "destroy"}
    /\ removed \in Contents

Init ==
    /\ file = NoFile
    /\ file_tr = NoFile
    /\ opened = FALSE
    /\ object = Default
    /\ modified = FALSE
    /\ ptransaction = FALSE
    /\ committing = "no"
    /\ removed = NoFile

Idle == committing = "no"
Ready == opened /\ Idle

-----------------------------------------------------------------------------
(* Mutant: a missing file is not the default object.                       *)
Loaded_NoDefault(contents) == contents

(* A missing or empty file is the default object; a torn one makes         *)
(* from_string() throw.                                                    *)
Loaded(contents) == IF contents = NoFile THEN Default ELSE contents

(* The constructor, which the owner gives no transaction.                  *)
Open ==
    /\ ~opened /\ Idle
    /\ file # Torn
    /\ opened' = TRUE
    /\ object' = Loaded(file)
    /\ modified' = FALSE
    /\ UNCHANGED <<disk, ptransaction, commit>>

(* What the owner writes through operator* or operator->.                  *)
Change(v) ==
    /\ Ready
    /\ object' = v
    /\ modified' = TRUE
    /\ UNCHANGED <<disk, opened, ptransaction, commit>>

Save ==
    /\ Ready
    /\ modified
    /\ file_tr' = object
    /\ ptransaction' = TRUE
    /\ modified' = FALSE
    /\ UNCHANGED <<file, opened, object, commit>>

(* save() opens the copy with trunc before it writes: when it throws, the  *)
(* copy is untouched, torn, or empty, which reads as if it were missing.   *)
FailedWrite ==
    /\ Ready
    /\ modified
    /\ file_tr' \in {file_tr, Torn, NoFile}
    /\ UNCHANGED <<file, opened, object, modified, ptransaction, commit>>

(* Mutant: the transaction is created before the copy is written.          *)
SaveFails_TransactionFirst ==
    /\ Ready
    /\ modified
    /\ file_tr' \in {file_tr, Torn, NoFile}
    /\ ptransaction' = TRUE
    /\ UNCHANGED <<file, opened, object, modified, commit>>

SaveFails == ~ptransaction /\ FailedWrite

SecondSaveFails == ptransaction /\ FailedWrite

(* commit() and the destructor, which commits: first the file is removed.  *)
(* Without a transaction the destructor has nothing to do.                 *)
CommitBegins ==
    /\ Ready
    /\ ptransaction
    /\ file' = NoFile
    /\ committing' \in {"commit", "destroy"}
    /\ removed' = file
    /\ UNCHANGED <<file_tr, opened, object, modified, ptransaction>>

(* ... then the copy is renamed to it.                                     *)
CommitEnds ==
    /\ ~Idle
    /\ file' = file_tr
    /\ file_tr' = NoFile
    /\ ptransaction' = FALSE
    /\ committing' = "no"
    /\ removed' = NoFile
    /\ opened' = (committing = "commit")
    /\ UNCHANGED <<object, modified>>

Destroy ==
    /\ Ready
    /\ ~ptransaction
    /\ opened' = FALSE
    /\ UNCHANGED <<disk, object, modified, ptransaction, commit>>

(* Mutant: the object is loaded, from the copy, before the rollback.       *)
Discard_LoadsFirst ==
    /\ Ready
    /\ file # Torn
    /\ file_tr' = IF ptransaction THEN NoFile ELSE file_tr
    /\ ptransaction' = FALSE
    /\ object' = IF ptransaction THEN file_tr ELSE Loaded(file)
    /\ modified' = FALSE
    /\ UNCHANGED <<file, opened, commit>>

(* rollback() removes the copy; the object is loaded again.                *)
Discard ==
    /\ Ready
    /\ file # Torn
    /\ file_tr' = IF ptransaction THEN NoFile ELSE file_tr
    /\ ptransaction' = FALSE
    /\ object' = Loaded(file)
    /\ modified' = FALSE
    /\ UNCHANGED <<file, opened, commit>>

Die ==
    /\ opened
    /\ opened' = FALSE
    /\ ptransaction' = FALSE
    /\ committing' = "no"
    /\ removed' = NoFile
    /\ UNCHANGED <<disk, object, modified>>

Crash == Idle /\ Die

CrashInCommit == ~Idle /\ Die

-----------------------------------------------------------------------------
Next ==
    \/ Open
    \/ \E v \in Values : Change(v)
    \/ Save
    \/ SaveFails
    \/ CommitBegins
    \/ CommitEnds
    \/ Destroy
    \/ Discard
    \/ Crash

Spec == Init /\ [][Next]_vars

(* The two things the code does not survive.                               *)
SpecCrash == Init /\ [][Next \/ CrashInCommit]_vars
SpecSecondSave == Init /\ [][Next \/ SecondSaveFails]_vars

-----------------------------------------------------------------------------
(* Properties.                                                             *)

(* commit() renames and rollback() removes the copy, and both terminate    *)
(* the process if it is not there: a pending transaction always has its    *)
(* copy, whatever save() did before and whatever was left by a crash.      *)
TransactionHasCopy == ptransaction => file_tr \in Values

(* README: file_loader is everything needed to store persistent state.     *)
(* However a commit ends, by returning or because the process dies in it,  *)
(* the file holds the state before the commit or the one that was saved:   *)
(* an application that committed before does not start from nothing.       *)
CommitIsAllOrNothing == [][~Idle /\ Idle' => file' \in {removed, file_tr}]_vars

(* README: transactions are a commit/rollback interface for storage: what  *)
(* commit() puts in place is a state that was saved, never a part of one,  *)
(* which the constructor and discard() cannot load.                        *)
FileIsWhole == file # Torn

(* The file loader is a TxMap with one key, a missing entry standing for   *)
(* the default object.  A commit takes effect with its first call.         *)
Key == "object"
Entry(v) == [k \in {Key} |-> v]

Saved == IF ptransaction THEN file_tr ELSE Loaded(file)

AbsView == Entry(IF opened /\ committing # "destroy" THEN object ELSE Saved)
AbsSaved == Entry(Saved)
AbsCommitted == Entry(IF Idle THEN Loaded(file) ELSE file_tr)

Abs == INSTANCE TxMap WITH
    Keys <- {Key}, Values <- Values \ {Default}, NoValue <- Default,
    view <- AbsView, saved <- AbsSaved, committed <- AbsCommitted

ImplementsTxMap == Abs!Spec
=============================================================================
