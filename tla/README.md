# TLA+ models of mesh.pp

mesh.pp is a C++ library with two halves: containers that keep their contents in
files under transactions (`libsystemutility`), and a peer-to-peer socket that keeps a
set of connections alive and finds new ones through them (`libp2psocket`, `kbucket`,
`libsessionutility`). This directory holds TLA+ models of both, the TLC runs
that check them and proofs about them. `PROJECT.json` maps every definition to
the lines it translates.

1. [The system](#1-the-system)
2. [The modules and how they correspond to the code](#2-the-modules)
3. [The runs, their bounds, and what they show](#3-the-runs)
4. [What is proved](#4-what-is-proved)
5. [What the runs found](#5-findings)
6. [What is left out](#6-what-is-left-out)
7. [Plan](#7-plan)

Paths below are relative to `src/src/`.

## 1. The system

### Storage (`libsystemutility/fileutility.hpp`, `.cpp`)

| Part | State | Operations | What makes it correct |
| --- | --- | --- | --- |
| `file_loader<T>` | an object in memory, a file, a `.tr` copy, a pending transaction, `modified` | construct, `*`/`->`, `save`, `commit`, `discard`, destroy | the file holds a state that was committed; `discard` returns to it; a pending transaction has its copy |
| `block_file_loader` | a contents file and a marker file, a `.tr` copy of each, a pending transaction | construct with some keys, `save`, `erase`, `compact`, `commit`, `discard` | markers delimit items; an item read is the one last written; space stays bounded |
| `map_loader<T>` | overlay, index, `index_to_rollback`, `keys_with_overlay`; an index file and `limit` data files, each a block file; a transaction of their transactions | `at`, `insert`, `erase`, `clear`, `keys`, `save`, `commit`, `discard`, destroy | the four views of the map agree; `save` publishes all edits, `discard` and a failing `save` none |
| `vector_loader<T>` | the same with positions for keys and a size file for an index | `at`, `push_back`, `pop_back`, `clear`, `save`, `commit`, `discard` | as `map_loader`, and positions are `0..size-1` |
| `file_locker<T>` | `<path>.lock`, its `flock`, a file descriptor | construct (ten attempts), destroy | one holder at a time; an attempt ends; a dead holder locks nobody out |

`map_loader` and `vector_loader` create a `block_file_loader` for the length of one
call, hand it the transaction of its file, let it save or erase, and take the
transaction back. The containers run in one thread: the hard behaviours are long
sequences of calls (erase after insert after discard ...), exceptions in the
middle of `save()`, and a process that dies between two file system calls, so
that the next one finds copies nobody owns. Only `file_locker` is used by
several processes at once.

### Network (`libp2psocket`, `kbucket`, `libsessionutility`)

| Part | State | Operations | What makes it correct |
| --- | --- | --- | --- |
| `communication_state` (p2pstate.cpp) | a vector of peers; three maps, two sets and the pending removals, all by place in the vector | `add_passive`, `add_active`, `set_active_value`, `remove_later` (by address, by peer), `undo_remove`, `do_step`, `remove_pending`, `remove_from_todo_list` | every index leads to its own entry after any removals; a removal with a drop has a connection |
| `p2pstate_ex` (p2pstate.cpp) | the above, the kbucket, verified peers, dropped nodes with their back-off | `add_contact`, `set_active_nodeid`, `remove_pending`, `filter_introduce_candidates`, `process_node_join/drop` | a contact of the kbucket has a live connection to that node; a dropped node is tried again |
| `KBucket` | contacts by distance, at most K in each slot | `insert`, `erase`, `find` | never holds itself, never more than K in a slot |
| `p2psocket` | timers, peers to report as removed | `prepare_wait`, `receive` with a handler for each message, `send`, `timer_action` | join and drop of a node alternate for the user; a silent peer is dropped; a responsive one is not |
| `session_manager` (sessionutility.cpp) | sessions by peer id, node id and deadline; each a sequence of actions | `add`, `remove`, `process`, `erase_all_pending` | actions start in order, each after the one before completed; a session without actions is gone |

`p2psocket` owns a belt.pp socket (external: connections, their ids, events and
timers) and a `p2pstate`. `prepare_wait` removes what is due, then opens and
listens; `receive` handles one packet after another; `timer_action` is the clock of
the pending removals (`do_step`) and pings. The hard behaviours are orders
of events: a new connection from an address before the end of the old one is
seen, two connections of one node, a removal that falls due while the address is
added again, a message for a session that ends in the middle of it.

### The rest

`libcryptoutility` (keys, signatures, hashes, a word list), `libmlog`, `settings`
and `processutility` are functions or plain I/O without state a model could say
something about. `kbucket/nodelookup.hpp` is not included anywhere and does not
fit the present `KBucket`.

## 2. The modules

| Module | Models | Refines |
| --- | --- | --- |
| `TxMap` | abstract: a map in three versions, what the owner sees, what is saved, what is committed | |
| `MapLoader` | `map_loader`, `map_loader_internals` | `TxMap` |
| `TxVector` | abstract: a vector in the same three versions | |
| `VectorLoader` | `vector_loader`, `vector_loader_internals` | `TxVector` |
| `TxFile` | abstract: a file of items in two versions, saved and committed | |
| `BlockFile` | `block_file_loader`, cell by cell | `TxFile` |
| `FileLoader` | `file_loader` | `TxMap` with a single key |
| `FileLocker` | `file_locker`, `create_lock_file`, `delete_lock_file` (POSIX) | |
| `PeerTable` | abstract: peers by address, no places | |
| `CommunicationState` | `communication_state<peer_state>` | `PeerTable` |
| `P2PSocket` | `p2psocket` with `p2pstate_ex` and `KBucket`, over `PeerTable` | |
| `DroppedNodes` | the back-off of `p2pstate_ex` (`droped_nodes`) | |
| `SessionPlan` | abstract: what is still to be done with each node | |
| `SessionManager` | `session_manager<nodeid_session_header>` | `SessionPlan` |
| `MC...` | the instances TLC checks | |
| `...Proofs` | theorems about the module they extend; those about `DroppedNodes` are in `CommunicationStateProofs` | |

### MapLoader

The variables are those of `map_loader_internals` (`index`, `index_to_rollback`,
`keys_with_overlay`, the overlay as `ecode` and `item`, `ptransaction` with the
files that have a transaction of their own), and the files. The actions are the
members of `map_loader`: `AtConst`, `At`, `Insert`, `Erase`, `Clear`, `Save`,
`Discard`, `Commit`; `SaveFails` is a `save()` that throws anywhere once it has its
transaction, `Reopen` the destructor and the next constructor, `Crash` the death of
the process between calls. One level below, a data file is the function from
its keys to what it stores; that a file behaves like that is what `BlockFile`
shows. `purpose_clear_all`, which drops all markers of a file when as many keys
are erased as there are markers, is kept (`ErasedFrom`), because it is right only
if the index and the data files agree.

The C++ `save()` writes the index and the data files in a loop; nothing can see
the state in between except an exception (`SaveFails`) and a crash, after which
only the committed files count. `Save` is therefore one step. `commit()` is one
step too, which is an abstraction: see section 6.

### VectorLoader

As `MapLoader`, with positions for keys. `size` is the size of what was saved,
`size_with_overlay` what `size()` answers: `PushBack` and `PopBack` keep the latter
by hand, and `Save` computes the former from the positions it erases (the least of
them) and modifies (the greatest). `PopBack` drops a position from the overlay
when it is behind `size`, else marks it deleted, as the code does without looking
whether it is stored; that this is right is `OverlayMatchesSize`. Neighbours
(`group`) share a file and files wrap around (`limit`), so that `purpose_clear_all`
can go wrong here too. `Discard` and a failing `Save` read the committed size file
again; it is the only thing the constructor reads (`load_size`).

### BlockFile

The object lives for one call, so the state is the four files, whether the holder
has a transaction, and how far `commit()` has come. A file is a sequence of cells,
a cell one unit of some item's serialisation. This keeps what can go wrong: where
rows begin and end, where `save()` writes, what `compact()` moves, what a marker
says. `Write` is the whole of `save()`: copy the committed contents if the
transaction is new, append the items, drop their old markers, `compact`,
`save_markers`. `Erase` is `erase()`, with `purpose_clear_all`. `SaveFails`, `CopyFails`
(`copy_file()` breaks off before its guard is set) and `CrashInWrite` leave what the
guards of `save()` leave. `commit()` is four steps,
one per file system call. An item's size and the hash of a key are constants:
the instance has items of two sizes and two keys with the same hash. What the code
keeps in a variable over a loop (`seek_pos`, `size_sum`, `start`, `write_index`) is a
recursive function of the loop's counter (`Sums`, `Without`), which the proofs can
unfold one pass at a time. A call has finitely many keys (`KeySets`).

### FileLoader

`commit()` is two steps, remove and rename; `committing` also says whether the
destructor made the call. A failing `save()` leaves the copy as it was, torn, or
empty. A torn file cannot be opened. Failing the first `save()` of a transaction is
part of `Next`; failing a later one, and a crash inside `commit()`, are
additional actions of `SpecSecondSave` and `SpecCrash`.

### FileLocker

One step per system call: `OpenFile` or `OpenFails` (`open` with `O_CREAT`), `Lock` or `LockFails`
(`flock`), `RemovePath` and `Close` (`delete_lock_file`). A lock belongs to an
inode, and the path may name another one by the time it is removed. `Crash` is
the death of a process, whose files the system closes.

### CommunicationState

The variables are the members of the class. `AddPassive` and `AddActive` follow
the code's cases: an unknown address, a passive entry that is due for removal and is
revived, an entry that is kept. `RemovePending` has the net effect of its loop:
from the last due place to the first, each removal moves the places above it,
and the keys of `map_to_remove`, down by one (`Moved`). An address stands for its
`address_key()` and is either listened on or connected to; `open_attempts` and
`requested` are not kept. `set_value()` has no caller and is left out;
`remove_later` by address is only called with `only_if_passive` and without a drop.
`map_by_key` leads to at most one of several entries with the same node id,
and `set_active_value` can make it forget the other ones: nothing reads it, so that
only what it does say is checked.

### P2PSocket

One node against a socket that may deliver anything. The table is the abstract one of
`PeerTable`, whose operations are functions of the table, so that an action can make
the calls its handler makes in their order; `CommunicationState` shows that the C++
class is such a table. `kbucket` maps a node to the connection of its contact; the
xor distance only matters as the slot a node falls into, a constant. `open` is what the
socket has, `user` what the user was told last, `overtaken` remembers connections whose
address another one took over.

`PrepareWait` is the whole function: sweep what is due (with the clean-up of the
kbucket, the notifications and the drops), listen, add the configured addresses again
if a timer says so, connect. `ListenFails` and `OpenFails` leave it by an exception.
`receive()` handles one packet in a step, after a `PrepareWait` (`waiting`), and only
if no notification is pending; each packet of a batch is a step of its own,
with a `PrepareWait` before it, so that a packet behind a protocol error in one batch
finds the removal of its connection done. `SendDrop` and `TimerAction` may come
at any time, also between `prepare_wait()` and `receive()`.

Data that is abstracted: a ping has a good stamp and signature or is `ReceiveOther`; an
address this node is seen under is a member of `Routes`, and each peer sees it under
one. Whether a connection is the first configured address's is asked of the socket, by
`RemoteOf`, and not of the table. A node's id does not change within a connection, and
nobody calls itself by this node's id (`KBucket::insert` throws on it). What the user
gets for a failed `open()` is not about a node and is left out.

### DroppedNodes

The members `process_node_join`, `process_node_drop` and
`filter_introduce_candidates` share `droped_nodes` with each other and nothing with
the rest of `p2pstate_ex`, but for the contacts the filter reads; they are a module
of their own, in which any of them may be called at any time, with any contacts. A
`NodeDetails` packet is how often it has each id, because a peer may repeat
one. The history `missed` counts how often a node was left out in a row, which the
entry forgets at the next drop.

### SessionManager

A session is what the code's `session` is: peerid, address, wait duration and the
vector of actions, with what is left until `wait_for_contact` instead of the time
itself. An action has the flags of `session_action` (`initiated` as a count of calls of
`initiate()` up to two, `completed`, `errored`) and its type. `Add` and `Process` are the
whole functions. Each has a loop, and the loop is modelled turn by turn with the
locals the code keeps over it:

- `AddTurn` has `existing_permanent_actions` (`existing`, extended at each push_back),
  `previous_completed`, `update_last_contacted` (`contacted`) and `errored`; `AddLeaves` is
  what follows: a session that failed or has nothing to do is erased, a contacted one
  gets its deadline, an untouched one stays as it is.
- `ProcessTurn` has `initiate`, `errored`, `dispose_count` (`disposed`) and whether an
  action that waits has left the loop (`stopped`); `ProcessLeaves` compares the count
  with the number of actions, removes the completed ones and sets the deadline.

Both loops are recursive functions of the loop's counter, so that proofs can take them
a turn at a time. `Modified` is the `modify()` of the container: if the
session's new peerid is one that another session has, the session is erased. The code
asserts that this does not happen; the model keeps what the assertion would see
(`Losses`: the peerid before and after) in place of the session, which otherwise
counts as gone. `RemovePeer`, `EraseAllPending` and `Tick`, the clock, are the rest.

The actions belong to the owner, so that any call of one may leave it waiting,
complete it or fail it. It may fail by the flag or by an exception: for an exception
the guard of `add()` or `process()` erases the session and the exception goes on to the
owner, which leaves the same state. Two things are assumed of the actions, which
`session_action` suggests and does not enforce: one that was not started expects no
packet, since its `expected_next_package_type` is the initial -1; and only a call that
starts or completes an action changes the header, where it may set the peerid.
`session_header`, the other instance of the template, has no node id and no comparison
of headers, and takes the same paths.

## 3. The runs

| Run | Question | Bounds and why they are enough |
| --- | --- | --- |
| `map_loader` | do overlay, key set, index and files agree, can `discard()` always roll back, is the whole a `TxMap`? | three keys, two in one data file and one alone: a file shared by an erased and a kept key, a file cleared as a whole, a transaction of several files; two values: a value changes and changes back |
| `block_file` | do markers delimit items, is there one per key, is space bounded, is the file a `TxFile`? | two keys with one hash, items of one and two cells, `MaxCells = 5`: gaps before, between and behind items, compaction of rows of different sizes over gaps of different sizes, leftovers longer than what is written |
| `block_file_crash` | can a crash inside `commit()` leave markers without contents? (it can) | the same |
| `file_loader` | has every transaction its copy, is the object a `TxMap`? | three states of the object: the default one, one committed, one in the transaction |
| `file_loader_crash` | is a commit all or nothing when the process dies in it? (it is not) | the same |
| `file_loader_second_save` | can a commit put a torn file in place? (it can) | the same |
| `communication_state` | do all indices lead to the right entries, has every removal with a drop a connection, is the whole a `PeerTable`? | one address to listen on and two to connect to, so that two of three entries are removed below or around a third; two connections, one node id; removals now and after one step. Once with a fourth address (219,089 states, four and a half minutes): the same result |
| `p2psocket` | do table, kbucket, socket and user agree, is every connection on the clock, does a node that stays joined ping? | node `n1` with a connection from the configured address and one from another address, which node `n2` uses too, so that connections take over from their own and another node's; one place for both in the kbucket; time limits of one tick. The instance where `n1`'s second connection may also come from the first address (204,130 states, three and a half minutes) passes as well |
| `p2psocket_overtaken` | is the kbucket cleaned up with the table? (it is not) | the same |
| `session_manager` | do actions start in order and once, is no session left without actions or with a failed one, is one lost in `modify()` only when its peerid was changed, does a silent one end, is the whole a `SessionPlan`? | two nodes, so that one can get the peerid of the other; node `n1` is added under two addresses, under one of them with a connection, so that headers are refused and a session is found by its peerid or by its node; one permanent and one other type, a request that has the permanent one twice; three actions in a session (`MaxActions`), so that one completes between a standing and a waiting one; two wait durations, so that one is reduced (29,059 states) |
| `file_locker` | does every attempt end, is every lock held by a live process? | two processes and three inodes: each can have an inode of its own while a third is at the path; three attempts |
| `file_locker_alone` | is the holder alone? (it is not) | the same |

`MaxCells` (BlockFile) is the only bound that cuts behaviours: `save()` is not
modelled when the contents before compaction would be longer. `SpaceBound` says
that after it they are shorter than twice the items, so that the longest file of
two long items is within the bound together with one rewrite of a small item; the
instance with `MaxCells = 6` passes as well (48,062 states, two minutes).
`MaxActions` (SessionManager) refuses an `add()` that would make a session longer: every
loop of the code looks at neighbouring actions or at all of them, and three have a
first, a middle and a last one.
`MaxTries` is ten in the code; the attempts differ in nothing but their number.

Symmetry is used for keys, values, addresses and connections that play the same
part, in runs without liveness properties only.

Each property of a passing run has a mutant, listed in `PROJECT.json`: a
definition marked `Mutant:` that changes one mapped definition the way a slip in
the code would, and breaks the property.

Fairness is assumed in three modules. In `P2PSocket`, for `JoinedKeepPinging`, weak fairness of
`PrepareWait` and `TimerAction`: the user's loop, which waits and whose timer runs.
Nothing is assumed of the socket, of the peers, or of `receive()`: a node noted for
the user counts as told, because `receive()` is called only when the socket has something.
In `SessionManager`, for `SilentSessionsEnd`, weak fairness of `Tick` and
`EraseAllPending`: time passes, and the owner calls `erase_all_pending()` in its loop, as
it has to. Nothing is assumed of peers or actions.
In `FileLocker`, for `AttemptEnds`: weak fairness of
the steps of a constructor that was entered (`open`, `flock`, the next attempt) and of
`close` after the path was removed. These are consecutive statements of one
thread; `flock` is called with `LOCK_NB` and never waits. Nothing is assumed of how
long a holder keeps the object, whether it ever lets it go, or whether it dies.

## 4. What is proved

The theorems hold for every value of the constants that the `ASSUME`s of the
modules admit. TLC evaluates those assumptions on every run. `VectorLoader` and
`DroppedNodes`, which have no run, state what they ask of their constants as
`Parameters`, which is a hypothesis of each of their theorems.

**MapLoaderProofs.** `Invariance`: the conjunction of all of MapLoader's invariants
is inductive. No conjunct is on its own: that a key erased from the overlay leaves
the right key set needs the index and the data files to agree; that they still
agree after `Save` needs the overlay's `deleted` entries to be in the index
file, or `purpose_clear_all` would count wrongly (`ErasedFromExact`, where finite
cardinalities are used); that `Discard` restores them needs `index_to_rollback` to
be the committed index. `MapSafety` spells out the parts. `Refinement`: every step
is a step of `TxMap` or none, by a lemma per action that says what the action does to
the three abstract versions (`DataAfterSaveIsView` is the centre: after `Save`
the files store what the owner saw). Assumed: `Keys` is finite, `NoValue` is no value,
every key has a file.

**VectorLoaderProofs.** The same three theorems for `vector_loader`: `Invariance`,
`VectorSafety`, `Refinement` of `TxVector`, for any bound on the size, any `limit` and
any `group`. The heart is that the positions marked deleted are exactly those between the
visible size and the saved one (`OverlayMatchesSize`): this makes `purpose_clear_all` clear
what it should (`ErasedFromExact`, by cardinalities) and makes the size that `save()`
computes from the marks the one the owner sees (`SizeSavedIsView`, by the minimum and
maximum of a set). Assumed (`Parameters`): `NoValue` is no value, `limit` and `group`
are positive, the bound is a number. TLC was asked first, with three
positions in two data files and two values (60,843 distinct states); the module has no
run among those of section 3, because the theorems hold for that instance with all
others.

**BlockFileProofs.** `MarkersSafety`: the markers of a file lie one behind the
other and each delimits one whole item; `OneMarkerSafety`: no two of one key, though
keys share hashes; `SpaceSafety`: less than twice what the items need; `TypeCorrect`;
and `Implementation`: the file is a `TxFile`. All for any number of markers, so that
what the loops over them compute has to be proved by induction. The
library's induction theorems cannot be used here (their parameter is an operator), but
that `<` on the numbers is well-founded can: a statement about a loop is the set of the
counter's values at which it holds, and `Induction` says that the least one at
which it fails does not exist. `Iterate` derives from it that a recursive function
over `0..n` exists, and `SumsAdd`, `WithoutRemains`, `FlattenSeqLays` say what the
three kinds of loop return: places that add up, the markers that stay in their order, rows
laid one behind the other.
On these rests `Sound`, what a contents file and its markers have to be: markers in
order, each over one item's row, and none over the item of another marker's key. `ItemUnique`:
a row is that of one item only, so that what is read under a key (`ReadSound`) is the item
whose marker there is, whichever other keys have the same hash. `WriteSound`: appending behind the
last marker (`EndOf`) and dropping the old markers of the written keys gives a sound
file with the new items; it does not matter what was behind that place before, which may be the
leftover of a crash. `CompactGood`: moving rows down over the gaps keeps each item, and
`Bounded` is what the condition for doing so leaves. The invariant `IInv` says for each
step of `commit()` which pair of files is sound: while `RenameContents` is done and
`RenameMarkers` is not, it is the new contents with the copy of the markers. `Versions`
says what the abstract file is in each of these cases, and a lemma per action that it does
what `TxFile` says. Assumed: items have a size of at least one and hashes are numbers. `MaxCells`, the
bound of the run, may be any number here.

**FileLoaderProofs.** `CopySafety`: a pending transaction has its copy, from the
invariant that a `commit()` under way has it too and that what is opened is whole.
`Refinement`: the object is a `TxMap` of one key.

**FileLockerProofs.** `LockSafety`: a lock belongs to a live process that has the
locked inode open, for any number of processes and attempts. `KilledExclude`:
processes that never remove the file but only die with it (a daemon that is
killed) do exclude each other; the invariant is that all open descriptors name
the inode at the path. It is the removal of the path that breaks exclusion,
see section 5.

**CommunicationStateProofs.** `MapsSafety`: after any calls every map of
`communication_state` leads to its own entry; `UseSafety`: what is to be listened on
or connected to is passive and of that kind, and a removal with a drop has a
connection to drop; `TypeCorrect`; and `Implementation`: the class is the table
by address of `PeerTable`, step by step. The invariant `IInv` is the conjunction of
`TypeOK`, `MapsAgree`, `TodoIsPassive` and `DropsHaveConnection`: the code finds
an entry by a map and changes it at its place, so that a set or a pending removal that
speaks of a place keeps its meaning only while the maps agree. The centre is
`MovedIsBijection`: whatever places are removed, `Moved` takes the kept ones onto
`1..n` in their order, for a vector of any length, by counting finite sets; from it
follows what each index holds after `RemovePending`. Assumed, besides what the
constants are: the mark of a missing entry (`None`) is not an entry
(`EntriesAssumption`).

At the end of the module, after a line of its own and with an instance of
`DroppedNodes`, the other state of `p2pstate.cpp`: `BackOffSafety`. Skips never pass
the limit, whatever drops and repeated ids come; the limit stays below ten times `MaxLimit`; and below `MaxLimit`, a
node was left out in a row for less than ten ninths of its limit, so that the
drops that came before it was offered again do not add up. The strengthening
(`MissedBefore`) relates the history to what the entry has skipped. From `MaxLimit` on
(10^12 in the code) no such bound holds: each drop that comes at the end of
a round starts another one of the same length. Assumed (`Parameters`): the marker of
no entry is no entry, the bounds are numbers. Here too TLC was asked first: one node, a
`MaxLimit` of 100, packets that have it up to twelve times.

**P2PSocketProofs.** `ContactSafety`, `ExpirySafety`, `UserSafety` and `TypeCorrect` say
of any nodes, addresses, connections, routes, time limits and size of a slot what
the run `p2psocket` checks. Most of these properties are not inductive, and `IInv`
says what they rest on: what each entry may look like (`EntriesAreSound`: an entry with a
connection has a pending removal; its drop is to be sent exactly while the connection is
open), that two entries never share a connection (`OneAddress`), that contacts and
open connections have entries (`ContactsHaveEntry`, `OpenHaveEntry`), that a node
noted as removed is no contact, and that between `prepare_wait()` and the `receive()`
it announces no unknown contact is left (`ContactsAreKnownSoon`). The lemmas say what
each operation of the table does to one entry; the steps are one per handler.
Assumed, besides what the constants are: `None` is neither an entry nor a pending removal
(`RecordAssumption`).

**SessionManagerProofs.** `OrderSafety`, `EndSafety`, `PermanentSafety`,
`PutBackSafety` and `TypeCorrect`, for sessions and requests of any length and any number
of actions that complete at once. The invariant speaks of each session: its actions are
in order and settled (the parts of the properties, and that what is completed was
started, without which an action behind a completed one that never started could be out
of turn), and no two sessions share a peerid, the empty one included: what makes
`modify()` put a session back whose peerid was left alone. The loops
are proved by induction over their counter: the functions that run them are unfolded
one turn at a time, and an invariant of the loop says what its locals mean so far.
`AddedTo` says for the loop of `add()` that `existing` has the permanent types of the
actions, that `previous` says whether the last one is completed, and that the actions
are those of a longer vector `all`, of everything offered, without what is done with.
`Offered` says for the loop of `process()` that the actions up to the counter were called as
the flags say, and that `disposed` is their number if all of them are completed
and none is permanent: a session of which no action stays has counted them all and
is erased. `Implementation`: the session implements `SessionPlan`. The
completed actions of a session are its first ones, so that its plan is the rest and the
removal leaves the plan alone; a loop moves the border forward, which is a step of
`Advance`, or of `Extend` when `add()` has appended something, with nothing done at once
unless the plan was empty; a session that is erased, by whichever call, is a step of
`End`. Assumed: headers, requests and durations are what their types say,
and `None` is neither a session nor a lost one.

Only model-checked: the liveness properties `AttemptEnds`, `JoinedKeepPinging` and
`SilentSessionsEnd`, because liveness under fairness and `ENABLED` are out of reach of
the prover; and what the runs that expect a violation show, which a theorem could only
deny. Every invariant and every refinement that section 3 checks is proved.

## 5. Findings

- `file_locker_alone`: two processes hold the lock of one path. `delete_lock_file`
  removes the path before it closes the file. A process that opened the file before
  the removal gets its `flock` after the close, while another one creates a new file at
  the path and locks that.
- `block_file_crash`: `commit()` replaces the contents before it touches the markers. A
  process that dies in between leaves markers without contents, which the
  constructor asserts cannot be; without the assertion the index of the map is empty
  while its data files are full.
- `file_loader_crash`: `commit()` removes the file before it renames the copy. A
  process that dies in between leaves neither, as far as the constructor looks: the
  next process starts from the default state.
- `file_loader_second_save`: a `save()` that fails while a transaction is pending has
  truncated the copy this transaction will commit, and `commit()` or the destructor puts
  the torn copy in place.

- `p2psocket_overtaken`: a contact outlives its connection. A second connection from an
  address takes the table's entry over and resets its node id; when both connections are
  gone, nothing says any more which contact to erase. The user is never told, `send()`
  goes to the dead connection, and a later ping of the node counts as one of an existing
  contact, which does not correct it.

`ContactsAreKnown` has an exception worth knowing: a user's drop that comes between
`prepare_wait()` and a ping of the node is undone by the ping, which replaces the
pending removal; the node stays a contact and is not reported again (the belief `retracted`).

## 6. What is left out

- `MapLoader` and `VectorLoader` commit in one step. In the code the data files are renamed
  one after the other and the index or size file last, so that a crash in between mixes two
  versions;
  `BlockFile` shows what it does to one file.
- Errors of single file system calls are taken together as a call that fails and is
  cleaned up by its guards; errors during `commit()` terminate the process, which
  is a crash.
- A `.tr` copy that nobody owns is kept in the models where later calls can
  read it (`BlockFile`, `FileLoader`) and only as leftover data in `MapLoader`.
- `file_saver_helper` has a pool of one task: files are processed one after the
  other.
- Serialisation is a bijection of items to rows; that a row of one key cannot be
  read as another's is part of the item (`key` is in it).
- `droped_nodes` in `P2PSocket`: it decides only which introductions to ask for, nothing
  else reads it, and `DroppedNodes` has it. `undo_remove()` has no caller and is in
  `CommunicationState` only.
- Liveness of the back-off: that a dropped node is asked for again needs a peer that
  keeps naming it, which the code does not ensure.
- The order in which `process()` visits the sessions of one peer: peerids are unique, so
  that there is one.
- The Windows build of `file_locker`.
- Moving containers (`&&` constructors) and taking a transaction out of a
  `file_loader`, which nobody does.
- All components `PROJECT.json` lists as not modelled, for the reasons given there
  and in section 1.

## 7. Plan

In order; the models of section 2 are done.

1. `MapLoader`'s commit in steps, with a crash between them, as a run that expects a
   violation of the index invariant if the code disagrees with a statement of its
   documentation; `VectorLoader`'s likewise.
2. Two or three `P2PSocket`s against each other, with messages in flight:
   introductions, and both ends opening at the same time.
3. `KBucket` with its distances, as far as `nearest` lookups matter to anyone: at present
   nothing calls them.
