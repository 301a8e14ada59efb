# efsw in TLA+

efsw watches directories for changes on Linux (inotify), Windows, macOS
(FSEvents), the BSDs (kqueue) and, by polling, anywhere. `efsw-agent` puts it
behind a byte stream. These modules model the parts where the order of things
matters. Line numbers are those of the repository, `src/efsw/` unless another
directory is given. `PROJECT.json` lists the components, the hazards with
their lines and properties, and the lines each definition stands for.

## 1. Inventory

| Component | State | Operations | Hard behaviour | What makes it correct |
|---|---|---|---|---|
| **inotify backend** `FileWatcherInotify`, `WatcherInotify` | `mWatches` (descriptor -> object), `mRealWatches`, `mDeletedWatches`, `mInitOK`; three mutexes; the batch with `pendingMoves`; each object's `Directory`, `Parent` | `addWatch`, `removeWatch`, `watch`, destructor; worker `run`, `handleAction`, `checkForNewWatcher`, `emitMovedOutside`, `emitCrossDirectoryMove` | bare pointers kept across unlocks and callbacks; listeners that call back; events older than the tree they describe; split moves; reused descriptors; a full queue | no use after free, one owner per object, a destructor that returns; every directory watched, under its own path, and reported |
| **efsw-agent** `agent/efsw-agent.cpp` | `mWatchers`, `mWatches`/`mByEfsw`, `mOutgoing`/`mPendingEvents`/`mPendingMissed`, `mStop` | requests of the client, `onEvent`/`onMissed`, `writerLoop`, destructor | three kinds of thread; a watch that runs before it is registered; callbacks later than UNWATCH; shutdown with output queued | no change unknown to the client in the end; no event of a finished watch; one reply to each request, in order |
| **wire protocol** `include/efsw/agent_protocol.hpp` | bytes not parsed yet | `FrameParser::feed/next`, `Reader`, `Writer` | frames cut anywhere, sizes from the peer | requests come out as they went in, whatever the cuts |
| **generic backend, threads** `FileWatcherGeneric`, `WatcherGeneric` | list of watches, last id | `addWatch`, `removeWatch`, `run`, destructor | removal while the list is walked | no watch scanned after it is freed; calls return |
| **generic backend, scan** `DirWatcherGeneric`, `DirectorySnapshot`, `FileActionBatch` | the last snapshot of each directory, the tree of directory watchers | `scan`, `watch`, `createDirectory`, `removeDirectory`, `moveDirectory`, `dispatch` | a tree that changes between two listings; identities; order of a batch; links | a listener that follows the callbacks has the tree |
| **Windows backend** `FileWatcherWin32`, `WatcherWin32` | watches, retired watches, overlapped reads, pending moves | add, remove, completion, timer, drain | memory the system writes to until the completion comes; moves told by two packets | freed after the completion, once; the listener has the tree |
| **FSEvents backend** `FileWatcherFSEvents`, `WatcherFSEvents` | watches, the stream, the dispatch queue | `rebuildStream`, `FSEventCallback`, `releaseStreamAfterCallbacks`, `handleActions` | replacing the stream while a callback runs; events merged per path | no callback on what is freed; every watch in the stream; the listener has the tree |
| **kqueue backend** `FileWatcherKqueue`, `WatcherKqueue` | per directory: change list, snapshot, children | `watch`, `rescan`, `addFile`, `removeFile`, `moveDirectory`, `rescanTree` | a sorted array kept dense by moving its end; notes about a tree that moved on; moves across directories | every file and directory is watched; the listener has the tree |
| **facade, C API** `FileWatcher`, `FileWatcherCWrapper` | backend; callback registry | forwarding; create, release, add, remove | a registry all handles share | no watch with a freed listener |
| **links and paths** `FileSystem`, `FileInfo`, `linkAllowed` | flags | `getLinkRealPath`, `getRealPath`, `isRemoteFS` | several paths for one directory; loops | watches stay in scope, their visit ends |
| **conversions** `Utf.inl`, `String` | - | `Decode`, `Encode` | surrogates, limits | a name comes back as it was |
| threads, locks, log, tests, build | - | wrappers | - | seen through the backends |

How they interact. The facade owns one backend and forwards to it. A backend
calls `FileWatchListener` from its own thread, with its lock held (inotify:
`mInitLock`, a recursive mutex), so a listener may call `addWatch` and
`removeWatch` of the same object, and another thread that calls them waits for
the callback to end. The agent is a listener and a client of up to one
FileWatcher per set of options; its callbacks fill queues that one writer
thread empties. No backend keeps anything on disk, so there is no restart to
recover from; the agent has one abrupt exit (`std::_Exit` when stdin ends).

## 2. Modules

| Module | What it is | Uses |
|---|---|---|
| `InotifyLifetime` | threads, locks and object lifetimes of the inotify backend; no paths | |
| `InotifyLifetimeProofs` | its inductive invariant and the proofs | `InotifyLifetime` |
| `InotifyTree`, `MCInotifyTree` | the inotify worker against a changing tree and the kernel's queue | |
| `InotifyTreeProofs` | proofs: every marked directory has its watch | `InotifyTree` |
| `Agent` | the agent's threads, its watchers as seen from it, and a client | `WatchChannel` |
| `AgentInvariant` | lemmas about its data, its inductive invariant, its larger actions | `Agent` |
| `AgentProofs` | each action keeps that invariant; the safety theorems | `AgentInvariant` |
| `AgentChannelProofs` | the agent implements `WatchChannel` | `AgentProofs` |
| `WatchChannel` | what the agent promises a client: the abstract specification | |
| `AgentWire`, `MCAgentWire` | the byte stream, `FrameParser` and `Reader` | `Utf` |
| `Utf` | UTF-8, UTF-16 and code points, as operators | |
| `Links` | directories, symbolic links, and which of them a watch may follow | |
| `WatchRoots`, `MCWatchRoots` | `addWatch` and `removeWatch` of three backends where a directory has several paths | `Links` |
| `WatchedTree` | a tree that programs change, and `DirectorySnapshot` | |
| `FileActionBatch` | the events of a pass, and the moves found in them | `WatchedTree` |
| `GenericScan`, `MCGenericScan` | the scan of the generic backend | `FileActionBatch` |
| `GenericWatch` | the generic backend's thread under the C interface | |
| `GenericWatchProofs` | proofs: lists under a scan, listeners of a handle | `GenericWatch` |
| `KqueueWatch`, `MCKqueueWatch` | one recursive watch of the kqueue backend | `FileActionBatch` |
| `Win32Watch`, `MCWin32Watch` | the Windows backend | |
| `Win32WatchProofs` | proofs: memory the system writes to | `Win32Watch` |
| `FSEventsStream` | the shared FSEvents stream and the dispatch queue | |
| `FSEventsStreamProofs` | proofs: coverage, silence, lifetime of streams and of the object | `FSEventsStream` |
| `FSEventsView`, `MCFSEventsView` | what one watch makes of merged events | |

Each backend is split where its questions multiply: who may hold which object
and when (lifetimes, every interleaving of threads, no paths), and what the
listener learns (every interleaving with the file system, one thread). Where
the code selects watches by path, a lifetime module selects any.

### InotifyLifetime

One step is one section under `mWatchesLock`, or what lies between two of
them. `owner` is `mInitLock`; `call[t]` is the stack of `addWatch` frames of a
thread, since `addWatch` recurses over subdirectories and, with
`LinuxProduceSyntheticEvents`, calls the listener in the middle. `wpc` is the
place of the worker.

| Code | Actions |
|---|---|
| `addWatch` 65-210 | `addWatch`, `nativeAdd` (`inotify_add_watch`), `register` (the maps), `endNotify`, `addSubdirectory`, `returnAdd` |
| `removeWatch`, `removeWatchLocked` 212-280 | `removeWatch`, `removeWatchLocked`, `Retire` |
| `run` 304-481 | `readBatch`, `dispatchEvent`, `deferMove`, `moveAway`, `finishMove`, `endBatch`, `freeDeleted` |
| `emitMovedOutside` 344-377 | `collectMoved`, `eraseMoved` |
| `handleAction` 523-602 | `testInitOK` (before the lock), `enterAction` (after it), `checkForNewWatcher`/`nothingToCover`, `endCallback`, `pruneDeleted` |
| `watch`, destructor | `watch`, `destroy`, `destroyWatches` |

An object's address is used for one allocation. A real allocator reuses
addresses, but a pointer to freed memory is wrong before that, and
`RetainedAlive` excludes it. The descriptor that `inotify_add_watch` gives out
is any, in use or not: the kernel returns the same one for a directory that is
marked already, and reuses those of removed watches. It may be the descriptor
of a directory the very `addWatch` is inside of, reached again through a followed
link; `revisits` are the threads whose call has met one (section 3). Clients do not enter an
object whose destructor has begun; that is the user's duty.

### InotifyTree

`loc` is the file system, `mark` and `queue` the kernel's side, `objs` the
watch objects. An event is posted when its directory is marked, and the queue
drops what does not fit. The worker's actions are those of `run` and
`handleAction`, one per event; the listing of `addWatch` is taken at
`register`, after `nativeAdd`, and what appears between the two is seen twice.
`view` is a listener that starts with the listing it makes when `addWatch`
returns and then follows the callbacks. A behaviour chooses its `setting`:
which changes programs make, and which of them also while efsw has events to
handle (`racing`). `"remove"` among them is the client's `removeWatch`, between
any two calls of `handleAction`; otherwise it waits until efsw is idle. efsw is
right about directories that appear at any rate, and about everything else one
change at a time; section 3 has what the other races do.

### Agent, WatchChannel, AgentWire

`raw` and `callback` stand for the FileWatchers: native events of a watch not
taken yet, and the call of the listener in progress. `addWatch` and
`removeWatch` wait for the callback, as inotify's and the generic backend's do.
The main thread handles a request in the steps between its mutexes, `mpc`;
`wpc` is the writer, `out` the pipe to the client. There are two ways out:
`protocolError` answers ERROR and leaves through `~Agent`, which joins
everything; `endOfInput` is `std::_Exit`, which ends all threads at once. A
failed write ends the process as well (`writeFailed`). The client lists the
directory on WATCH_OK and on MISSED_EVENTS, ignores frames about a watch it
does not have, and uses an id for one watch at a time; the comment at
`agent/efsw-agent.cpp:246` asks for exactly that. `known` is what it ends up
knowing.

`WatchChannel` has neither threads nor queues: requests pending, one reply at
a time in order, and a client that learns changes of the directory its id
stands for. `ChannelSpec` is `Channel!Spec` under the mapping *pending* =
the requests whose replies are in the pipe, in the writer's hands, queued or
still being handled, *open* = the client has not hung up. An UNWATCH that finds
no watch, a fall-back to the generic watcher and a batch that is discarded are
stutters of it.

`AgentWire` is the same connection as bytes. The client's requests become one
stream, `readInput` takes a piece of it, `next` is `FrameParser::next` and the
part of `handle` that reads the payload, with every bound `Reader` checks.
Paths are written from UTF-16 and read as UTF-8 through the operators of
`Utf`, which are `Utf.inl`'s with its arithmetic on 32 bits.

### WatchRoots and Links

`Links` has directories (real paths), links between them, stat, lstat and
realpath, and `linkAllowed`. `WatchRoots` is a depth first visit with one
directory per step: `stack` holds the paths not looked at, each with the watch
above it, so it is the recursion of `addWatch` (inotify, kqueue) or the loop of
`addChildren` (generic, also as kqueue's fall-back when descriptors run out).
`accepted` is what the code checks for an explicit watch and `admitted` for one
below, both per backend.

### WatchedTree, FileActionBatch, GenericScan, KqueueWatch

`WatchedTree` is the file system both backends list: entries with an identity
and a stamp (size, time), changed one at a time. Changes of a kind in `Racing`
come at any time; the others (`Alone`) come one per pass, on a tree already
known, and with no pass going on. It also has
`DirectorySnapshot::scan` and the operators it is made of. `FileActionBatch` is
the batch: `moves` pairs a Delete with an Add of one identity, `suppressed`
drops what the pairs explain, `dispatch` orders the rest.

| Code | Definitions |
|---|---|
| `DirWatcherGeneric::watch` 141-198 and what it calls | `GenericScan!watch`: one job of the stack `todo` |
| `createDirectory`, `removeDirectory`, `moveDirectory`, `resetDirectory`, `addChildren` | operators of the same names |
| `WatcherKqueue::watch` 361-444 | `KqueueWatch!watch` (`takeNotes`, `rescan`), `startPass`, `rescanTree`, `endPass` |
| `addFile`, `removeFile`, `comparator`, bsearch | operators on `mChangeList` |

A visit of the generic backend is several steps, with changes between any two
of them: the listing with the events of its files (`scan`); each new directory,
which `createDirectory` looks at again (281) and then visits; what is done for
directories that were changed, deleted and moved; and the visits of the
watchers that were there before. `missed` are the directories that were in a
listing and gone at 281-285, where no watcher is made; `kept` those that a
listing did not have and that were back when `~DirWatcherGeneric` looked (34),
where the files below are not reported as deleted. One watcher's part of a
kqueue pass is one step: its notes come in the order of its list, and then it
may list its directory.

The kernel's notes are computed from the tree before and after a change
(`Note`): DELETE, RENAME or WRITE of a vnode. Notes that have come wait for the next
pass. The registrations are one-shot and made again in each pass
(`WatcherKqueue.cpp:117, 199`); what a file does between the delivery and that
is taken as noted, which is kinder than the system is.

### GenericWatch

`FileWatcherGeneric` and the C interface in one module, because the registry
of callbacks outlives the handles and all handles share it. A scan is
`callListener`/`returnListener` any number of times, with `mWatchesLock`.

### Win32Watch

`obj` are the watch objects with their read (`IoPending`, `changes` in the
system's buffer), `port` the completion packets. `tick` ages pending moves
past their 100 ms. `removeWatch`, `StopWatch`, `reclaim` and
`drainRetiredWatches` are the retirement of an object.

### FSEventsStream and FSEventsView

`FSEventsStream` has the mutex, the stream that runs, the blocks of the serial
queue and each thread's place in a call. `releaseStreamAfterCallbacks` queues a
barrier and waits for it (`runBarrier`, then `releaseStream`) or, on the queue
itself, leaves the release to a later block (`runRelease`). A callback works on
its copy of `mWatches` and may call the listener of any watch in it, any number
of times: which ones an event is for is a question of paths. `removed` are the
watches whose removal has returned to a client, `unawaited` those of them whose
removal could not rebuild the stream and so did not wait for the callback under
way. `FSEventsView` has one
watch: the system merges the flags of a path (`events`), a batch is delivered,
and `handleActions` asks the file system what is there.

## 3. Properties and runs

`PROJECT.json` says which hazard each property is about. Liveness properties
stand after a semicolon. No run takes more than four minutes with two workers.

| Run | Config | Bounds | States | Shows |
|---|---|---|---|---|
| `lifetime` | `InotifyLifetime.cfg` | 2 clients, 2 objects, 2 descriptors, 1 cookie, 2 events per batch | 118k | `TypeOK`, `RetainedAlive`, `SingleOwner`, `RealWatchesAgree`; `Reclaimed` (the destructor returns, removed objects are freed) |
| `tree` | `InotifyTree.cfg` | 2 directories, 2 names; 5 changes of which mkdir races, with `ReportCrossDirectoryMoves`; 5 of which mkdir and `removeWatch` race, without; 3 changes that all race, queue of 2 | 516k | `AllCovered`, `ViewIsTree`, `RemovedAll`, `MarksOwned`; `EventuallyCovered` |
| `agent` | `Agent.cfg` | 2 ids, 1 directory, 3 requests, 1 change, 1 overflow, a pipe of 1 frame | 712k | `MapsAgree`, `NoChangeLost`, `NoEventAfterUnwatch`, `ChannelSpec`; `Exits`, `EventuallyKnown` |
| `wire` | `AgentWire.cfg` | 2 or 3 requests, every name of `Boundary` | 12k | `AsSent`, `NothingKept` |
| `generic_scan` | `MCGenericScan.cfg` | 2 directories, 1 file, 5 changes | 280k (symmetry) | `AllCovered`, `ViewIsTree`, `OneMove` |
| `generic_watch` | `GenericWatch.cfg` | 2 handles, 1 directory, 1 callback, 2 adds each | 94k | `ScanAlive`, `ListenersOwned`; `CallsReturn` |
| `win32` | `MCWin32Watch.cfg` | 2 watches of one directory, one after the other, 2 files, 3 places in it, 3 changes, a buffer of 3 | 797k | `IoMemory`, `ViewIsTree`; `Reclaimed` |
| `fsevents_stream` | `FSEventsStream.cfg` | 2 clients, 2 watches, 2 directories, 3 streams | 716k | `ObjectAlive`, `SilentAfterRemove`, `CoveredByStream`; `CallsReturn` |
| `fsevents_view` | `MCFSEventsView.cfg` | 3 inodes, 3 places, 5 changes | 2.1M | `ViewIsTree`, `OneMove` |
| `kqueue` | `MCKqueueWatch.cfg` | 3 files and 2 directories, 4 changes of any kind; 3 files alone, 7 changes, identities reused | 865k (symmetry) | `FilesWatched`, `AllCovered`, `ViewIsTree`, `NoDelete` |
| `roots` | `WatchRoots.cfg` | 5 directories, 2 places for links, 2 watches, 3 backends | 573k | `Covered`, `NothingLeft`, `LoopsEnd` |
| `link_loop` | `LinkLoop.cfg` | the same, 1 watch, inotify | - | `LoopsEndInScope` is violated |

What is behind the properties:

- A *view* (`InotifyTree`, `GenericScan`, `KqueueWatch`, `Win32Watch`,
  `FSEventsView`) is what a listener knows that lists the directory when
  `addWatch` returns and then does what each callback says. `ViewIsTree`
  compares it with the tree when efsw has caught up. It is the strongest
  statement of what efsw is for, and fails for any event that is lost, comes
  twice where that matters, or comes in the wrong order.
- `AllCovered` is about the directories of a recursive watch: each has its
  own watch, under the path it has now, and no other directory has one (kqueue:
  but where a watcher was left behind).
- `FilesWatched` is about the files of kqueue: each has its vnode in the change
  list of its directory, however the list was shuffled.
- `RetainedAlive`, `IoMemory`, `ScanAlive`, `ObjectAlive` are the four
  backends' forms of one question: may the object a thread, the kernel or a
  queue still points at be freed?
- `Reclaimed`, `CallsReturn`, `Exits` are its other half: that waiting for
  that moment ends.
- `ChannelSpec` is the refinement of `WatchChannel` by `Agent`.

### Bounds, and why they are enough

*InotifyLifetime*: two clients and the worker are all the roles there are. Two
objects are a root and its child (the smallest `Parent` chain, recursion and
removal of more than one), or two roots; two events of a batch let the first
remove what the second needs, and a deferred move with its destination goes
beyond them. The theorems then hold for any number.

*InotifyTree*: two directories give one inside the other, before and after a
move of either. Five changes make both and move or remove twice; the queue of
eight holds all of it. A last setting drops every restriction and has a
queue of two, for overflow; three changes fill it.

*Agent*: three requests are watch, unwatch, watch of one id, which is what
late events need, or two ids on one directory, where the generic watcher has
to step in. One change and one overflow can be seen by either watch or
dropped, in either order. A pipe of one frame makes the writer wait at every
frame.

*AgentWire*: two or three requests with names of one and two 16-bit units on
both sides of every boundary in `Utf.inl`, surrogate pairs, and each kind of
wrong request; payloads of at most 24 bytes, read in any pieces of up to 12, so the cuts come
anywhere in a frame and several frames in one piece.

*GenericScan*, *KqueueWatch*: two directories, of two names, which can be in
each other; one file (generic) or three (kqueue). Five
and four changes: make, fill, move, and change again between the steps of the
pass that meets the move. `Reuse = FALSE`: an identity is not given out again,
see below. `Clock = {TRUE}`: the time of a directory moves with the first change
of its entries and is the same second for the later ones, so both a time that
tells and one that does not occur. kqueue's second setting is about the change
list: two files cannot unsort it by moving its end into a gap, three can; seven
changes make the three and remove, make and rename again, with identities
reused. It needs no directory, so the whole of the bound goes to the list. In
both, files and directories come, go and are written at any time, and renames
come one per pass.

*GenericWatch*: two handles share the registry; one callback and one directory
suffice for two watches of one handle, since a second `addWatch` of the
directory may come before the first is in the list.

*Win32Watch*: one directory is watched, recursively, by two watches one after the
other, so two live watches never meet. Two files and three places, in two
directories below it, give every move there is within a watch; a move is two
entries, so a buffer of three overflows at the second move while one read is
out. *FSEventsStream*: three streams are the one that runs, its
successor and the successor's. *FSEventsView*: three inodes and three places,
five changes; two of the places are in the directory of the watch.

*WatchRoots*: two trees, one of them two levels deep with a remote directory,
and links at two places to anywhere, up, down, across or to themselves. No visit
that the generic backend or kqueue makes of it is 11 deep, the `MaxDepth` that
stands for the end of the stack.

Symmetry (of files, and of directories, not of names, which are ordered) is used
in `generic_scan` and `kqueue`, whose properties are safety only.

Bounded counters (`MaxOps`, `MaxAdds`, objects that are used once) make the
small models stop; their configurations say `CHECK_DEADLOCK FALSE`.
`lifetime`, `tree`, `agent` and `wire` check deadlock: every state where
nothing can happen is one where the system is done.

### Fairness

The workers, a thread inside a call, the agent's main thread inside a request,
its writer and its callbacks are threads the operating system runs. Weak
fairness of each, per thread, says only that, and that listeners return.
Mutexes: in `InotifyLifetime`, `Agent` and `FSEventsStream` a thread that waits
for a mutex has it in the end because the others' work is bounded. In
`GenericWatch` the worker takes `mWatchesLock` again and again, with a
sleep between (`FileWatcherGeneric.cpp:133`), so a client that waits gets it between two passes: strong
fairness of `Client`. Nothing is assumed of programs that change files, of
clients that call the interface, or of the agent's client sending requests; the
agent's client is assumed to read its end of the pipe or to hang up
(`receive`), which only `EventuallyKnown` and `Exits` need: one that stays and
does not read blocks the writer in `write`, and the destructor's join with it.
`mWatchersMutex`, which the destructor holds while the watchers' threads are
joined, is taken by the main thread alone (`agent/efsw-agent.cpp:125, 274, 371`)
and is no variable. No fairness is asked of the system's
completions in `Win32Watch`: a read that is out when its directory is closed
comes back at once, empty.

### What the code does not do

`link_loop` checks one statement of the repository and ends in a
counterexample. `efsw.hpp:235-240` says that links are followed only
within the watched directory by default, "to avoid great levels of recursion". A
link to the directory it is in is within it; `addWatch` asks `pathInWatches` at
`FileWatcherInotify.cpp:118`, which knows explicit watches only, so the
directory is registered again through the link, listed again, and the link is
met again one level deeper. The generic backend and kqueue look at the watches
of the whole chain (`LoopsEnd`, run `roots`).

The passing runs leave out a number of situations in which their properties are
known to fail; each was met with the model, by changing the constant or the
guard that is named here or in the module.

*inotify, lifetimes.* A client's `addWatch` that follows a link to a directory
it is inside of is given the descriptor of one of its own frames, or of the
directory it is about to look into. Lines 155-160 retire that object, the worker
frees it at the end of its batch without `mInitLock` (469-477), and the frames go
on to read it (166, 191-210). A bind mount or a rename during the visit does the
same. `RetainedAlive` says so: it leaves out the clients in `revisits`, and no
others. In the worker's own `addWatch` the object lives until the batch is
done, so `RetainedAlive` makes no exception there. Not counted as retained are
`Parent` pointers of objects in the maps, which `inParentTree` follows
(`WatcherInotify.cpp:10`): they may lead through freed objects after such a
retirement or a move.

*inotify, the tree* (`setting.racing` beyond `mkdir` and `remove`). An action that
waited for `mInitLock` while its watch was removed (528) goes on with the
retired object, and `checkForNewWatcher` adds a directory under it (580, 504)
that no `removeWatch` finds: `RemovedAll` is about the call, and says nothing of
what comes after it. A directory that is
renamed before IN_CREATE is handled is never watched, as a Moved event does not
call `checkForNewWatcher` (552). One renamed twice keeps its first new path
(557). With `ReportCrossDirectoryMoves` a moved watch keeps its `Parent` and
survives the removal of the root after the old parent is freed
(`WatcherInotify.cpp:10`). IN_DELETE of an older directory prunes the watch
that has its path now (592). IN_Q_OVERFLOW has descriptor -1, which no watch
has, so nobody is told (411).

*inotify, links*. An explicit watch inside a directory that a followed
out of scope link leads to takes over its descriptor (149-160). An explicit
root spelled through a link is not recognised when a link leads to it, and links
within a root spelled so are refused. `removeWatch(path)` of a root that is a
link finds nothing, as `Directory` is the target; that of a directory below a
recursive watch removes just that directory's (267).

*agent*. `std::_Exit` at the end of stdin drops replies and events the writer
has not taken (`efsw-agent.cpp:494-502`). A WATCH with an id in use leaves the
old entry of `mByEfsw` (344). PING and HELLO are not looked at, and bytes after
the last field of a payload are accepted.

*conversions*. `Utf<8>::Encode` lets a lone low surrogate through;
`Utf<16>::Encode`, which nothing uses, makes a pair of U+FFFF. Lone surrogates
in Windows names become U+FFFD, so such files cannot be told apart. When
`realpath` fails `getRealPath` reads an array that was not written
(`FileSystem.cpp:157-159`).

*generic, the scan*. A directory that is gone when `createDirectory` looks at it
and is made again before the next pass is in its parent's snapshot and has no
watcher: it is Modified at most, and what is in it is never told (281-285,
`missed`). One that is removed and back when its watcher is deleted keeps its
files in the listener's tree (34, `kept`). With `ReportCrossDirectoryMoves` a
directory's move comes with a Moved for each entry below it that had a Delete
and an Add of its own (`FileActionBatch.cpp:98-118`). A move of a file in the
same pass as one of a directory leaves an entry that is not there. Files that are in a new directory when it is
first listed are not reported (`DirWatcherGeneric.cpp:314-319`). A watch that is
not recursive reports directories too. A name that changes from file to
directory within a pass is not covered. With `Reuse`, `ReportCrossDirectoryMoves`
takes a reused identity for a move and drops the Delete.
`WatchRoots`: a link that sorts before the directory it leads to makes two
watches of it (123); links found later are not tested for loops (317-322), and
their watchers are kept under the full path and never found again (132, 338).

*generic, the threads; the C interface*. `pathInWatches` and the search of
`removeWatch` read the list without its lock; while a scan
is on, `GenericWatch` takes any answer of the former; it finds the latter's
watch and erases it in two steps. Two clients may be given one id
(`FileWatcherGeneric.cpp:61`). A listener that removes a watch invalidates the
iterator of `run`. `find_callback` does not look at the callback for missed
events, and `efsw_release` frees one listener of the handle only, before the
thread that may call it has stopped (`FileWatcherCWrapper.cpp:68-71, 94-100`).

*Windows* (`Reuse`). A file deleted and made again under its id within 100 ms is
reported Add, Delete (`WatcherWin32.cpp:134-142`). `run` walks `mWatches` while
listeners may remove watches (211), and `WatchCallbackEx` goes on with the
entries of a watch its listener removed. A `CreateWatch` that fails leaks.

*FSEvents*. With `Careful = FALSE` `ObjectAlive` fails: a listener that removes
the last watch leaves the destructor without a stream, and so without a barrier
(245); calls during the destructor rebuild the stream. That a stream itself is
released only behind its callbacks does not need `Careful` (`StreamAlive`). A
`rebuildStream` that fails in `removeWatch` waits for nothing, so the callback
under way may still call the listener of the watch that was removed (372-376,
`unawaited`). A rebuild starts the new stream before it stops the old one
(219, 227-229), as `README.md:132-135` of the repository says; what the old one had not delivered
is dropped when it is invalidated, which is not modelled. The condition for
`MacSanitizeEvents` is inverted (`WatcherFSEvents.cpp:56`, `efsw.hpp:154-158`).
Chains of renames, or a rename and a deletion, merged before delivery leave
entries that are not there; in `FSEventsView` a rename finds the queue empty and
nothing else happens before it is handled.

*kqueue*. `removeFile` moves the end of the change list into the gap and does not
sort it (253-258), and `bsearch` then misses entries. Of three files the first
and the last are deleted before one pass: when the first is taken out the last
is in front, it is not found, and `removeFile` returns without the event (231).
`watch` has taken the file out of the snapshot before (403), so its Delete is
never sent, although `efsw.hpp:80` has a Delete for every file that is deleted.
The entry stays under its name (`Stale`), keeps the next file of that name from
being found, and turns its changes into events of the name. A file moved over another in the middle
of a pass is Modified and Delete. A file written and moved before the pass gives
an empty info, and Modified, Delete, Add (406-419). Notes are one-shot and
registered anew each pass, so what happens in between is seen only by a listing.
A directory renamed after its time has changed is Delete and Add (unless the
tree is listed again for moves), and its watcher stays behind and reports its
files, and its own changes (270-272), under the old name. A deleted directory's
watcher is looked for without the slash its path ends with (311) and stays; the
next directory of that name is not watched (`LeftBehind`, `Shadowed`). The
destructor's loop stops one short (73-83). An error return leaves
`mAddingWatcher` set (`FileWatcherKqueue.cpp:114`), and `addAll` runs beside the
worker (94).

## 4. Proofs

Eight modules have theorems. Each holds for every value of the constants
that satisfies the assumption of the module: `LifetimeAssumption`,
`TreeAssumption`, `AgentAssumption`, `WatchAssumption`, `Win32Assumption`,
`StreamAssumption`. They say that bounds are numbers, options Boolean (in
`InotifyTree`, settings of their form), ids of the agent finitely many numbers,
and that the names of threads and the values that stand for none are different.

| Module | Theorem | Statement |
|---|---|---|
| `InotifyLifetimeProofs` | `TypeCorrect` | `Spec => []TypeOK` |
| | `RetainedNotFreed` | `Spec => []RetainedAlive` |
| | `OneOwner` | `Spec => []SingleOwner` |
| | `RealWatchesCorrect` | `Spec => []RealWatchesAgree` |
| `InotifyTreeProofs` | `TreeTypes` | `Spec => []TypeOK` |
| | `EveryMarkOwned` | `Spec => []MarksOwned` |
| `AgentProofs` | `AgentTypes` | `Spec => []TypeOK` |
| | `AgentMapsAgree` | `Spec => []MapsAgree` |
| | `AgentLosesNoChange` | `Spec => []NoChangeLost` |
| | `AgentStaysSilent` | `Spec => NoEventAfterUnwatch` |
| `AgentChannelProofs` | `AgentIsChannel` | `Spec => ChannelSpec` |
| `GenericWatchProofs` | `WatchTypes` | `Spec => []TypeOK` |
| | `ScannedStays` | `Spec => []ScanAlive` |
| | `ListenersLive` | `Spec => []ListenersOwned` |
| `Win32WatchProofs` | `Win32Types` | `Spec => []TypeOK` |
| | `NoWriteAfterFree` | `Spec => []IoMemory` |
| `FSEventsStreamProofs` | `StreamTypes` | `Spec => []TypeOK` |
| | `RemovedStaysSilent` | `Spec => []SilentAfterRemove` |
| | `EveryWatchStreamed` | `Spec => []CoveredByStream` |
| | `StreamsOutliveCallbacks` | `Spec => []StreamAlive` |

Every module has an `IInv` that `Init` implies and `[Next]_vars` keeps, with
a lemma for each action or group of actions, and the theorems follow from it.
What each `IInv` adds to the property, and why, is the argument.

### InotifyLifetime

`RetainedAlive` alone is not inductive: it says nothing of why a pointer stays
good. `IInv` adds, each as a named part:

- `LockInv`: whoever is inside `addWatch` or `handleAction` owns `mInitLock`.
- `LifeInv`: in shutdown no client is inside, and the worker has left before
  anything is destroyed.
- `WorkerInv`: the worker's pointers are to objects of `mWatches` or
  `mDeletedWatches`, and between batches it has none. This is what allows it
  to free `mDeletedWatches` there.
- `ClientInv`: what a client inside `addWatch` holds is in `mWatches`, and
  the `Parent` of each frame's object is an earlier frame. The worker frees
  without `mInitLock`, so `mDeletedWatches` would not do; but a removal needs
  `mInitLock`, which the client has. The one removal `addWatch` itself
  makes, of the object whose descriptor was reused and of all below it, reaches
  the frames only if that object is one of them, and then the client is in
  `revisits`; `ClientInv` is about the others.
- `TableInv`: every object sits under its own descriptor, and the slot of a
  descriptor that is being registered is empty. `SingleOwner` and
  `RealWatchesAgree` follow.

### InotifyTree

`MarksOwned` holds for every `setting`, so also for the races that break the
views. `Owned` says that live objects have different descriptors, that marks
are of different descriptors, that a descriptor never exceeds the index of its
object (so the next one is new), and that a marked directory has a live object
or is the one `addWatch` is about to register. For the removals `LockInv` is
needed: an `addWatch` in progress has `mInitLock`, so no object disappears
between the mark and its registration.

### Agent

`IInv` has 24 parts, in four groups:

- types, and which requests and replies go with each place of the threads
  (`RequestInv`, `WriterInv`);
- the maps against the FileWatchers (`MapInv`, `PendingMapInv`, `ActiveInv`,
  `PathInv`), from which `MapsAgree` follows between requests;
- every event, native, in a callback or queued, is of the directory its watch
  stands for (`RawInv`, `CallbackInv`, `PendingInv`), and the pipe, the
  writer's hands and the queue taken as one sequence, `Sent`, in which an id
  has at most one reply to a WATCH, no batch if that is an error, and
  nothing but missed events behind UNWATCH_OK (`ReplyInv`, `OkInv`, `ErrorInv`,
  `LeavingInv`, `BatchInv`);
- what the properties need, with `KnownInv` on what a client may know.
  `EndedInv` and `TakenInv`: when UNWATCH_OK is queued the watch is in no map
  and never again, `discard` has dropped what a late callback pushed, and
  what the writer took before goes out before. `ComingInv`: a
  change that a watching client does not know, or a missed event in its place,
  is among the native events, in a callback, pending, or in `Sent`.

`AgentChannelProofs` takes the steps again: under `IInv`, each is a step of
`Channel!Next` or leaves the mapped variables alone. The work is in *pending*,
the requests of the replies in `Sent`: replies are picked out of the sequence
(`Kept`), and lemmas say what that does when a frame is added behind, taken in
front or moved from queue to writer to pipe.

### GenericWatch

`mWatchesLock` is held exactly between `lockWatches` and `endPass`, and every
change of the list of a handle not yet destroyed needs it: iterator and current
watch stay (`ScanInv`, `EraseInv`). The registry is shared by all handles, but
the entries of a handle are made and removed by its own calls only
(`RegistryInv`), so what `find_callback` said still holds when `newCallback`
acts on it (`AddInv`, `OwnedInv`).

### Win32Watch

What the system owes for a watch is in one place: an outstanding read, one
packet of the port, or the worker that took it (`OnePlace`). `IoPending`
tells whether it is owed (`FlagInv`), except while the worker unpacks entries
with the flag clear. An object is freed by the worker before it waits, and by
the destructor when the worker has ended, so never in that gap
(`WorkerOK`, `NothingDue`). `Memory(x, q, w)` is stated of any objects, port
and worker, so that the effect of each step on it is a lemma of its own.

### FSEventsStream

A stopped stream has one keeper, a thread in a call or one block of the queue
(`KeeperInv`). A thread waits with a barrier behind every callback of the
stream; a block is behind them itself; no callback is queued for a stopped
stream (`OrderInv`). So none is left when the keeper releases it. A
barrier runs when no callback does, and the next callback copies `mWatches`,
where a removed watch is not; a removal without a barrier puts the watch among
the `unawaited`, until the callback under way returns (`SilentInv`).
`StreamAlive` needs no assumption about listeners. That the object itself outlives
the callbacks (`ObjectAlive`) holds with `Careful` only and is left to TLC.

### Only model-checked, and why

- Liveness (`Reclaimed`, `CallsReturn`, `Exits`, `EventuallyKnown`,
  `EventuallyCovered`): fairness and ENABLED are out of the prover's reach.
- What recursive definitions compute for every input takes an induction over
  data, which is out of its reach too: `Decoded` and `Decode8` of `Utf`, and so
  `AsSent` and `NothingKept`; `LoopsEnd` and `Covered`, which follow chains of
  watches or links.
- `FilesWatched` and `NoDelete` of `KqueueWatch`: a watcher's part of a pass is a
  fold over sorted listings, so they take an induction over data as well.
- `ObjectAlive` of `FSEventsStream`, which is true under `Careful` only.
- The views: `ViewIsTree` and `AllCovered` of `InotifyTree`, `GenericScan`,
  `KqueueWatch`, `Win32Watch` and `FSEventsView`, and `OneMove`; `RemovedAll` of
  `InotifyTree`. They hold under restrictions on what races (section 3), and an
  inductive invariant would have to relate every set of events that can be queued
  to the tree that made it.
- `NothingLeft` of `WatchRoots` has no proof yet.

## 5. Plan

Done: the inotify backend; the agent, the wire protocol, `WatchChannel` and the
refinement; links and overlapping watches on three backends; the generic,
Windows, FSEvents and kqueue backends; the theorems of section 4.

Next: `NothingLeft` of `WatchRoots`, then an invariant for `RemovedAll` that says
which events of a batch can still name a removed directory.

## 6. Not modelled, and why

- `directories()` only reads. Its race with `removeWatchLocked` (607) is listed
  as a hazard.
- FSEvents on systems without file events, where a
  `WatcherGeneric` is scanned through `watchDir` and `findDirWatcher`.
- `LastModifiedEvent`, which drops a Modified on Windows that repeats the name,
  time and size of the last: no view depends on it.
- The client's calls against kqueue's worker: `addAll` runs unlocked beside it
  (`FileWatcherKqueue.cpp:94`). The outcome is a data race, and a model would
  say no more than that.
- Hard links, permissions, case-insensitive and composed names, and changes of
  the tree while `WatchRoots` visits it.
- The options of the C interface and the text of the last error are data that
  is passed on.
- Threads, mutexes and atomics are thin wrappers of the standard library; each
  model has the mutexes it needs as variables. Logging does nothing that
  matters here. Most of the class `String` is not used.
- The tests, test programs and build files are not part of the running system.
