# aMule: a TLA+ verification project

aMule downloads and shares files over the eD2k and Kademlia networks.  This
project models the part of it on which a user's data depend and in which most
of its concurrency lies: how a download receives blocks, writes and verifies
them on background threads, completes, survives a restart, and shuts down; how
the connection to a server is found and kept; and how uploads get their slots
and are fed by the disk thread.

`PROJECT.json` lists, for each definition, the source lines it models; the runs
and their mutants; the hazards; the findings; and the theorems.

## 1. The system

One main thread runs the event loop: sockets, timers, GUI or daemon commands.
Background threads get work through queues with a mutex and answer with posted
events or with atomic counters the main thread polls.

| Component | State | Operations | Interacts with | Hard behaviour |
|---|---|---|---|---|
| Task scheduler (`ThreadScheduler.cpp`) | deque of tasks, set of task keys, current task, worker thread | AddTask, Start, Terminate, GetPendingCount, worker loop, OnLastTask | all tasks; the destructor joins the worker | lock released while a task runs; thread ends when the deque is empty |
| Gap list (`GapList.cpp`) | map end -> start of gaps, completeness of each part, total size | AddGap, FillGap, IsComplete, GetGapSize | part file only | iterator over a map that changes, inclusive ends, caches |
| Part file (`PartFile.cpp`) | gap list, buffer of received blocks, dirty bits, corrupted parts, status, two counters, handle | WriteToBuffer, FlushBuffer, hash results, CompleteFile, pause, stop, resume, Delete, destructor | write thread, hash thread, scheduler, download queue | counters lowered by other threads; results that come late; shutdown |
| Write thread (`PartFileWriteThread.cpp`) | queue, batch, run flag | FlushAt, DropReferencesTo, EndThread | part file's items and handle | batch taken outside the lock |
| Hash thread (`PartFileHashThread.cpp`) | queue, batch, run flag | QueueHashCheck, HashSinglePart, EndThread | posts results to the main thread | results are dropped after shutdown began |
| Download metadata (`PartFile.cpp`, `DownloadQueue.cpp`) | `NNN.part`, `.part.met`, `.met.tmp`, `.met.bak` | CreatePartFile, SavePartFile, Delete, LoadMetFiles | the file system | a crash between any two file operations |
| Server connection (`ServerConnect.cpp`, `ServerSocket.cpp`, `ServerList.cpp`) | attempts keyed by tick, open sockets, connected socket, list cursor, retry timer | connect to one or any server, lookup done, established, failed, timeout, disconnect, remove server | server list, sockets, lookup threads | callbacks that end the sweep they are called from; late lookups and failures |
| Upload queue and its disk thread (`UploadQueue.cpp`, `UploadDiskIOThread.cpp`) | waiting list, uploading list, upload state of each client, blocks asked for and read | request, next client, kick, remove, suspend, ban, disconnect, delete, Process; walk, read, send | client sockets, shared files, part files | two threads on one list, LowID slots, a state kept in two places |
| Sources (`DownloadClient.cpp`, `BaseClient.cpp`) | download state of each source, A4AF lists | connect, ask, queue, swap | sockets, part files | swaps during callbacks |
| Kademlia | routing zones, searches | lookup, publish | UDP | lost and late answers |
| Shared and known files, EC, web API, search, friends, IP filter, AICH, GUI | tables | look-ups and edits | main thread | mostly sequential |

What makes the modelled components correct:

* scheduler: a key is held exactly while its task waits or runs; an accepted
  task runs; nothing runs after Terminate();
* gap list: it is a set of missing bytes, whatever its loops do;
* part file: no received byte is lost, no wrong byte is called right, exactly
  one completion is started, no thread uses a closed handle, shutdown ends;
* metadata: a saved download is found again after a crash;
* server connection: connected means a live socket and no try beside it; no
  socket, attempt or iterator outlives its use; a failure is charged to the
  socket and the server it belongs to; the search for a server goes on;
* upload queue: a client is in one list at most and its state says which; one
  slot above the limit at most; a waiting client is not dropped; the disk thread
  never uses a socket that was freed.

## 2. Modules

| Module | Models |
|---|---|
| `ThreadScheduler` | `CThreadScheduler`; one action per critical section |
| `ThreadSchedulerProofs` | theorems about it |
| `MissingBytes` | what the gap list promises: a set of missing bytes |
| `GapList` | `CGapList`; one action per turn of a loop |
| `GapListProofs` | its refinement of `MissingBytes` and its invariants |
| `PartFile` | one `CPartFile` with write thread, hash thread, the scheduler's worker, user and shutdown |
| `PartFileThreadProofs` | theorems about its threads, counters and types |
| `PartFileProofs` | theorems about its bytes, its completion and its shutdown |
| `PartMet` | the files of the temp directory under saves, deletions and crashes |
| `PartMetProofs` | theorems about it |
| `ServerConnect` | `CServerConnect` with its sockets and the server list |
| `ServerConnectProofs` | theorems about it |
| `UploadQueue` | `CUploadQueue`, `CUploadDiskIOThread` and the connections of the clients |
| `UploadQueueProofs` | theorems about it |
| `ListOps` | the list operators these models share: the elements of a list in a set, the place of an element |
| `ListLemmas` | what those operators, and some of SequencesExt, compute: least elements, filters and their counts, removal, positions |
| `MCx` | the instance of module `x` that TLC checks |

**ThreadScheduler.** The deque is the set of waiting tasks with their ages: it
is sorted whenever it was modified, so its front is the least task by priority
and age.  `pc` follows the worker through `Entry()`: test for the stop flag,
take the front under the lock (`WorkerPick`), run it without the lock
(`WorkerRun`), leave the duplicate set under the lock (`WorkerFinish`), call
`OnLastTask` if it was the last of its type, and end.  `Terminate` is three
actions, because the destructor sets the stop flag and joins outside the lock.
Creating a thread may fail (`MaxCreateErrors`).

**GapList.** A gap is an entry `end -> start` as in the code.  An iterator is a
position, the first gap ending at or after it, which is what `std::map`
guarantees when other entries are erased.  `AddGap` and `FillGap` are a first
action (arguments clipped, caches reset, `lower_bound`) and one action per turn;
the case the code marks as one that should not happen has no action, so it
would show as a deadlock, which TLC looks for in this run.

**PartFile.** Bytes are blocks, each `none`, `good` or `bad` on disk.  A part
hashes right when all its blocks are good.  `FlushBuffer`, the one long
operation of the main thread, is split at each read of something other threads
write: queueing, harvesting the items one by one, the length check, queueing
writes, the gate on `m_iWrites`, the sweep over the items, the tail that starts
completion.  The write thread has separate steps for the write, the decrement of
`m_iWrites` and the mark on the item, since the code orders them so; the hash
thread for hash, event and decrement.  Events reach the main thread in the order
they were posted.  The disk may fail at every operation that can throw
(`MaxErrors`).  `ShutDown` and the actions after it follow `~CamuleApp`: end and
join the hash thread, then the write thread, then the destructor of the file.
Four history variables record known exceptions: `late`, a corrupt result
handled while the full hash runs, `cleared`, dirty bits dropped because a full
hash was expected, `outdated`, a result of an earlier state of a part that closed
the part's gaps, and `forced`, a completion by resume after an error.

**PartMet.** A `.met` is the download it describes, a version and whether it is
whole.  A save is: open the `.tmp`, write it, check it, rename the live file to
`.bak`, rename the `.tmp`.  A crash is the death of the process between any two
of these; what was written stays, so it is not a power failure.  Deletion
removes the three files one after the other.  `LoadMetFiles` reads every number
with a `.part.met`, and the `.bak` only where the code does.

**ServerConnect.** Everything runs on the main thread, but methods call each
other back: a filtered address fails inside `ConnectToServer`, whose failure
starts the next attempt before the first one is in the map.  The stack of calls
still to be made is the variable `todo`; an action runs the code of a method up
to its next such call, and events (sockets, lookups, timers, user) are handled
when the stack is empty.  The map of attempts, keyed by milliseconds, is the
sequence of its values in the order of the keys, with `lastKey` the entry of the
present millisecond, which the next insertion may overwrite.  `it` is the
iterator of `CheckForTimeout`; it is `Dangling` when its entry is erased.
`IsSolving` of a freed socket is either value.  `ConnectionFailed` is one action
per case of its switch; `FailedIgnored` is the early return together with the
`break`s taken when no try is under way, where the connected socket is only
marked and its server blamed.

**UploadQueue.** A handler of the main thread is an operator from a record of the
state to a record of the state, composed as the code composes its calls, and one
step; `lock` in the record says whether it needs the mutex of the uploading
list, which blocks the step while the disk thread holds it.  `Process` takes a
step per client, and a disconnection that deletes the client two, since the
socket is given up before the mutex is asked for.  The disk thread has a step for
the lock, each client of the walk, its reads, the unlock, the look-up of a
finished read and its sending.  The loops that purge the waiting list and suspend the clients of a
file are recursive functions over the list, since each turn works on what the
turn before has left.  Scores are any order of the clients; banned
clients and those of a suspended file have score 0, as in the code.  A socket is
freed by an event of its own after it was destroyed (`FreeSocket`).

The gap list of `PartFile` is the set of missing blocks, which `GapList` is
proved to implement.  The scheduler of `PartFile` is the sequence of the file's
own tasks, of which at most one exists at a time (`SingleCompletion`); the
scheduler's model shows that such a task is run unless it is added in the window
of finding 1.

## 3. Runs

Passing:

| Run | Instance | Shows |
|---|---|---|
| `scheduler` | five tasks, two with one key, one added by `OnLastTask`, two failing thread creations | the queue, the duplicate set, the pending count and Terminate are consistent; a task waiting while the worker loops is run; Terminate returns |
| `partfile_safety` | two parts (two blocks and one), four receptions, two of them bad, pause, resume, shutdown | one completion at a time; handle open while threads use it, and corruption found, but for the two exceptions; what is saved at shutdown |
| `partfile_faults` | the same file, three receptions, one bad, one failing disk operation anywhere, all user commands | counters are exact; every byte called present is on disk or in the buffer; only a whole file is moved, unless a resume forced it; a deleted file is out of every queue |
| `partfile_live` | three receptions, one bad, shutdown | a full gap list ends in completion or in a reopened part; shutdown ends |
| `partmet` | two downloads, two numbers, versions up to 3, two crashes, two failing writes, two failing renames | no partial `.met`; what was saved is what is loaded; an installed copy survives |
| `gaplist` | seven bytes in parts of three | refinement of `MissingBytes`, gaps apart, caches and sizes right, and no deadlock |
| `serverconnect` | three servers (one with obfuscation, one known by name, one filtered), two attempts at a time, connect to any or to the named one and disconnect by the user | `connected` is a live socket; attempts, sockets, cursor and iterator valid in every nesting of the callbacks; blame, disconnection and the end of a single try are caused by the right socket; the search goes on |
| `serverconnect_live` | two servers, obfuscation asked for (so that there is a second pass), cancel and removal of servers by the user | every try ends |
| `upload` | a HighID client, a LowID client and a source, one slot, a queue of two, two upsets (lost connections, bans, disk errors, file suspended or deleted, aged requests, reconnections) | lists, states and block queues agree; one extra slot; iterator and sockets outlive their use; a waiting client keeps its place; no deadlock |

Why the bounds are enough.  Two parts are needed for one part's result to
interfere with another part, two blocks in one part for a partly written part;
a fourth reception lets a part found corrupt be downloaded again.  One disk
error at any of the operations is every single fault; `partmet` has two of each
kind because a second fault in the save after a restart is the interesting case.
Two downloads and two numbers suffice for a number to be reused.  Seven bytes
give a first, a middle and a shorter last part, and up to four gaps.  Three
servers and two simultaneous attempts are the smallest sweep in which a timeout,
a failure and a success of three sockets meet; six socket objects let the ones of
an earlier try still be around.  One slot, a queue of two and three clients make
every client compete, and two upsets allow the sequences of ban, disconnection
and return that the exceptions below need; the invariant of the proof was also
checked with three upsets.  That of `ServerConnect` was also checked with
obfuscation asked for and two servers connected to by name, of which one is
filtered.  `ThreadScheduler`, `PartFile` and
`PartMet` stop at their bounds, so their runs do not check deadlock; progress is
what the liveness properties are for.

Violations.  Each checks what a comment of the code says, and TLC shows the
behaviour that contradicts it:

1. `scheduler_wakeup` (`AcceptedTaskRuns`): a task added after the worker has
   seen the empty deque and before its thread ends finds the thread alive; no
   thread is created and the task waits for the next AddTask.
2. `partfile_late` (`CompleteMeansVerified`): a corrupt part result handled
   during the full hash reopens the part; the full hash counts mismatches only
   in complete parts, so the file completes with a gap.
3. `partmet_restart` (`RestartLoadsSaved`): a crash between the two renames
   leaves `.bak` and `.tmp` and no `.part.met`; the scan looks for `.part.met`
   only, and the download is not loaded.

Exceptions in the passing properties, each reachable in the model.  Of the
part file and its metadata:

* `HandleOpenUnlessLate`: after the late result of finding 2 the flushes inside
  `CompleteFile(true)` enqueue parts that are still dirty, and
  `PerformFileComplete` closes the handle while the hash thread reads it.
* `CorruptionTrackedUnlessCleared`: once the gap list is complete all dirty bits
  are cleared; if a pending result then reopens one part, the other parts count
  as verified until the file is complete again.
* `CorruptionTrackedUnlessCleared` and `ShutdownVerifies` also except `outdated`.
  A hash result says nothing of what was received after the hash: when results
  of older states of a part are still on their way, `OnAsyncHashComplete` in the
  ICH branch (`PartFile.cpp:3758`) takes an ok one for the part's present data,
  fills the gaps a bad one had opened, and trusts the part.  It takes five
  receptions, two of them bad, and 69 steps, so the bound of four receptions does
  not reach it; the proof does not go through without the exception, and a TLC
  run with the larger bound showed the behaviour.
* `SingleCompletion` is checked, and proved, without failing disk operations: if
  a flush meets a full disk while the full hash runs, the file is in PS_ERROR and
  `ResumeFile` calls `CompleteFile(true)` beside the running hash.
* `ShutdownVerifies` needs `errors = 0`: with a full disk or a failed last write
  the destructor drops what is left in the buffer, and the saved gap list calls
  those bytes present.
* `OwnPartIfSaved` needs that no save fails: when the first save of a download
  failed, its number looks free to the next one.
* `SavedVersionSurvives` needs that no rename fails: SavePartFile does not look
  at the result.
* `CompletionResolves` is checked without failing disk operations: a full disk
  stops the file until the user acts, and a full hash that cannot read the file
  posts no event, so the file stays in PS_COMPLETING.
* `CompletionHasAllBytes` excepts a completion forced by `ResumeFile`: PS_ERROR
  with a complete gap list is also reached by a disk error while writes are in
  flight (`PartFile.cpp:3528`), and the file is then moved unhashed and not
  fully written, though `PartFile.cpp:2874` says "The file has already been
  hashed at this point".
* `ShutdownVerifies` is about dirty parts: a part in the hash queue when shutdown
  begins is hashed, its result is dropped (`amule.cpp:2199`), and a corrupt part
  is saved as complete.
* `DeletedIsForgotten` leaves out the batch the write thread has already taken,
  which `DropReferencesTo` does not strip, and a full hash that is running: both
  still refer to the freed file.

Of the server connection:

* `DestroyedLeavesAttempts`: a login refused with ID 0 while connecting destroys
  the socket and leaves it in the map of attempts, where it blocks a place until
  it times out, although `ServerSocket.cpp:345` says that "the next retry starts
  immediately"; a packet that cannot be parsed leaves the attempt too.
* `NothingLeftOpen` excepts marked sockets: after `OnError` or a bad packet
  `ConnectionFailed` marks the socket because "it will delete itself after this
  function" (`ServerConnect.cpp:413`), which nobody does until the peer closes.
  `OwnFailureEndsSingle` excepts the same sockets: closing later, one of them
  may end the user's single try.
* `TryEnds` excepts a lookup thread that could not be started, and the freed
  attempt of the first exception, whose memory decides whether it times out.
* A filtered server's socket is destroyed inside `ConnectToServer` and then put
  into the map; an attempt of the same millisecond overwrites another one
  (`NothingLeftOpen` shows that its socket is closed with the try); a single try
  that times out goes on as a sweep without the single flag being cleared;
  the test of `RemoveServer` against the current server never holds, since the
  socket has a copy of the server.

Of the upload queue:

* `ListsAgree` excepts clients banned in their slot: `Ban()` changes
  the state and leaves the client in the uploading list, although
  `UploadClient.cpp:637` says it "still loses its slot"; when we then download
  from it, it no longer counts as banned and may also enter the waiting list.
* `SocketOutlivesUse` excepts these clients and those that connect again: neither
  `Disconnected` of such a client nor `AttachToAlreadyKnown` takes the mutex on
  which the comments at `UploadDiskIOThread.cpp:175` and `:351` rely.
* `KeepsItsPlace` excepts a LowID client of a suspended file: it is removed from
  the waiting list before `AddUpNextClient` refuses it.
* The model also shows, outside any property: a client of a suspended file at
  the head of the queue gets a slot; a banned client that leaves the waiting
  list is unbanned, also when it is deleted after a disconnection; an I/O error
  of an earlier upload throws out a client that is still connecting; blocks read
  in one upload of a client may be sent in its next.

Fairness.  `ThreadScheduler`: weak fairness of the worker, a thread that blocks
only inside a task, and of a Terminate that has begun.  `PartFile`: weak
fairness of the three threads, which wait only for work, and of a handler the
main thread is in; strong fairness of `Process`, called from a timer, and of the
events, because both are served by one loop that alternates between them and
what else the main thread does, so each is enabled again and again but not
continuously.  `ServerConnect`: weak fairness of the calls of a handler that has
begun; strong fairness of the core timer, and of a tick that finds the attempts
past their time, and of the lookups, which the system's resolver ends: both come
again and again between other events.  No server has to answer.  Nothing makes
data arrive or a user act.

## 4. Proofs

TLAPS proves the following for every value of the constants that satisfies the
module's named assumption (`SchedulerConstants`, `GapListConstants`,
`PartMetConstants`, `PartFileConstants`, `UploadConstants`,
`ServerConnectConstants`: the types of the constants, positive sizes, null values
distinct from real ones, a file of more than one part, a server list without
repetitions).  The bounds that keep TLC's instances finite (receptions, errors,
upsets, sockets) are among the constants, so the theorems hold for any number of
these.  Every inductive invariant was an invariant of a TLC run before it was
proved.

* `ThreadSchedulerProofs`: `SchedulerTypes`, `NoDuplicateTasks`, `FrontExists`,
  `TerminateIsFinal`, `PendingIsCounted`.  `SchedulerInv` adds to the properties
  what the worker's position says about the task it holds (`WorkerHolds`),
  without which the running task's key could not be told from a stray one, and
  the life of the global instance (`SchedulerLifecycle`), without which a task
  could be added behind Terminate.  The count is right because the key of a task
  is a bijection between the pending tasks and the duplicate set.
* `GapListProofs`: `GapListRefinement`, `GapsStayApart`, `PartCacheStaysRight`,
  `GapSizesAreExact`.  A call takes effect, in the mapping, when it is made:
  `Missing` is the listed bytes with the range of a running call added or taken
  away, so the calls map to its `AddRange` and `FillRange`, the ends of the loops
  to its `Return` and the turns before to stuttering: a loop that lost or added a
  byte would be a step `MissingBytes` does not allow.  The invariant `GapListInv`
  adds `Passed`: the gaps the iterator has passed lie before the range, clear of
  it.  Arithmetic on parts (`Division`, `PartRange`, `InvolvedMeets`) is in lemmas
  of its own.  That a sum over the map is the number of bytes (`SumOfGaps`) is by
  the least position at which it would not be.
* `PartMetProofs`: `MetAlwaysWhole`, `CopySurvives`, `SavesAreKept`,
  `NumbersAreOwn`.  `PartMetInv` adds that a `.met` under a number describes a
  download that was given this number and is not deleted (`CopiesAtHome`), which
  is why a save can push out only a copy of a download sharing its number, and
  what holds at each step of a save or a deletion (`Saving`).  `SavedInv` says
  that what is about to be installed is not older than what was saved,
  `NumbersInv` that the number of a download in memory is taken on the disk.
* `PartFileThreadProofs`: `TypeCorrect`, `CountersAreExact`,
  `DeletedStaysForgotten`.  `ThreadsInv` says where the main thread, the write
  thread and the hash thread may be at the same time while the program runs and
  shuts down, which items are in which of their lists, and that the flags of the
  items agree with that.  A pending item is in the write thread's queue or batch
  exactly once, which is what makes the two counters exact although three
  threads change them.
* `PartFileProofs`: `BytesAreAccounted`, `CompletionFindsAllBytes`,
  `ShutdownWritesAll` from `BytesInv`: a block without a gap is on disk or in the
  buffer, what was reported written is on disk, and what a failed operation alone
  can bring about has not happened while `errors` is 0.  `CompletionIsSingle`,
  `ThreadsFindHandleOpen`, `CompleteFilesAreVerified`, `CorruptionIsTracked`,
  `ShutdownVerifiesRest` from `OutcomeInv`: one full hash or completion exists at
  a time and only in PS_COMPLETING (`OnceInv`); while a file completes, nothing
  is buffered, in flight or to be hashed (`SealedInv`), so its handle may be
  closed (`HandleInv`) and what the full hash found right stays right
  (`GoodInv`); a complete part with wrong data is dirty, has a hash job that has
  not read it yet, or a bad result on the way (`TrackInv`).
* `UploadQueueProofs`: `UploadTypeCorrect`, `ListsStayAgreed`,
  `ExtraSlotIsSingle`, `IteratorStaysValid`, `SocketStaysWhileUsed`,
  `PlacesAreKept`.  `UploadInv` is a predicate of the record a handler works on
  (`Sound`, `SlotsKept`, `Held`), so each operator has one lemma that it keeps
  the predicate and a handler's lemma composes them.  `Held` is the point of the mutex: a handler that did not
  ask for it has left the uploading list and the disk thread's client alone.
  The invariant also says of a banned client that is no source that it has one
  place at most, without which a ban in the slot could bring a client into
  both lists for good.  `PlacesAreKept`, the action property, also needs that
  only a LowID client is ever marked to be added next (`NextLow`), because
  the marking stops at the first client that can be contacted; for each
  operator a lemma says whom it takes off the waiting list and why.
* `ServerConnectProofs`: `ServerTypeCorrect`, `TriesLeaveNothingOpen`,
  `SearchNeverStops`, `LateFailuresAreIgnored`, `BlameIsFounded` from `CoreInv`:
  which calls may be on the stack (`StackInv`, `CallsInv`), what the flags say of
  each other in the middle of a handler, and which sockets are open when no try
  is under way.  `ConnectionStaysLive`, `LoopIteratorStaysValid`,
  `DestroyedFreesItsSlot` from `ReuseInv`: the connected socket is whole until
  its failure is handled (`LiveInv`), a lookup belongs to a socket that waits for
  it (`LookupInv`), a socket is an attempt once and only after its insertion
  (`OneAttempt`, `InsertInv`), and while the timeout loop is on the stack only a
  socket that is not yet an attempt fails (`ScanInv`), so nothing erases the
  iterator's entry.  These three are proved for `~AddressReuse`: with
  `AddressReuse` TLC finds `ConnectedIsLive` and `DestroyedLeavesAttempts`
  violated, because a stale attempt or a late lookup is then taken for the new
  socket at the same address.

Induction over data.  What a recursive function computes for every input is
proved where the proofs need it, by the least counterexample (`LeastNat` in
`ListLemmas`): the filter of a list and its counts, the sum of gap sizes, the
loops over the waiting list.

Only model-checked: all liveness properties (`TaskSeenByWorkerRuns`,
`TerminateReturns`, `CompletionResolves`, `ShutdownEnds`, `TryEnds`), since TLAPS
does not do fairness; and the action property `OwnFailureEndsSingle`, whose
invariant is larger than the ones above (section 6).

## 5. Not modelled, and why

* In the modelled components: the content of messages and of the `.met` file;
  AICH recovery and a missing hash set (the model's file has neither); choice of
  blocks and source lists; the hourly release of stopped files; reload with
  rehash of changed part files; `EndThread` before a thread first ran; power
  failure, as opposed to the death of the process; wrap-around of 64-bit
  offsets, which the 256 GB limit on file sizes excludes.
* In `ServerConnect`: UDP pings, the traffic of an established connection, a
  sort of the list by preference, the ID checks that reconnect, a disabled
  network and an IP filter that is not loaded yet.  The address of a destroyed
  socket is not given to a new one while an attempt or a lookup refers to it
  (`AddressReuse`), so a late lookup is never taken for a new socket's.
* In `UploadQueue`: clients with the same hash or address, a client that changes
  its file, friend and release slots, the expiry of bans, the wake-up flags of
  the disk thread and its end, packet building.
* Whole components are listed in `PROJECT.json` with the reason: byte-level
  protocol code, wrappers of external libraries, presentation, or planned below.

## 6. Plan

Done: the scheduler, the gap list, the part file and its threads, the metadata,
the server connection, the upload queue with its disk thread.  Next:

1. Proofs: `OwnFailureEndsSingle` of `ServerConnect`, which needs which open
   socket may still be marked, and in which state, while a single try is under
   way; that the scheduler implements an abstract set of pending keys.
2. `PartFile` across a restart: reload from what `PartMet` keeps and rehash of
   changed files, composed from the two modules; a disk error in the full hash.
3. Sources and A4AF in `DownloadQueue`; one Kademlia lookup over lossy messages;
   the EC response cache; AICH recovery as an algorithm checked by TLC.

Abstract specifications worth stating: for the scheduler a set of pending keys,
for `PartFile` a file whose blocks only go from missing to buffered to written
to verified and back to missing.
