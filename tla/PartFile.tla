------------------------------ MODULE PartFile ------------------------------
(***************************************************************************)
(* The life of one download, CPartFile (src/src/PartFile.cpp), with the    *)
(* three threads that work for it: CPartFileWriteThread writes buffered    *)
(* blocks, CPartFileHashThread verifies finished parts, and a scheduler    *)
(* worker runs CHashingTask (the full hash) and CCompletionTask.  The main *)
(* thread receives blocks, flushes the buffer, handles the events the      *)
(* threads post and the user's commands.                                   *)
(*                                                                         *)
(* Bytes are abstracted to blocks: what is on the disk for a block is      *)
(* nothing, the right data or wrong data, and a part hash is right when    *)
(* every block of the part is.  FlushBuffer is the one long operation of   *)
(* the main thread: it reads the flags and counters that the threads       *)
(* write, so it is split at each such read.  Everything that only the main *)
(* thread touches between two reads belongs to one step.                   *)
(*                                                                         *)
(* The file has more than one part and a complete hashset, and no trusted  *)
(* AICH hashset (RequestAICHRecovery does nothing then).                   *)
(***************************************************************************)
EXTENDS Naturals, Sequences, FiniteSets, SequencesExt, ListOps

CONSTANTS
  NParts,        \* parts of the file
  NBlocks,       \* blocks of the file
  PartOf,        \* [1..NBlocks -> 1..NParts], non-decreasing
  ICH,           \* thePrefs::IsICHEnabled()
  MaxReceives,   \* bound: blocks received
  MaxBad,        \* bound: received blocks with wrong data
  MaxErrors,     \* bound: failing disk operations
  UserActs,      \* the user's commands of this instance
  Quits          \* may the program be shut down?

Parts  == 1..NParts
Blocks == 1..NBlocks
Ids    == 1..MaxReceives

ASSUME PartFileConstants ==
  /\ NParts \in Nat \ {0, 1}
  /\ NBlocks \in Nat \ {0}
  /\ PartOf \in [Blocks -> Parts]
  /\ \A p \in Parts : \E b \in Blocks : PartOf[b] = p
  /\ \A b, c \in Blocks : b <= c => PartOf[b] <= PartOf[c]
  /\ ICH \in BOOLEAN
  /\ MaxReceives \in Nat /\ MaxBad \in Nat /\ MaxErrors \in Nat
  /\ UserActs \subseteq {"pause", "stop", "resume", "delete"}
  /\ Quits \in BOOLEAN

VARIABLES
  gaps,             \* m_gaplist: the blocks missing
  disk,             \* what the .part file holds for each block
  m_aChangedPart,   \* parts written since they were last hashed
  m_corrupted_list, \* parts that failed their hash
  status,           \* the PS_ status, without pause
  m_paused, m_insufficient,
  sources,          \* is some source in state DS_DOWNLOADING?
  handle,           \* m_hpartfile.IsOpened()
  item,             \* every PartFileBufferedData ever allocated
  m_BufferedData_list,
  m_iWrites, m_pendingHashes,
  mpc, ret,         \* where the main thread is, and where FlushBuffer returns
  at,               \* iterator of the loop the main thread is in
  app,              \* "running", then "shutdown"
  m_flushList, wWork, wpc, wOk, wKeep,   \* the write thread
  m_jobList, hWork, hpc, hOk, hKeep,     \* the hash thread
  m_bRun,           \* [write, hash]: EndThread() not called yet
  tasks, scanned, matches,               \* the scheduler and its worker
  events,           \* events posted to the main thread, in order
  received, bad, errors,                 \* what the bounds count
  late, outdated,   \* history: see OnAsyncHashComplete,
  cleared, forced   \* FlushHash and UserResume

fileVars   == <<gaps, m_aChangedPart, m_corrupted_list>>
stateVars  == <<status, m_paused, m_insufficient, sources, handle>>
bufferVars == <<item, m_BufferedData_list>>
mainVars   == <<mpc, ret, at>>
writeVars  == <<m_flushList, wWork, wpc, wOk, wKeep>>
hashVars   == <<m_jobList, hWork, hpc, hOk, hKeep>>
taskVars   == <<tasks, scanned, matches>>
threadVars == <<writeVars, hashVars, m_bRun, taskVars>>
boundVars  == <<received, bad, errors>>
histVars   == <<late, outdated, cleared, forced>>
vars == <<fileVars, disk, stateVars, bufferVars, m_iWrites, m_pendingHashes,
          mainVars, app, writeVars, hashVars, m_bRun, taskVars, events,
          boundVars, histVars>>

\* A record of item before the block it stands for was received.
Unused == [blk |-> 1, data |-> "good", flushed |-> "none"]

BlocksOf(p) == {b \in Blocks : PartOf[b] = p}
IsComplete(p) == BlocksOf(p) \cap gaps = {}
HashOK(p) == \A b \in BlocksOf(p) : disk[b] = "good"

IsRunning == app = "running"

\* CPartFile::GetStatus(): what the rest of the program sees.
GetStatus ==
  IF (~m_paused /\ ~m_insufficient)
       \/ status \in {"PS_ERROR", "PS_COMPLETING", "PS_COMPLETE"}
    THEN status
    ELSE IF m_insufficient THEN "PS_INSUFFICIENT" ELSE "PS_PAUSED"

\* A disk operation fails; the bound counts it.
Fail == errors < MaxErrors /\ errors' = errors + 1

Init ==
  /\ gaps = Blocks
  /\ disk = [b \in Blocks |-> "none"]
  /\ m_aChangedPart = {} /\ m_corrupted_list = {}
  /\ status = "PS_EMPTY"
  /\ m_paused = FALSE /\ m_insufficient = FALSE
  /\ sources = FALSE /\ handle = TRUE
  /\ item = [i \in Ids |-> Unused]
  /\ m_BufferedData_list = <<>>
  /\ m_iWrites = 0 /\ m_pendingHashes = 0
  /\ mpc = "idle" /\ ret = "idle" /\ at = 1
  /\ app = "running"
  /\ m_flushList = <<>> /\ wWork = <<>> /\ wpc = "take" /\ wOk = TRUE
  /\ wKeep = TRUE
  /\ m_jobList = <<>> /\ hWork = <<>> /\ hpc = "take" /\ hOk = TRUE
  /\ hKeep = TRUE
  /\ m_bRun = [write |-> TRUE, hash |-> TRUE]
  /\ tasks = <<>> /\ scanned = {} /\ matches = {}
  /\ events = <<>>
  /\ received = 0 /\ bad = 0 /\ errors = 0
  /\ late = FALSE /\ outdated = FALSE /\ cleared = FALSE /\ forced = FALSE

------------------------------------------------------------------------------
(***************************************************************************)
(* Blocks arrive.                                                          *)
(***************************************************************************)

\* OP_ACCEPTUPLOADREQ: a source may send once the file takes data.
SourceAccepts ==
  /\ mpc = "idle" /\ IsRunning /\ ~sources
  /\ GetStatus \in {"PS_READY", "PS_EMPTY"}
  /\ sources' = TRUE
  /\ UNCHANGED <<fileVars, disk, status, m_paused, m_insufficient, handle,
                 bufferVars, m_iWrites, m_pendingHashes, mainVars, app,
                 writeVars, hashVars, m_bRun, taskVars, events, boundVars,
                 histVars>>

(***************************************************************************)
(* Where WriteToBuffer inserts an item: before the predecessor of the      *)
(* first item that does not end earlier, or at the front.                  *)
(***************************************************************************)
InsertBuffered(list, i, blk) ==
  LET notBefore == {k \in 1..Len(list) : blk <= item[list[k]].blk}
      first == CHOOSE k \in notBefore : \A l \in notBefore : k <= l
  IN IF notBefore = {} \/ 1 \in notBefore
       THEN <<i>> \o list
       ELSE InsertAt(list, first - 1, i)

\* WriteToBuffer: data for a complete block or part is dropped.
WriteToBuffer(b, d) ==
  /\ mpc = "idle" /\ IsRunning /\ sources
  /\ b \in gaps
  /\ received < MaxReceives /\ received' = received + 1
  /\ IF d = "bad" THEN bad < MaxBad /\ bad' = bad + 1 ELSE UNCHANGED bad
  /\ LET i == received + 1 IN
       /\ item' = [item EXCEPT ![i] =
                     [blk |-> b, data |-> d, flushed |-> "PB_READY"]]
       /\ m_BufferedData_list' = InsertBuffered(m_BufferedData_list, i, b)
  /\ gaps' = gaps \ {b}
  /\ IF gaps' = {} THEN mpc' = "flush" /\ ret' = "idle" /\ UNCHANGED at
                   ELSE UNCHANGED mainVars
  /\ UNCHANGED <<disk, m_aChangedPart, m_corrupted_list, stateVars, m_iWrites,
                 m_pendingHashes, app, writeVars, hashVars, m_bRun, taskVars,
                 events, errors, histVars>>

------------------------------------------------------------------------------
(***************************************************************************)
(* FlushBuffer.  A caller sets mpc to "flush" and ret to where it goes on. *)
(***************************************************************************)
CallFlush(from) == mpc' = "flush" /\ ret' = from /\ UNCHANGED at

Return == mpc' = ret /\ UNCHANGED <<ret, at>>

Goto(next) == mpc' = next /\ at' = 1 /\ UNCHANGED ret

\* PauseFile, up to what a caller adds.
PauseFile(insufficient) ==
  IF status \in {"PS_COMPLETE", "PS_COMPLETING"}
    THEN UNCHANGED stateVars
    ELSE /\ sources' = FALSE
         /\ m_insufficient' = insufficient
         /\ m_paused' = TRUE
         /\ UNCHANGED <<status, handle>>

\* The disk is full: pause and return.
FlushNoSpace ==
  /\ mpc = "flush"
  /\ m_BufferedData_list # <<>>
  /\ Fail
  /\ PauseFile(TRUE)
  /\ Return
  /\ UNCHANGED <<fileVars, disk, bufferVars, m_iWrites, m_pendingHashes, app,
                 writeVars, hashVars, m_bRun, taskVars, events, received, bad,
                 histVars>>

\* The items of the list with a flag, in list order.
WithFlag(f) ==
  Filter(m_BufferedData_list, {i \in Ids : item[i].flushed = f})

\* Phase 1: hand every PB_READY item to the write thread.  One step: the
\* thread taking a batch in the middle only splits the batch.
FlushQueue ==
  /\ mpc = "flush"
  /\ IF m_bRun.write
       THEN LET ready == WithFlag("PB_READY") IN
              /\ item' = [i \in Ids |->
                            IF i \in ToSet(ready)
                              THEN [item[i] EXCEPT !.flushed = "PB_PENDING"]
                              ELSE item[i]]
              /\ m_iWrites' = m_iWrites + Len(ready)
              /\ m_flushList' = m_flushList \o ready
       ELSE UNCHANGED <<item, m_iWrites, m_flushList>>
  /\ Goto("harvest")
  /\ UNCHANGED <<fileVars, disk, stateVars, m_BufferedData_list,
                 m_pendingHashes, app, wWork, wpc, wOk, wKeep, hashVars,
                 m_bRun, taskVars, events, boundVars, histVars>>

Here == m_BufferedData_list[at]

\* Mutant: the part of a written block is not marked.
ForgetItem ==
  /\ UNCHANGED m_aChangedPart
  /\ m_BufferedData_list' = RemoveAt(m_BufferedData_list, at)

\* The item is done with: its part needs a hash, the list lets go of it.
Harvest ==
  /\ m_aChangedPart' = m_aChangedPart \cup {PartOf[item[Here].blk]}
  /\ m_BufferedData_list' = RemoveAt(m_BufferedData_list, at)

\* Mutant: a failed write is taken for a finished one.
NoLongerPending(i) == item[i].flushed \in {"PB_WRITTEN", "PB_ERROR"}

Written(i) == item[i].flushed = "PB_WRITTEN"

\* Phase 2, one item, whose flag the write thread may be changing.
FlushHarvest ==
  /\ mpc = "harvest" /\ at <= Len(m_BufferedData_list)
  /\ \/ /\ item[Here].flushed = "PB_PENDING"
        /\ at' = at + 1
        /\ UNCHANGED <<m_aChangedPart, bufferVars>>
     \/ /\ item[Here].flushed = "PB_ERROR"
        /\ item' = [item EXCEPT ![Here].flushed = "PB_READY"]
        /\ at' = at + 1
        /\ UNCHANGED <<m_aChangedPart, m_BufferedData_list>>
     \/ /\ Written(Here)
        /\ Harvest
        /\ UNCHANGED <<item, at>>
  /\ UNCHANGED <<gaps, m_corrupted_list, disk, stateVars, m_iWrites,
                 m_pendingHashes, mpc, ret, app, writeVars, hashVars, m_bRun,
                 taskVars, events, boundVars, histVars>>

\* Phase 2, a PB_READY item: the write thread is gone, write it here.
FlushWrite ==
  /\ mpc = "harvest" /\ at <= Len(m_BufferedData_list)
  /\ item[Here].flushed = "PB_READY"
  /\ \/ /\ disk' = [disk EXCEPT ![item[Here].blk] = item[Here].data]
        /\ Harvest
        /\ UNCHANGED <<status, m_iWrites, mainVars, errors>>
     \/ /\ Fail
        /\ m_aChangedPart' = m_aChangedPart \cup {PartOf[item[Here].blk]}
        /\ status' = "PS_ERROR"
        /\ m_BufferedData_list' = <<>>
        /\ m_iWrites' = 0
        /\ Return
        /\ UNCHANGED disk
  /\ UNCHANGED <<gaps, m_corrupted_list, m_paused, m_insufficient, sources,
                 handle, item, m_pendingHashes, app, writeVars, hashVars,
                 m_bRun, taskVars, events, received, bad, histVars>>

\* The length check, which may fail, then the destructor / shutdown gate.
FlushLength ==
  /\ mpc = "harvest" /\ at > Len(m_BufferedData_list)
  /\ \/ UNCHANGED <<status, errors>>
     \/ handle /\ Fail /\ status' = "PS_ERROR"
  /\ IF IsRunning THEN Goto("share") ELSE Return
  /\ UNCHANGED <<fileVars, disk, m_paused, m_insufficient, sources, handle,
                 bufferVars, m_iWrites, m_pendingHashes, app, writeVars,
                 hashVars, m_bRun, taskVars, events, received, bad, histVars>>

------------------------------------------------------------------------------
\* QueueHashCheck for parts in ascending order, their dirty bits cleared.
Enqueue(ps) ==
  LET jobs == Filter([p \in Parts |-> p], ps) IN
    /\ m_jobList' = m_jobList \o jobs
    /\ m_pendingHashes' = m_pendingHashes + Len(jobs)

\* Is a block of the part still on its way to the disk?
PendingWrite(p) ==
  \E i \in ToSet(m_BufferedData_list) :
    ~Written(i) /\ PartOf[item[i].blk] = p

FirstShareCandidates ==
  IF status = "PS_EMPTY" /\ m_pendingHashes = 0 /\ gaps # {}
    THEN {p \in m_aChangedPart : IsComplete(p) /\ ~PendingWrite(p)}
    ELSE {}

\* The first-share path: hash one part at once, whatever else is going on.
FlushShare ==
  /\ mpc = "share"
  /\ IF FirstShareCandidates = {}
       THEN UNCHANGED <<m_aChangedPart, m_jobList, m_pendingHashes>>
       ELSE LET p == CHOOSE q \in FirstShareCandidates :
                       \A r \in FirstShareCandidates : q <= r
            IN /\ m_aChangedPart' = m_aChangedPart \ {p}
               /\ Enqueue({p})
  /\ Goto("gate")
  /\ UNCHANGED <<gaps, m_corrupted_list, disk, stateVars, bufferVars,
                 m_iWrites, app, writeVars, hWork, hpc, hOk, hKeep, m_bRun,
                 taskVars, events, boundVars, histVars>>

(***************************************************************************)
(* Phase 3: with writes in flight nothing; with the gap list complete      *)
(* forget the dirty bits, the full hash will see to the parts; otherwise   *)
(* enqueue the dirty parts that are complete.  The .met is saved.          *)
(***************************************************************************)
\* Mutant: off by one.
WritesCounted == m_iWrites >= 0

WritesInFlight == m_iWrites > 0

FlushHash ==
  /\ mpc = "gate"
  /\ IF WritesInFlight
       THEN /\ Return
            /\ UNCHANGED <<m_aChangedPart, m_jobList, m_pendingHashes, cleared>>
       ELSE /\ Goto("sweep")
            /\ m_aChangedPart' = {}
            /\ IF gaps = {}
                 THEN /\ cleared' = (cleared \/ m_aChangedPart # {})
                      /\ UNCHANGED <<m_jobList, m_pendingHashes>>
                 ELSE /\ Enqueue({p \in m_aChangedPart : IsComplete(p)})
                      /\ UNCHANGED cleared
  /\ UNCHANGED <<gaps, m_corrupted_list, disk, stateVars, bufferVars,
                 m_iWrites, app, writeVars, hWork, hpc, hOk, hKeep, m_bRun,
                 taskVars, events, boundVars, late, outdated, forced>>

\* The final harvest, one item.
FlushSweep ==
  /\ mpc = "sweep" /\ at <= Len(m_BufferedData_list)
  /\ IF Written(Here)
       THEN Harvest /\ UNCHANGED at
       ELSE at' = at + 1 /\ UNCHANGED <<m_aChangedPart, m_BufferedData_list>>
  /\ UNCHANGED <<gaps, m_corrupted_list, disk, stateVars, item, m_iWrites,
                 m_pendingHashes, mpc, ret, app, writeVars, hashVars, m_bRun,
                 taskVars, events, boundVars, histVars>>

\* Mutant: also when the file is completing already.
CompleteAnyStatus(st, gs) ==
  gs = {} /\ m_iWrites <= 0 /\ m_BufferedData_list = <<>> /\ m_pendingHashes <= 0

\* Mutant: without a look at the hash jobs.
CompleteWhileHashing(st, gs) ==
  /\ st \in {"PS_EMPTY", "PS_READY"}
  /\ gs = {} /\ m_iWrites <= 0 /\ m_BufferedData_list = <<>>

\* The test that ends FlushBuffer and OnAsyncHashComplete, on the values the
\* handler has given to the status, the gaps and the list.
ReadyToComplete(st, gs) ==
  /\ st \in {"PS_EMPTY", "PS_READY"}
  /\ gs = {}
  /\ m_iWrites <= 0
  /\ m_BufferedData_list = <<>>
  /\ m_pendingHashes <= 0

\* CThreadScheduler::AddTask, which refuses a task already there.
AddTask(t) ==
  tasks' = IF t \in ToSet(tasks) THEN tasks ELSE Append(tasks, t)

\* The trailing check: CompleteFile(false).
FlushTail ==
  /\ mpc = "sweep" /\ at > Len(m_BufferedData_list)
  /\ IF ReadyToComplete(status, gaps)
       THEN status' = "PS_COMPLETING" /\ AddTask("hash")
       ELSE UNCHANGED <<status, tasks>>
  /\ Return
  /\ UNCHANGED <<fileVars, disk, m_paused, m_insufficient, sources, handle,
                 bufferVars, m_iWrites, m_pendingHashes, app, writeVars,
                 hashVars, m_bRun, scanned, matches, events, boundVars,
                 histVars>>

------------------------------------------------------------------------------
(***************************************************************************)
(* CDownloadQueue::Process.                                                *)
(***************************************************************************)
HasPendingHashWork ==
  /\ m_iWrites <= 0
  /\ \/ m_aChangedPart # {}
     \/ gaps = {} /\ status \in {"PS_EMPTY", "PS_READY"}
          /\ m_BufferedData_list # <<>>

\* CPartFile::Process of an active file flushes when the buffer is full, at
\* the latest after BUFFER_TIME_LIMIT; a paused one is flushed while it has
\* parts to hash.
Process ==
  /\ mpc = "idle" /\ IsRunning
  /\ \/ GetStatus \in {"PS_READY", "PS_EMPTY"}
     \/ GetStatus = "PS_PAUSED" /\ HasPendingHashWork
  /\ CallFlush("idle")
  /\ UNCHANGED <<fileVars, disk, stateVars, bufferVars, m_iWrites,
                 m_pendingHashes, app, threadVars, events, boundVars, histVars>>

------------------------------------------------------------------------------
(***************************************************************************)
(* Events, handled by the main thread in the order they were posted.       *)
(***************************************************************************)
IsEvent(kind) ==
  /\ mpc = "idle" /\ IsRunning
  /\ events # <<>> /\ Head(events).kind = kind

(***************************************************************************)
(* OnPartFileHashResult and OnAsyncHashComplete.  An event whose file has  *)
(* left the download queue is dropped.                                     *)
(***************************************************************************)
OnAsyncHashComplete ==
  /\ IsEvent("part")
  /\ events' = Tail(events)
  /\ LET e == Head(events)
         p == e.part
         corrupt == IsComplete(p) /\ ~e.ok
         verified == IsComplete(p) /\ e.ok
         recovered == ~IsComplete(p) /\ p \in m_corrupted_list /\ ICH /\ e.ok
     IN IF status = "PS_COMPLETE"
          THEN UNCHANGED <<gaps, m_corrupted_list, status, tasks, late,
                           outdated>>
          ELSE /\ gaps' = IF corrupt THEN gaps \cup BlocksOf(p)
                          ELSE IF recovered THEN gaps \ BlocksOf(p)
                          ELSE gaps
               /\ m_corrupted_list' =
                    IF corrupt THEN m_corrupted_list \cup {p}
                    ELSE IF verified \/ recovered THEN m_corrupted_list \ {p}
                    ELSE m_corrupted_list
               /\ LET shared == IF status = "PS_EMPTY"
                                     /\ (verified \/ recovered)
                                  THEN "PS_READY" ELSE status
                  IN IF ReadyToComplete(shared, gaps')
                       THEN status' = "PS_COMPLETING" /\ AddTask("hash")
                       ELSE status' = shared /\ UNCHANGED tasks
               /\ late' = (late \/ (corrupt /\ status = "PS_COMPLETING"))
               /\ outdated' = (outdated \/ (recovered /\ ~HashOK(p)))
  /\ UNCHANGED <<m_aChangedPart, disk, m_paused, m_insufficient, sources,
                 handle, bufferVars, m_iWrites, m_pendingHashes, mainVars, app,
                 writeVars, hashVars, m_bRun, scanned, matches, boundVars,
                 cleared, forced>>

(***************************************************************************)
(* PartFileHashFinished: the full hash, with the parts that matched.  A    *)
(* complete part that did not match is opened again, an incomplete one     *)
(* that did is filled.  Without such an error CompleteFile(true) follows,  *)
(* which starts with StopFile.                                             *)
(***************************************************************************)
\* Mutant: the test for completeness is the wrong way round.
MismatchedOpen(ok) == {p \in Parts : p \notin ok /\ ~IsComplete(p)}

Mismatched(ok) == {p \in Parts : p \notin ok /\ IsComplete(p)}

PartFileHashFinished ==
  /\ IsEvent("hashed")
  /\ events' = Tail(events)
  /\ LET ok == Head(events).matches
         wrong == Mismatched(ok)
         filled == {p \in ok : ~IsComplete(p)}
     IN /\ gaps' = (gaps \ UNION {BlocksOf(p) : p \in filled})
                     \cup UNION {BlocksOf(p) : p \in wrong}
        /\ m_corrupted_list' = m_corrupted_list \cup wrong
        /\ outdated' = (outdated \/ \E p \in filled : ~HashOK(p))
        /\ IF wrong = {} /\ status = "PS_COMPLETING"
             THEN /\ sources' = FALSE
                  /\ CallFlush("stopped")
                  /\ UNCHANGED status
             ELSE /\ status' = "PS_READY"
                  /\ UNCHANGED <<sources, mainVars>>
  /\ UNCHANGED <<m_aChangedPart, disk, m_paused, m_insufficient, handle,
                 bufferVars, m_iWrites, m_pendingHashes, app, threadVars,
                 boundVars, late, cleared, forced>>

\* CompleteFile(true) after StopFile: PerformFileComplete starts.
CompleteStopped ==
  /\ mpc = "stopped"
  /\ status' = "PS_COMPLETING"
  /\ CallFlush("perform")
  /\ UNCHANGED <<fileVars, disk, m_paused, m_insufficient, sources, handle,
                 bufferVars, m_iWrites, m_pendingHashes, app, threadVars,
                 events, boundVars, histVars>>

\* ... closes the handle and schedules the move to the incoming directory.
PerformFileComplete ==
  /\ mpc = "perform"
  /\ handle' = FALSE
  /\ AddTask("complete")
  /\ Goto("idle")
  /\ UNCHANGED <<fileVars, disk, status, m_paused, m_insufficient, sources,
                 bufferVars, m_iWrites, m_pendingHashes, app, writeVars,
                 hashVars, m_bRun, scanned, matches, events, boundVars,
                 histVars>>

\* OnFinishedCompletion and CompleteFileEnded.
CompleteFileEnded ==
  /\ IsEvent("completed")
  /\ events' = Tail(events)
  /\ IF Head(events).ok
       THEN status' = "PS_COMPLETE" /\ m_paused' = FALSE
       ELSE status' = "PS_ERROR" /\ m_paused' = TRUE
  /\ UNCHANGED <<fileVars, disk, m_insufficient, sources, handle, bufferVars,
                 m_iWrites, m_pendingHashes, mainVars, app, threadVars,
                 boundVars, histVars>>

------------------------------------------------------------------------------
(***************************************************************************)
(* The user.                                                               *)
(***************************************************************************)
UserMay(act) ==
  act \in UserActs /\ mpc = "idle" /\ IsRunning /\ status # "PS_COMPLETE"

UserPause ==
  /\ UserMay("pause")
  /\ PauseFile(FALSE)
  /\ UNCHANGED <<fileVars, disk, bufferVars, m_iWrites, m_pendingHashes,
                 mainVars, app, threadVars, events, boundVars, histVars>>

\* StopFile(false): pause, drop all sources, flush.
StopFile ==
  IF status = "PS_COMPLETING"
    THEN sources' = FALSE /\ UNCHANGED <<status, m_paused, m_insufficient, handle>>
    ELSE PauseFile(FALSE)

UserStop ==
  /\ UserMay("stop")
  /\ StopFile
  /\ CallFlush("idle")
  /\ UNCHANGED <<fileVars, disk, bufferVars, m_iWrites, m_pendingHashes, app,
                 threadVars, events, boundVars, histVars>>

\* Mutant: a file without gaps is taken for a hashed one.
ResumeCompletes == gaps = {}

\* ResumeFile of a file in error whose gap list is complete goes straight to
\* CompleteFile(true), which stops, and so pauses, it again.
CompletesOnResume == gaps = {} /\ status = "PS_ERROR"

UserResume ==
  /\ UserMay("resume")
  /\ status # "PS_COMPLETING"
  /\ m_insufficient' = FALSE
  /\ IF CompletesOnResume
       THEN /\ m_paused' = TRUE
            /\ sources' = FALSE
            /\ CallFlush("stopped")
       ELSE /\ m_paused' = FALSE
            /\ UNCHANGED <<sources, mainVars>>
  /\ forced' = (forced \/ (gaps = {} /\ status = "PS_ERROR"))
  /\ UNCHANGED <<fileVars, disk, status, handle, bufferVars, m_iWrites,
                 m_pendingHashes, app, threadVars, events, boundVars, late,
                 outdated, cleared>>

\* Delete(): the write thread's queue is stripped of the file's items and
\* the file is stopped without a flush ...
UserDelete ==
  /\ UserMay("delete")
  /\ m_flushList' = <<>>
  /\ StopFile
  /\ Goto("deleting")
  /\ UNCHANGED <<fileVars, disk, bufferVars, m_iWrites, m_pendingHashes, app,
                 wWork, wpc, wOk, wKeep, hashVars, m_bRun, taskVars, events,
                 boundVars, histVars>>

\* Mutant: Delete() does not wait.
DeleteAtOnce == TRUE

\* The loop that sleeps while hash jobs of the file are pending.
HashJobsDone == m_pendingHashes <= 0

\* ... then it waits for the hash jobs, closes the file and frees the object
\* with the buffered items.  Events for the file are dropped from here on.
DeleteFree ==
  /\ mpc = "deleting"
  /\ HashJobsDone
  /\ handle' = FALSE
  /\ m_BufferedData_list' = <<>>
  /\ events' = <<>>
  /\ Goto("deleted")
  /\ UNCHANGED <<fileVars, disk, status, m_paused, m_insufficient, sources,
                 item, m_iWrites, m_pendingHashes, app, threadVars, boundVars,
                 histVars>>

------------------------------------------------------------------------------
(***************************************************************************)
(* CPartFileWriteThread::Entry.  Waiting without work is not a step.       *)
(***************************************************************************)
WriteUnchanged ==
  UNCHANGED <<fileVars, stateVars, m_BufferedData_list, m_pendingHashes,
              mainVars, app, hashVars, m_bRun, taskVars, events, received, bad,
              histVars>>

WriteTake ==
  /\ wpc = "take"
  /\ m_flushList # <<>> \/ ~m_bRun.write
  /\ wWork' = m_flushList
  /\ m_flushList' = <<>>
  /\ wKeep' = m_bRun.write
  /\ wpc' = IF m_flushList # <<>> THEN "write" ELSE "exited"
  /\ WriteUnchanged
  /\ UNCHANGED <<disk, item, m_iWrites, wOk, errors>>

\* FlushAt under m_hpartfileMutex.
WriteFlushAt ==
  /\ wpc = "write"
  /\ LET i == Head(wWork) IN
       \/ /\ disk' = [disk EXCEPT ![item[i].blk] = item[i].data]
          /\ wOk' = TRUE
          /\ UNCHANGED errors
       \/ Fail /\ wOk' = FALSE /\ UNCHANGED disk
  /\ wpc' = "dec"
  /\ WriteUnchanged
  /\ UNCHANGED <<item, m_iWrites, m_flushList, wWork, wKeep>>

\* Mutant: a failed write is not counted down.
DecrementWritten ==
  /\ wpc = "dec"
  /\ m_iWrites' = IF wOk THEN m_iWrites - 1 ELSE m_iWrites
  /\ wpc' = "mark"
  /\ WriteUnchanged
  /\ UNCHANGED <<disk, item, m_flushList, wWork, wOk, wKeep, errors>>

\* --m_iWrites comes before the flag: FlushBuffer may see the first only.
WriteDecrement ==
  /\ wpc = "dec"
  /\ m_iWrites' = m_iWrites - 1
  /\ wpc' = "mark"
  /\ WriteUnchanged
  /\ UNCHANGED <<disk, item, m_flushList, wWork, wOk, wKeep, errors>>

WriteMark ==
  /\ wpc = "mark"
  /\ item' = [item EXCEPT ![Head(wWork)].flushed =
                IF wOk THEN "PB_WRITTEN" ELSE "PB_ERROR"]
  /\ wWork' = Tail(wWork)
  /\ wpc' = IF Tail(wWork) # <<>> THEN "write"
            ELSE IF wKeep THEN "take" ELSE "exited"
  /\ WriteUnchanged
  /\ UNCHANGED <<disk, m_iWrites, m_flushList, wOk, wKeep, errors>>

WriteThread == WriteTake \/ WriteFlushAt \/ WriteDecrement \/ WriteMark

------------------------------------------------------------------------------
(***************************************************************************)
(* CPartFileHashThread::Entry.                                             *)
(***************************************************************************)
HashUnchanged ==
  UNCHANGED <<fileVars, disk, m_paused, m_insufficient, sources, handle,
              bufferVars, m_iWrites, mainVars, app, writeVars, m_bRun,
              taskVars, received, bad, histVars>>

\* Mutant: the thread leaves without its last batch.
LeaveAtOnce ==
  /\ hpc = "take"
  /\ m_jobList # <<>> \/ ~m_bRun.hash
  /\ hWork' = m_jobList
  /\ m_jobList' = <<>>
  /\ hKeep' = m_bRun.hash
  /\ hpc' = IF m_bRun.hash THEN "hash" ELSE "exited"
  /\ HashUnchanged
  /\ UNCHANGED <<status, hOk, m_pendingHashes, events, errors>>

HashTake ==
  /\ hpc = "take"
  /\ m_jobList # <<>> \/ ~m_bRun.hash
  /\ hWork' = m_jobList
  /\ m_jobList' = <<>>
  /\ hKeep' = m_bRun.hash
  /\ hpc' = IF m_jobList # <<>> THEN "hash" ELSE "exited"
  /\ HashUnchanged
  /\ UNCHANGED <<status, hOk, m_pendingHashes, events, errors>>

\* HashSinglePart under m_hpartfileMutex; a read error puts the file into
\* PS_ERROR from this thread.
HashSinglePart ==
  /\ hpc = "hash"
  /\ \/ hOk' = HashOK(Head(hWork)) /\ UNCHANGED <<status, errors>>
     \/ Fail /\ hOk' = FALSE /\ status' = "PS_ERROR"
  /\ hpc' = "post"
  /\ HashUnchanged
  /\ UNCHANGED <<m_jobList, hWork, hKeep, m_pendingHashes, events>>

HashPost ==
  /\ hpc = "post"
  /\ events' = Append(events, [kind |-> "part", part |-> Head(hWork), ok |-> hOk])
  /\ hpc' = "dec"
  /\ HashUnchanged
  /\ UNCHANGED <<status, m_jobList, hWork, hOk, hKeep, m_pendingHashes, errors>>

HashDecrement ==
  /\ hpc = "dec"
  /\ m_pendingHashes' = m_pendingHashes - 1
  /\ hWork' = Tail(hWork)
  /\ hpc' = IF Tail(hWork) # <<>> THEN "hash"
            ELSE IF hKeep THEN "take" ELSE "exited"
  /\ HashUnchanged
  /\ UNCHANGED <<status, m_jobList, hOk, hKeep, events, errors>>

HashThread == HashTake \/ HashSinglePart \/ HashPost \/ HashDecrement

------------------------------------------------------------------------------
(***************************************************************************)
(* The scheduler's worker (ThreadScheduler.tla): the head of tasks runs.   *)
(***************************************************************************)
TaskUnchanged ==
  UNCHANGED <<fileVars, disk, stateVars, bufferVars, m_iWrites,
              m_pendingHashes, mainVars, app, writeVars, hashVars, m_bRun,
              received, bad, histVars>>

Running(t) == tasks # <<>> /\ Head(tasks) = t /\ IsRunning

\* CHashingTask::Entry, one part.
HashingTaskPart ==
  /\ Running("hash")
  /\ scanned # Parts
  /\ LET p == CHOOSE q \in Parts \ scanned : \A r \in Parts \ scanned : q <= r
     IN /\ scanned' = scanned \cup {p}
        /\ matches' = IF HashOK(p) THEN matches \cup {p} ELSE matches
  /\ TaskUnchanged
  /\ UNCHANGED <<tasks, events, errors>>

\* The file could not be opened or read: the task ends without an event.
HashingTaskFails ==
  /\ Running("hash")
  /\ Fail
  /\ tasks' = Tail(tasks) /\ scanned' = {} /\ matches' = {}
  /\ TaskUnchanged
  /\ UNCHANGED events

HashingTaskEnds ==
  /\ Running("hash")
  /\ scanned = Parts
  /\ events' = Append(events, [kind |-> "hashed", matches |-> matches])
  /\ tasks' = Tail(tasks) /\ scanned' = {} /\ matches' = {}
  /\ TaskUnchanged
  /\ UNCHANGED errors

\* CCompletionTask: rename or copy the .part file, post the outcome.
CompletionTask ==
  /\ Running("complete")
  /\ \/ events' = Append(events, [kind |-> "completed", ok |-> TRUE])
        /\ UNCHANGED errors
     \/ events' = Append(events, [kind |-> "completed", ok |-> FALSE])
        /\ Fail
  /\ tasks' = Tail(tasks)
  /\ TaskUnchanged
  /\ UNCHANGED <<scanned, matches>>

Worker ==
  HashingTaskPart \/ HashingTaskFails \/ HashingTaskEnds \/ CompletionTask

------------------------------------------------------------------------------
(***************************************************************************)
(* Shutdown: CamuleApp::ShutDown, then ~CamuleApp.                         *)
(***************************************************************************)

\* The scheduler is terminated (a hashing task stops without an event) and
\* no event is handled any more; then the hash thread is told to end.
ShutDown ==
  /\ Quits
  /\ mpc = "idle" /\ IsRunning
  /\ app' = "shutdown"
  /\ tasks' = <<>> /\ scanned' = {} /\ matches' = {}
  /\ sources' = FALSE
  /\ m_bRun' = [m_bRun EXCEPT !.hash = FALSE]
  /\ Goto("endHash")
  /\ UNCHANGED <<fileVars, disk, status, m_paused, m_insufficient, handle,
                 bufferVars, m_iWrites, m_pendingHashes, writeVars, hashVars,
                 events, boundVars, histVars>>

\* Wait() for the hash thread, then the same for the write thread.
EndHashThread ==
  /\ mpc = "endHash" /\ hpc = "exited"
  /\ m_bRun' = [m_bRun EXCEPT !.write = FALSE]
  /\ Goto("endWrite")
  /\ UNCHANGED <<fileVars, disk, stateVars, bufferVars, m_iWrites,
                 m_pendingHashes, app, writeVars, hashVars, taskVars, events,
                 boundVars, histVars>>

WriteThreadEnded == wpc = "exited"

\* ~CDownloadQueue deletes the file: ~CPartFile waits for hash jobs and, if
\* the handle is open, flushes.
EndWriteThread ==
  /\ mpc = "endWrite" /\ WriteThreadEnded
  /\ m_pendingHashes <= 0
  /\ IF handle THEN CallFlush("dtor") ELSE Goto("closed")
  /\ UNCHANGED <<fileVars, disk, stateVars, bufferVars, m_iWrites,
                 m_pendingHashes, app, threadVars, events, boundVars, histVars>>

\* Mutant: the parts with gaps instead of those without.
SyncHashedOpen == {p \in m_aChangedPart : ~IsComplete(p)}

\* The parts that ~CPartFile hashes itself.
SyncHashed == {p \in m_aChangedPart : IsComplete(p)}

\* Hash the parts still dirty, close the file, save the .met.  A part that
\* cannot be read counts as corrupt.
SyncHashAndSave ==
  /\ mpc = "dtor"
  /\ \E unreadable \in SUBSET SyncHashed :
       /\ \/ unreadable = {} /\ UNCHANGED <<errors, status>>
          \/ unreadable # {} /\ Fail /\ status' = "PS_ERROR"
       /\ LET wrong == {p \in SyncHashed : ~HashOK(p)} \cup unreadable IN
            /\ gaps' = gaps \cup UNION {BlocksOf(p) : p \in wrong}
            /\ m_corrupted_list' = (m_corrupted_list \ SyncHashed) \cup wrong
  /\ m_aChangedPart' = {}
  /\ m_BufferedData_list' = <<>>
  /\ handle' = FALSE
  /\ Goto("closed")
  /\ UNCHANGED <<disk, m_paused, m_insufficient, sources, item, m_iWrites,
                 m_pendingHashes, app, threadVars, events, received, bad,
                 histVars>>

Shutdown == ShutDown \/ EndHashThread \/ EndWriteThread \/ SyncHashAndSave

FlushBuffer ==
  \/ FlushNoSpace \/ FlushQueue \/ FlushHarvest \/ FlushWrite \/ FlushLength
  \/ FlushShare \/ FlushHash \/ FlushSweep \/ FlushTail

Events ==
  OnAsyncHashComplete \/ PartFileHashFinished \/ CompleteFileEnded

Completing == CompleteStopped \/ PerformFileComplete

User == UserPause \/ UserStop \/ UserResume \/ UserDelete

Next ==
  \/ SourceAccepts
  \/ \E b \in Blocks, d \in {"good", "bad"} : WriteToBuffer(b, d)
  \/ Process \/ FlushBuffer \/ Events \/ Completing
  \/ User \/ DeleteFree
  \/ WriteThread \/ HashThread \/ Worker
  \/ Shutdown

Spec == Init /\ [][Next]_vars

(***************************************************************************)
(* The three threads run; the main thread runs its handlers to the end,    *)
(* takes events off its queue and calls CDownloadQueue::Process from a     *)
(* timer.  Nothing makes data arrive or the user act.                      *)
(***************************************************************************)
Fairness ==
  /\ WF_vars(WriteThread) /\ WF_vars(HashThread) /\ WF_vars(Worker)
  /\ WF_vars(FlushBuffer \/ Completing)
  /\ SF_vars(Process) /\ SF_vars(Events)
  /\ WF_vars(EndHashThread \/ EndWriteThread \/ SyncHashAndSave)

FairSpec == Spec /\ Fairness

------------------------------------------------------------------------------
Statuses == {"PS_EMPTY", "PS_READY", "PS_COMPLETING", "PS_COMPLETE", "PS_ERROR"}
Flags == {"none", "PB_READY", "PB_PENDING", "PB_ERROR", "PB_WRITTEN"}
MainPCs == {"idle", "flush", "harvest", "share", "gate", "sweep", "stopped",
            "perform", "endHash", "endWrite", "dtor", "closed", "deleting",
            "deleted"}

Event == [kind : {"part"}, part : Parts, ok : BOOLEAN]
           \cup [kind : {"hashed"}, matches : SUBSET Parts]
           \cup [kind : {"completed"}, ok : BOOLEAN]

TypeOK ==
  /\ gaps \subseteq Blocks
  /\ disk \in [Blocks -> {"none", "good", "bad"}]
  /\ m_aChangedPart \subseteq Parts /\ m_corrupted_list \subseteq Parts
  /\ status \in Statuses
  /\ m_paused \in BOOLEAN /\ m_insufficient \in BOOLEAN
  /\ sources \in BOOLEAN /\ handle \in BOOLEAN
  /\ item \in [Ids -> [blk : Blocks, data : {"good", "bad"}, flushed : Flags]]
  /\ m_BufferedData_list \in Seq(Ids)
  /\ m_iWrites \in Nat /\ m_pendingHashes \in Nat
  /\ mpc \in MainPCs /\ ret \in {"idle", "stopped", "perform", "dtor"}
  /\ at \in Nat \ {0}
  /\ app \in {"running", "shutdown"}
  /\ m_flushList \in Seq(Ids) /\ wWork \in Seq(Ids)
  /\ wpc \in {"take", "write", "dec", "mark", "exited"}
  /\ wOk \in BOOLEAN /\ wKeep \in BOOLEAN
  /\ m_jobList \in Seq(Parts) /\ hWork \in Seq(Parts)
  /\ hpc \in {"take", "hash", "post", "dec", "exited"}
  /\ hOk \in BOOLEAN /\ hKeep \in BOOLEAN
  /\ m_bRun \in [write : BOOLEAN, hash : BOOLEAN]
  /\ tasks \in Seq({"hash", "complete"})
  /\ scanned \subseteq Parts /\ matches \subseteq scanned
  /\ events \in Seq(Event)
  /\ received \in 0..MaxReceives /\ bad \in 0..MaxBad /\ errors \in 0..MaxErrors
  /\ late \in BOOLEAN /\ outdated \in BOOLEAN
  /\ cleared \in BOOLEAN /\ forced \in BOOLEAN

Gone == mpc \in {"deleting", "deleted", "closed"}

(***************************************************************************)
(* The counters that FlushBuffer and ~CPartFile trust are exact, although  *)
(* one thread raises them and another lowers them: m_iWrites counts the    *)
(* writes on their way, the PB_PENDING items are those the write thread    *)
(* has, and m_pendingHashes counts the hash jobs.                          *)
(***************************************************************************)
CountersExact ==
  ~Gone =>
    /\ m_iWrites = Len(m_flushList) + Len(wWork) - (IF wpc = "mark" THEN 1 ELSE 0)
    /\ ToSet(WithFlag("PB_PENDING")) = ToSet(m_flushList) \cup ToSet(wWork)
    /\ m_pendingHashes = Len(m_jobList) + Len(hWork)

\* CompleteFile is not idempotent: at most one full hash or completion is
\* scheduled, running or waiting to be handled.
InFlight == Len(tasks) + Cardinality(
              {k \in DOMAIN events : events[k].kind \in {"hashed", "completed"}})

SingleCompletion ==
  /\ InFlight <= 1
  /\ InFlight = 1 => status \in {"PS_COMPLETING", "PS_ERROR"}

\* The worker threads never touch the .part file after its handle was
\* closed, be it by PerformFileComplete, Delete or ~CPartFile.
HandleOpenInThreads ==
  (hpc = "hash" \/ wpc = "write") /\ mpc # "deleted" => handle

\* ... which holds as long as no corrupt result arrives during the full hash
\* and no disk error lets ResumeFile complete the file.
HandleOpenUnlessLate == late \/ errors > 0 \/ HandleOpenInThreads

\* A complete part whose data on disk are not right is on the way to being
\* found out.
Tracked(p) ==
  \/ p \in m_aChangedPart
  \/ \E i \in ToSet(m_BufferedData_list) : PartOf[item[i].blk] = p
  \/ p \in ToSet(m_jobList) \cup ToSet(hWork)
  \/ \E e \in ToSet(events) : e.kind = "part" /\ e.part = p /\ ~e.ok

CorruptionTracked ==
  ~Gone /\ status # "PS_COMPLETE" =>
    \A p \in Parts : IsComplete(p) /\ ~HashOK(p) => Tracked(p)

\* ... unless a disk operation failed, the dirty bits were forgotten because
\* the gap list was complete (the full hash takes over), or a result older
\* than the data closed the gaps of a part.
CorruptionTrackedUnlessCleared ==
  errors > 0 \/ cleared \/ outdated \/ CorruptionTracked

\* A file is declared complete only when every block on the disk is right.
CompleteMeansVerified ==
  status = "PS_COMPLETE" => gaps = {} /\ \A p \in Parts : HashOK(p)

\* ... which holds unless a corrupt result arrived during the full hash, or
\* a disk error led to completion by ResumeFile.
VerifiedUnlessLate == late \/ errors > 0 \/ CompleteMeansVerified

\* The move to the incoming directory is scheduled only when every block has
\* reached the .part file, unless ResumeFile went straight to CompleteFile for
\* a file in error: that path alone skips the full hash, and with a disk error
\* while writes were on their way it completes a file whose last blocks were
\* never written.
CompletionHasAllBytes ==
  forced \/ ("complete" \in ToSet(tasks) => \A b \in Blocks : disk[b] # "none")

(***************************************************************************)
(* WriteToBuffer closes the gap before the bytes are written: until they   *)
(* are, an item of the buffer has them, also when a write fails and is     *)
(* retried and whatever the user does meanwhile.                           *)
(***************************************************************************)
BytesAccounted ==
  IsRunning /\ ~Gone =>
    \A b \in Blocks \ gaps :
      \/ disk[b] # "none"
      \/ \E i \in ToSet(m_BufferedData_list) : item[i].blk = b

\* When no disk operation failed, every block the saved .met calls present
\* was written ...
ShutdownWrites ==
  mpc = "closed" /\ errors = 0 => \A b \in Blocks \ gaps : disk[b] # "none"

\* ... and a corrupt part stays undetected only if its hash result was posted
\* and never handled, the completed gap list had cleared its bit, or a result
\* came too late or was older than the data.
ShutdownVerifies ==
  /\ ShutdownWrites
  /\ mpc = "closed" /\ errors = 0 /\ gaps # {} =>
       \/ cleared \/ outdated \/ late
       \/ \A p \in Parts :
            \/ IsComplete(p) => HashOK(p)
            \/ \E e \in ToSet(events) : e.kind = "part" /\ e.part = p /\ ~e.ok

\* What became of a file is decided: complete, opened again, or out of the
\* program's hands.
CompletionResolves ==
  (gaps = {} /\ status \in {"PS_READY", "PS_EMPTY"} /\ ~m_paused)
    ~> (status = "PS_COMPLETE" \/ gaps # {} \/ GetStatus = "PS_PAUSED"
          \/ ~IsRunning \/ mpc = "deleted")

\* Once Delete() has freed the file neither a queued write nor a hash job
\* refers to it: only the batch the write thread had already taken and a full
\* hash that is running still do.
DeletedIsForgotten ==
  mpc = "deleted" =>
    m_flushList = <<>> /\ m_jobList = <<>> /\ hWork = <<>> /\ hpc # "post"

\* Shutdown ends: ~CPartFile waits for hash jobs, the threads for batches.
ShutdownEnds == ~IsRunning ~> mpc = "closed"
==============================================================================
