--------------------------- MODULE PartFileProofs ---------------------------
(*****************************************************************************)
(* Proofs about PartFile.tla, second part: the data.                         *)
(*                                                                           *)
(* BytesInv, on top of ThreadsInv: no byte is lost between the network and   *)
(* the disk.  OutcomeInv, on top of both: a file completes once, with        *)
(* nothing under way and only verified data, and corrupt data are traced     *)
(* until they are found.                                                     *)
(*****************************************************************************)
EXTENDS PartFileThreadProofs, FiniteSetTheorems

OnDisk(p) == \A b \in BlocksOf(p) : disk[b] # "none"

AllOnDisk == \A b \in Blocks : disk[b] # "none"

\* The main thread is on its way through CompleteFile(true).
Finishing ==
  \/ mpc \in {"stopped", "perform"}
  \/ (Flushing /\ ret \in {"stopped", "perform"})

IsDone(e) == e.kind \in {"hashed", "completed"}

\* A full hash or a completion is scheduled, running or not yet handled.
Busy == tasks # <<>> \/ \E e \in ToSet(events) : IsDone(e)

\* What was reported written or verified is on the disk.
ReportedInv ==
  /\ \A i \in Ids : item[i].flushed = "PB_WRITTEN" => disk[item[i].blk] # "none"
  /\ wpc \in {"dec", "mark"} /\ wOk => disk[item[Head(wWork)].blk] # "none"
  /\ hpc \in {"post", "dec"} /\ hOk => OnDisk(Head(hWork))
  /\ \A p \in matches : OnDisk(p)
  /\ \A e \in ToSet(events) :
       /\ e.kind = "part" /\ e.ok => OnDisk(e.part)
       /\ e.kind = "hashed" => \A p \in e.matches : OnDisk(p)

\* What only a failed disk operation brings about.
ErrorInv ==
  errors = 0 =>
    /\ status # "PS_ERROR" /\ ~forced
    /\ wpc \in {"dec", "mark"} => wOk
    /\ \A i \in Ids : item[i].flushed # "PB_ERROR"
    /\ \A e \in ToSet(events) : e.kind = "completed" => e.ok

\* A block without a gap is on the disk or in the buffer.
Accounted ==
  \A b \in Blocks \ gaps :
    \/ disk[b] # "none"
    \/ \E i \in ToSet(m_BufferedData_list) : item[i].blk = b

AccountedInv == (IsRunning \/ errors = 0) /\ ~Gone => Accounted

\* ~CPartFile writes the rest when no disk operation failed.
ClosingInv ==
  /\ errors = 0 /\ mpc = "harvest" /\ ~m_bRun.write => at = 1
  /\ errors = 0 /\ mpc = "dtor" => m_BufferedData_list = <<>>
  /\ errors = 0 /\ ~handle => AllOnDisk \/ mpc \in {"deleted", "closed"}
  /\ errors = 0 /\ mpc = "closed" => \A b \in Blocks \ gaps : disk[b] # "none"

\* Completion starts with every block on the disk.
CompletionInv ==
  forced \/ (status \in {"PS_COMPLETING", "PS_COMPLETE"} \/ Finishing \/ Busy => AllOnDisk)

BytesInv ==
  ReportedInv /\ ErrorInv /\ AccountedInv /\ ClosingInv /\ CompletionInv

OneDone(s) == \A k, l \in DOMAIN s : IsDone(s[k]) /\ IsDone(s[l]) => k = l

\* CompleteFile runs once at a time, as long as nothing fails.
OnceInv ==
  errors = 0 =>
    /\ Len(tasks) <= 1
    /\ OneDone(events)
    /\ tasks # <<>> => \A e \in ToSet(events) : ~IsDone(e)
    /\ Busy => status = "PS_COMPLETING"
    /\ Finishing => ~Busy /\ status = "PS_COMPLETING"
    /\ scanned # {} => tasks # <<>> /\ Head(tasks) = "hash"

\* While a file completes, and no corrupt result has come late, nothing
\* reads or writes its data.
Sealed == status \in {"PS_COMPLETING", "PS_COMPLETE"}

AllGood == \A p \in Parts : HashOK(p)

SealedInv ==
  errors = 0 /\ ~late /\ Sealed =>
    /\ m_BufferedData_list = <<>> /\ m_iWrites = 0 /\ m_pendingHashes = 0
    /\ gaps = {} \/ (mpc = "closed" /\ status # "PS_COMPLETE")

\* The handle is closed after the full hash, and before the completion task.
HandleInv ==
  errors = 0 /\ ~late =>
    /\ ~handle => Sealed \/ mpc \in {"deleted", "closed"}
    /\ ~handle /\ mpc \notin {"deleted", "closed"} =>
         "hash" \notin ToSet(tasks) /\ \A e \in ToSet(events) : e.kind # "hashed"
    /\ "complete" \in ToSet(tasks) \/ (\E e \in ToSet(events) : e.kind = "completed")
         => ~handle
    /\ status = "PS_COMPLETE" => ~handle
    /\ mpc = "dtor" \/ (Flushing /\ ret = "dtor") => handle

QuietInv == SealedInv /\ HandleInv

GoodInv ==
  errors = 0 /\ ~late =>
    /\ \A p \in matches : HashOK(p)
    /\ \A e \in ToSet(events) : /\ e.kind = "hashed" => \A p \in e.matches : HashOK(p)
                                /\ e.kind = "completed" => AllGood
    /\ Finishing \/ "complete" \in ToSet(tasks) \/ status = "PS_COMPLETE" => AllGood

\* The hash job of a part is still to be done, or has found it wrong.
HashPending(p) ==
  \/ p \in ToSet(m_jobList)
  \/ hWork # <<>> /\ p \in ToSet(Tail(hWork))
  \/ hWork # <<>> /\ p = Head(hWork) /\ (hpc = "hash" \/ (hpc = "post" /\ ~hOk))

Dirty(p) ==
  \/ p \in m_aChangedPart
  \/ \E i \in ToSet(m_BufferedData_list) : PartOf[item[i].blk] = p

Reported(p) == \E e \in ToSet(events) : e.kind = "part" /\ e.part = p /\ ~e.ok

Traced(p) == Dirty(p) \/ HashPending(p) \/ Reported(p)

TrackInv ==
  errors = 0 /\ ~cleared /\ ~outdated /\ ~Gone /\ status # "PS_COMPLETE" =>
    \A p \in Parts : IsComplete(p) /\ ~HashOK(p) => Traced(p)

\* ... and when ~CPartFile is done only an unhandled result is left.
FinalInv ==
  errors = 0 /\ ~cleared /\ ~outdated /\ ~late /\ mpc = "closed" /\ gaps # {} =>
    \A p \in Parts : IsComplete(p) /\ ~HashOK(p) => Reported(p)

TrackedInv == TrackInv /\ FinalInv

\* No step takes a block off the disk.
DiskGrows == \A b \in Blocks : disk[b] # "none" => disk'[b] # "none"

\* A received item stays the block it is.
ItemsKeepBlock == \A i \in Ids : i <= received => item'[i].blk = item[i].blk

\* Handling an event leaves the others, posting one adds it.
LEMMA EventTail ==
  ASSUME ListTypes, events # <<>>, events' = Tail(events)
  PROVE  /\ Head(events) \in ToSet(events) /\ Head(events) \in Event
         /\ \A e \in ToSet(events') : e \in ToSet(events)
  <1>1. events \in Seq(Event)
    BY DEF ListTypes
  <1> QED BY <1>1, ToSetTail, ToSetBasics

\* Posting an event adds it.
LEMMA EventAppend ==
  ASSUME ListTypes, NEW e \in Event, events' = Append(events, e)
  PROVE  ToSet(events') = ToSet(events) \cup {e}
  BY ToSetAppend DEF ListTypes

\* What was written stays written, in every step.
LEMMA DiskStep ==
  ASSUME ThreadsInv, [Next]_vars
  PROVE  DiskGrows
  <1> USE PartFileConstants DEF DiskGrows, fileVars, stateVars, bufferVars,
    mainVars, writeVars, hashVars, taskVars, threadVars, boundVars, histVars
  <1>0. /\ FlagTypes /\ PlaceTypes /\ DataTypes /\ ListTypes
        /\ MainInv /\ WriterInv /\ HasherInv /\ BufferInv /\ HarvestInv
    BY TypeParts DEF ThreadsInv
  <1>1. CASE SourceAccepts
    BY <1>1 DEF SourceAccepts, GetStatus
  <1>2. ASSUME NEW b \in Blocks, NEW d \in {"good", "bad"},
               WriteToBuffer(b, d)
        PROVE  DiskGrows
    BY <1>2 DEF WriteToBuffer
  <1>3. CASE Process
    BY <1>3 DEF Process, CallFlush
  <1>4. CASE FlushNoSpace
    BY <1>4 DEF FlushNoSpace, Return, PauseFile, Fail
  <1>5. CASE FlushQueue
    BY <1>5 DEF FlushQueue, Goto
  <1>6. CASE FlushHarvest
    BY <1>6 DEF FlushHarvest, Harvest
  <1>7. CASE FlushWrite
    <2>1. /\ item[Here].blk \in Blocks /\ item[Here].data \in {"good", "bad"}
      BY <1>7, <1>0, HereFacts DEF FlushWrite, PlaceTypes
    <2> QED BY <1>7, <1>0, <2>1 DEF FlushWrite, DataTypes
  <1>8. CASE FlushLength
    BY <1>8 DEF FlushLength, Goto, Return, Fail
  <1>9. CASE FlushShare
    BY <1>9 DEF FlushShare, Goto
  <1>10. CASE FlushHash
    BY <1>10 DEF FlushHash, Goto, Return
  <1>11. CASE FlushSweep
    BY <1>11 DEF FlushSweep, Harvest
  <1>12. CASE FlushTail
    BY <1>12 DEF FlushTail, Return, AddTask
  <1>13. CASE OnAsyncHashComplete
    BY <1>13 DEF OnAsyncHashComplete, IsEvent, AddTask
  <1>14. CASE PartFileHashFinished
    BY <1>14 DEF PartFileHashFinished, IsEvent, CallFlush
  <1>15. CASE CompleteFileEnded
    BY <1>15 DEF CompleteFileEnded, IsEvent
  <1>16. CASE CompleteStopped
    BY <1>16 DEF CompleteStopped, CallFlush
  <1>17. CASE PerformFileComplete
    BY <1>17 DEF PerformFileComplete, AddTask, Goto
  <1>18. CASE UserPause
    BY <1>18 DEF UserPause, UserMay, PauseFile
  <1>19. CASE UserStop
    BY <1>19 DEF UserStop, UserMay, StopFile, PauseFile, CallFlush
  <1>20. CASE UserResume
    BY <1>20 DEF UserResume, UserMay, CallFlush
  <1>21. CASE UserDelete
    BY <1>21 DEF UserDelete, UserMay, StopFile, PauseFile, Goto
  <1>22. CASE DeleteFree
    BY <1>22 DEF DeleteFree, Goto
  <1>23. CASE WriteTake
    BY <1>23 DEF WriteTake, WriteUnchanged
  <1>24. CASE WriteFlushAt
    <2>1. Head(wWork) \in Ids
      BY <1>24, <1>0 DEF WriteFlushAt, WriterInv, ListTypes
    <2>2. item[Head(wWork)].data # "none"
      BY <1>0, <2>1 DEF DataTypes
    <2> QED BY <1>24, <1>0, <2>2 DEF WriteFlushAt, DataTypes
  <1>25. CASE WriteDecrement
    BY <1>25 DEF WriteDecrement, WriteUnchanged
  <1>26. CASE WriteMark
    BY <1>26 DEF WriteMark, WriteUnchanged
  <1>27. CASE HashTake
    BY <1>27 DEF HashTake, HashUnchanged
  <1>28. CASE HashSinglePart
    BY <1>28 DEF HashSinglePart, HashUnchanged, Fail
  <1>29. CASE HashPost
    BY <1>29 DEF HashPost, HashUnchanged
  <1>30. CASE HashDecrement
    BY <1>30 DEF HashDecrement, HashUnchanged
  <1>31. CASE HashingTaskPart
    BY <1>31 DEF HashingTaskPart, TaskUnchanged
  <1>32. CASE HashingTaskFails
    BY <1>32 DEF HashingTaskFails, TaskUnchanged, Fail
  <1>33. CASE HashingTaskEnds
    BY <1>33 DEF HashingTaskEnds, TaskUnchanged
  <1>34. CASE CompletionTask
    BY <1>34 DEF CompletionTask, TaskUnchanged, Fail
  <1>35. CASE ShutDown
    BY <1>35 DEF ShutDown, Goto
  <1>36. CASE EndHashThread
    BY <1>36 DEF EndHashThread, Goto
  <1>37. CASE EndWriteThread
    BY <1>37 DEF EndWriteThread, WriteThreadEnded, CallFlush, Goto
  <1>38. CASE SyncHashAndSave
    BY <1>38 DEF SyncHashAndSave, Fail, Goto
  <1>39. CASE UNCHANGED vars
    BY <1>39 DEF vars
  <1> HIDE DEF DiskGrows, fileVars, stateVars, bufferVars, mainVars,
    writeVars, hashVars, taskVars, threadVars, boundVars, histVars
  <1> QED BY <1>1, <1>2, <1>3, <1>4, <1>5, <1>6, <1>7, <1>8, <1>9, <1>10,
         <1>11, <1>12, <1>13, <1>14, <1>15, <1>16, <1>17, <1>18, <1>19, <1>20,
         <1>21, <1>22, <1>23, <1>24, <1>25, <1>26, <1>27, <1>28, <1>29, <1>30,
         <1>31, <1>32, <1>33, <1>34, <1>35, <1>36, <1>37, <1>38, <1>39
    DEF Next, FlushBuffer, Events, Completing, User, WriteThread, HashThread,
        Worker, Shutdown

\* An item of the buffer stands for the same block all its life.
LEMMA ItemsStep ==
  ASSUME ThreadsInv, [Next]_vars
  PROVE  ItemsKeepBlock
  <1> USE PartFileConstants DEF ItemsKeepBlock, fileVars, stateVars,
    bufferVars, mainVars, writeVars, hashVars, taskVars, threadVars,
    boundVars, histVars
  <1>0. /\ FlagTypes /\ PlaceTypes /\ DataTypes /\ ListTypes
        /\ MainInv /\ WriterInv /\ HasherInv /\ BufferInv /\ HarvestInv
    BY TypeParts DEF ThreadsInv
  <1>1. CASE SourceAccepts
    BY <1>1 DEF SourceAccepts, GetStatus
  <1>2. ASSUME NEW b \in Blocks, NEW d \in {"good", "bad"},
               WriteToBuffer(b, d)
        PROVE  ItemsKeepBlock
    <2>1. item' = [item EXCEPT ![received + 1] =
                     [blk |-> b, data |-> d, flushed |-> "PB_READY"]]
      BY <1>2 DEF WriteToBuffer
    <2> QED BY <1>0, <2>1 DEF DataTypes, Ids
  <1>3. CASE Process
    BY <1>3 DEF Process, CallFlush
  <1>4. CASE FlushNoSpace
    BY <1>4 DEF FlushNoSpace, Return, PauseFile, Fail
  <1>5. CASE FlushQueue
    <2>1. m_bRun.write => \A i \in Ids : item'[i].blk = item[i].blk
      BY <1>5, <1>0, QueueFacts
    <2> QED BY <1>5, <2>1 DEF FlushQueue
  <1>6. CASE FlushHarvest
    <2>1. Here \in Ids
      BY <1>6, <1>0, HereFacts DEF FlushHarvest, PlaceTypes
    <2> QED BY <1>6, <1>0, <2>1 DEF FlushHarvest, DataTypes
  <1>7. CASE FlushWrite
    BY <1>7 DEF FlushWrite, Harvest, Return, Fail
  <1>8. CASE FlushLength
    BY <1>8 DEF FlushLength, Goto, Return, Fail
  <1>9. CASE FlushShare
    BY <1>9 DEF FlushShare, Goto
  <1>10. CASE FlushHash
    BY <1>10 DEF FlushHash, Goto, Return
  <1>11. CASE FlushSweep
    BY <1>11 DEF FlushSweep, Harvest
  <1>12. CASE FlushTail
    BY <1>12 DEF FlushTail, Return, AddTask
  <1>13. CASE OnAsyncHashComplete
    BY <1>13 DEF OnAsyncHashComplete, IsEvent, AddTask
  <1>14. CASE PartFileHashFinished
    BY <1>14 DEF PartFileHashFinished, IsEvent, CallFlush
  <1>15. CASE CompleteFileEnded
    BY <1>15 DEF CompleteFileEnded, IsEvent
  <1>16. CASE CompleteStopped
    BY <1>16 DEF CompleteStopped, CallFlush
  <1>17. CASE PerformFileComplete
    BY <1>17 DEF PerformFileComplete, AddTask, Goto
  <1>18. CASE UserPause
    BY <1>18 DEF UserPause, UserMay, PauseFile
  <1>19. CASE UserStop
    BY <1>19 DEF UserStop, UserMay, StopFile, PauseFile, CallFlush
  <1>20. CASE UserResume
    BY <1>20 DEF UserResume, UserMay, CallFlush
  <1>21. CASE UserDelete
    BY <1>21 DEF UserDelete, UserMay, StopFile, PauseFile, Goto
  <1>22. CASE DeleteFree
    BY <1>22 DEF DeleteFree, Goto
  <1>23. CASE WriteTake
    BY <1>23 DEF WriteTake, WriteUnchanged
  <1>24. CASE WriteFlushAt
    BY <1>24 DEF WriteFlushAt, WriteUnchanged, Fail
  <1>25. CASE WriteDecrement
    BY <1>25 DEF WriteDecrement, WriteUnchanged
  <1>26. CASE WriteMark
    <2> DEFINE flag == IF wOk THEN "PB_WRITTEN" ELSE "PB_ERROR"
    <2>1. item' = [item EXCEPT ![Head(wWork)].flushed = flag]
      BY <1>26 DEF WriteMark
    <2> HIDE DEF flag
    <2> QED BY <1>0, <2>1 DEF DataTypes
  <1>27. CASE HashTake
    BY <1>27 DEF HashTake, HashUnchanged
  <1>28. CASE HashSinglePart
    BY <1>28 DEF HashSinglePart, HashUnchanged, Fail
  <1>29. CASE HashPost
    BY <1>29 DEF HashPost, HashUnchanged
  <1>30. CASE HashDecrement
    BY <1>30 DEF HashDecrement, HashUnchanged
  <1>31. CASE HashingTaskPart
    BY <1>31 DEF HashingTaskPart, TaskUnchanged
  <1>32. CASE HashingTaskFails
    BY <1>32 DEF HashingTaskFails, TaskUnchanged, Fail
  <1>33. CASE HashingTaskEnds
    BY <1>33 DEF HashingTaskEnds, TaskUnchanged
  <1>34. CASE CompletionTask
    BY <1>34 DEF CompletionTask, TaskUnchanged, Fail
  <1>35. CASE ShutDown
    BY <1>35 DEF ShutDown, Goto
  <1>36. CASE EndHashThread
    BY <1>36 DEF EndHashThread, Goto
  <1>37. CASE EndWriteThread
    BY <1>37 DEF EndWriteThread, WriteThreadEnded, CallFlush, Goto
  <1>38. CASE SyncHashAndSave
    BY <1>38 DEF SyncHashAndSave, Fail, Goto
  <1>39. CASE UNCHANGED vars
    BY <1>39 DEF vars
  <1> HIDE DEF ItemsKeepBlock, fileVars, stateVars, bufferVars, mainVars,
    writeVars, hashVars, taskVars, threadVars, boundVars, histVars
  <1> QED BY <1>1, <1>2, <1>3, <1>4, <1>5, <1>6, <1>7, <1>8, <1>9, <1>10,
         <1>11, <1>12, <1>13, <1>14, <1>15, <1>16, <1>17, <1>18, <1>19, <1>20,
         <1>21, <1>22, <1>23, <1>24, <1>25, <1>26, <1>27, <1>28, <1>29, <1>30,
         <1>31, <1>32, <1>33, <1>34, <1>35, <1>36, <1>37, <1>38, <1>39
    DEF Next, FlushBuffer, Events, Completing, User, WriteThread, HashThread,
        Worker, Shutdown

\* ReportedInv: a write is reported after it, a hash after reading the part.
LEMMA ReportedStep ==
  ASSUME ThreadsInv, ReportedInv, [Next]_vars
  PROVE  ReportedInv'
  <1> USE PartFileConstants DEF ReportedInv, OnDisk, fileVars, stateVars,
    bufferVars, mainVars, writeVars, hashVars, taskVars, threadVars,
    boundVars, histVars
  <1>0. /\ FlagTypes /\ PlaceTypes /\ DataTypes /\ ListTypes
        /\ MainInv /\ WriterInv /\ HasherInv /\ BufferInv /\ HarvestInv
    BY TypeParts DEF ThreadsInv
  <1>a. \A b \in Blocks : disk[b] # "none" => disk'[b] # "none"
    BY DiskStep DEF DiskGrows
  <1>b. \A i \in Ids : i <= received => item'[i].blk = item[i].blk
    BY ItemsStep DEF ItemsKeepBlock
  <1>c. \A i \in Ids : item[i].blk \in Blocks
    BY <1>0 DEF DataTypes
  <1>d. \A p : BlocksOf(p) \subseteq Blocks
    BY DEF BlocksOf
  <1>e. wpc \in {"write", "dec", "mark"} =>
          Head(wWork) \in Ids /\ Head(wWork) <= received /\ Head(wWork) \in ToSet(wWork)
    BY <1>0, ToSetTail, ToSetBasics DEF WriterInv, BufferInv, ListTypes
  <1>1. CASE SourceAccepts
    BY <1>1 DEF SourceAccepts, GetStatus
  <1>2. ASSUME NEW b \in Blocks, NEW d \in {"good", "bad"},
               WriteToBuffer(b, d)
        PROVE  ReportedInv'
    <2>1. received + 1 \in Ids
      BY <1>2, <1>0 DEF WriteToBuffer, DataTypes, Ids
    <2>2. item' = [item EXCEPT ![received + 1] =
                     [blk |-> b, data |-> d, flushed |-> "PB_READY"]]
      BY <1>2 DEF WriteToBuffer
    <2>3. \A i \in Ids : /\ i # received + 1 => item'[i] = item[i]
                         /\ i = received + 1 => item'[i].flushed = "PB_READY"
      BY <1>0, <2>1, <2>2 DEF DataTypes
    <2>4. wpc \in {"dec", "mark"} => item'[Head(wWork)] = item[Head(wWork)]
      BY <1>0, <1>e, <2>3 DEF DataTypes, Ids
    <2> QED BY <1>2, <2>3, <2>4 DEF WriteToBuffer
  <1>3. CASE Process
    BY <1>3 DEF Process, CallFlush
  <1>4. CASE FlushNoSpace
    BY <1>4 DEF FlushNoSpace, Return, PauseFile, Fail
  <1>5. CASE FlushQueue
    <2>1. CASE m_bRun.write
      <3>1. \A i \in Ids : /\ item'[i].blk = item[i].blk
                           /\ item'[i].flushed = "PB_WRITTEN" => item[i].flushed = "PB_WRITTEN"
        BY <1>5, <1>0, <2>1, QueueFacts
      <3> QED BY <1>5, <1>e, <3>1 DEF FlushQueue
    <2>2. CASE ~m_bRun.write
      BY <1>5, <2>2 DEF FlushQueue
    <2> QED BY <2>1, <2>2
  <1>6. CASE FlushHarvest
    <2>1. Here \in Ids
      BY <1>6, <1>0, HereFacts DEF FlushHarvest, PlaceTypes
    <2>2. \A i \in Ids : /\ item'[i].blk = item[i].blk
                         /\ item'[i].flushed = "PB_WRITTEN" => item[i].flushed = "PB_WRITTEN"
      BY <1>6, <1>0, <2>1 DEF FlushHarvest, DataTypes
    <2> QED BY <1>6, <1>e, <2>2 DEF FlushHarvest
  <1>7. CASE FlushWrite
    <2>1. UNCHANGED <<item, wpc, wOk, wWork, hpc, hOk, hWork, matches, events>>
      BY <1>7 DEF FlushWrite
    <2> QED BY <1>a, <1>c, <1>d, <1>e, <2>1
  <1>8. CASE FlushLength
    BY <1>8 DEF FlushLength, Goto, Return, Fail
  <1>9. CASE FlushShare
    BY <1>9 DEF FlushShare, Goto
  <1>10. CASE FlushHash
    BY <1>10 DEF FlushHash, Goto, Return
  <1>11. CASE FlushSweep
    BY <1>11 DEF FlushSweep, Harvest
  <1>12. CASE FlushTail
    BY <1>12 DEF FlushTail, Return, AddTask
  <1>13. CASE OnAsyncHashComplete
    <2>1. events # <<>> /\ events' = Tail(events)
      BY <1>13 DEF OnAsyncHashComplete, IsEvent
    <2>2. \A e \in ToSet(events') : e \in ToSet(events)
      BY <1>0, <2>1, EventTail
    <2> QED BY <1>13, <2>2 DEF OnAsyncHashComplete
  <1>14. CASE PartFileHashFinished
    <2>1. events # <<>> /\ events' = Tail(events)
      BY <1>14 DEF PartFileHashFinished, IsEvent
    <2>2. \A e \in ToSet(events') : e \in ToSet(events)
      BY <1>0, <2>1, EventTail
    <2> QED BY <1>14, <2>2 DEF PartFileHashFinished
  <1>15. CASE CompleteFileEnded
    <2>1. events # <<>> /\ events' = Tail(events)
      BY <1>15 DEF CompleteFileEnded, IsEvent
    <2>2. \A e \in ToSet(events') : e \in ToSet(events)
      BY <1>0, <2>1, EventTail
    <2> QED BY <1>15, <2>2 DEF CompleteFileEnded
  <1>16. CASE CompleteStopped
    BY <1>16 DEF CompleteStopped, CallFlush
  <1>17. CASE PerformFileComplete
    BY <1>17 DEF PerformFileComplete, AddTask, Goto
  <1>18. CASE UserPause
    BY <1>18 DEF UserPause, UserMay, PauseFile
  <1>19. CASE UserStop
    BY <1>19 DEF UserStop, UserMay, StopFile, PauseFile, CallFlush
  <1>20. CASE UserResume
    BY <1>20 DEF UserResume, UserMay, CallFlush
  <1>21. CASE UserDelete
    BY <1>21 DEF UserDelete, UserMay, StopFile, PauseFile, Goto
  <1>22. CASE DeleteFree
    <2>1. ToSet(events') = {}
      BY <1>22, EmptyList DEF DeleteFree
    <2> QED BY <1>22, <2>1 DEF DeleteFree
  <1>23. CASE WriteTake
    BY <1>23 DEF WriteTake, WriteUnchanged
  <1>24. CASE WriteFlushAt
    <2>1. /\ UNCHANGED <<item, wWork, hpc, hOk, hWork, matches, events>>
          /\ wOk' => disk' = [disk EXCEPT ![item[Head(wWork)].blk] = item[Head(wWork)].data]
          /\ wpc = "write"
      BY <1>24 DEF WriteFlushAt, WriteUnchanged
    <2>2. item[Head(wWork)].data # "none"
      BY <1>0, <1>e, <2>1 DEF DataTypes
    <2>3. wOk' => disk'[item[Head(wWork)].blk] # "none"
      BY <1>0, <1>c, <1>e, <2>1, <2>2 DEF DataTypes
    <2> QED BY <1>a, <1>c, <1>d, <2>1, <2>3
  <1>25. CASE WriteDecrement
    BY <1>25 DEF WriteDecrement, WriteUnchanged
  <1>26. CASE WriteMark
    <2> DEFINE flag == IF wOk THEN "PB_WRITTEN" ELSE "PB_ERROR"
               h == Head(wWork)
    <2>1. /\ item' = [item EXCEPT ![h].flushed = flag] /\ wpc = "mark"
          /\ wpc' \notin {"dec", "mark"}
          /\ UNCHANGED <<disk, hpc, hOk, hWork, matches, events>>
      BY <1>26 DEF WriteMark, WriteUnchanged
    <2>2. /\ h \in Ids
          /\ flag = "PB_WRITTEN" => disk[item[h].blk] # "none"
      BY <1>e, <2>1
    <2> HIDE DEF flag, h
    <2>3. \A i \in Ids : /\ item'[i].blk = item[i].blk
                         /\ i # h => item'[i].flushed = item[i].flushed
                         /\ item'[h].flushed = flag
      BY <1>0, <2>1, <2>2 DEF DataTypes
    <2> QED BY <2>1, <2>2, <2>3
  <1>27. CASE HashTake
    BY <1>27 DEF HashTake, HashUnchanged
  <1>28. CASE HashSinglePart
    <2>1. hOk' => HashOK(Head(hWork))
      BY <1>28 DEF HashSinglePart
    <2>2. hOk' => OnDisk(Head(hWork))
      BY <2>1 DEF HashOK
    <2> QED BY <1>28, <2>2 DEF HashSinglePart, HashUnchanged
  <1>29. CASE HashPost
    <2> DEFINE e == [kind |-> "part", part |-> Head(hWork), ok |-> hOk]
    <2>1. hpc = "post" /\ events' = Append(events, e)
      BY <1>29 DEF HashPost
    <2>2. e \in Event
      BY <1>0, <2>1 DEF Event, HasherInv, ListTypes, FlagTypes
    <2>3. ToSet(events') = ToSet(events) \cup {e}
      BY <1>0, <2>1, <2>2, EventAppend
    <2>4. /\ e.kind = "part" /\ e.ok => OnDisk(e.part)
          /\ e.kind # "hashed"
      BY <2>1
    <2> HIDE DEF e
    <2> QED BY <1>29, <2>3, <2>4 DEF HashPost, HashUnchanged
  <1>30. CASE HashDecrement
    BY <1>30 DEF HashDecrement, HashUnchanged
  <1>31. CASE HashingTaskPart
    <2> DEFINE p == CHOOSE q \in Parts \ scanned : \A r \in Parts \ scanned : q <= r
    <2>1. matches' = IF HashOK(p) THEN matches \cup {p} ELSE matches
      BY <1>31 DEF HashingTaskPart
    <2>2. HashOK(p) => OnDisk(p)
      BY DEF HashOK
    <2> HIDE DEF p
    <2> QED BY <1>31, <2>1, <2>2 DEF HashingTaskPart, TaskUnchanged
  <1>32. CASE HashingTaskFails
    BY <1>32 DEF HashingTaskFails, TaskUnchanged, Fail
  <1>33. CASE HashingTaskEnds
    <2> DEFINE e == [kind |-> "hashed", matches |-> matches]
    <2>1. events' = Append(events, e) /\ matches' = {}
      BY <1>33 DEF HashingTaskEnds
    <2>2. e \in Event
      BY <1>0 DEF Event, DataTypes
    <2>3. ToSet(events') = ToSet(events) \cup {e}
      BY <1>0, <2>1, <2>2, EventAppend
    <2>4. e.kind = "hashed" /\ e.matches = matches
      OBVIOUS
    <2> HIDE DEF e
    <2> QED BY <1>33, <2>1, <2>3, <2>4 DEF HashingTaskEnds, TaskUnchanged
  <1>34. CASE CompletionTask
    <2>1. PICK ok \in BOOLEAN : events' = Append(events, [kind |-> "completed", ok |-> ok])
      BY <1>34 DEF CompletionTask
    <2> DEFINE e == [kind |-> "completed", ok |-> ok]
    <2>2. e \in Event
      BY DEF Event
    <2>3. ToSet(events') = ToSet(events) \cup {e}
      BY <1>0, <2>1, <2>2, EventAppend
    <2>4. e.kind = "completed"
      OBVIOUS
    <2> HIDE DEF e
    <2> QED BY <1>34, <2>3, <2>4 DEF CompletionTask, TaskUnchanged
  <1>35. CASE ShutDown
    BY <1>35 DEF ShutDown, Goto
  <1>36. CASE EndHashThread
    BY <1>36 DEF EndHashThread, Goto
  <1>37. CASE EndWriteThread
    BY <1>37 DEF EndWriteThread, WriteThreadEnded, CallFlush, Goto
  <1>38. CASE SyncHashAndSave
    BY <1>38 DEF SyncHashAndSave, Fail, Goto
  <1>39. CASE UNCHANGED vars
    BY <1>39 DEF vars
  <1> HIDE DEF ReportedInv, OnDisk, fileVars, stateVars, bufferVars, mainVars,
    writeVars, hashVars, taskVars, threadVars, boundVars, histVars
  <1> QED BY <1>1, <1>2, <1>3, <1>4, <1>5, <1>6, <1>7, <1>8, <1>9, <1>10,
         <1>11, <1>12, <1>13, <1>14, <1>15, <1>16, <1>17, <1>18, <1>19, <1>20,
         <1>21, <1>22, <1>23, <1>24, <1>25, <1>26, <1>27, <1>28, <1>29, <1>30,
         <1>31, <1>32, <1>33, <1>34, <1>35, <1>36, <1>37, <1>38, <1>39
    DEF Next, FlushBuffer, Events, Completing, User, WriteThread, HashThread,
        Worker, Shutdown

\* ErrorInv: PS_ERROR, PB_ERROR and a failed completion need a disk error.
LEMMA ErrorStep ==
  ASSUME ThreadsInv, ErrorInv, [Next]_vars
  PROVE  ErrorInv'
  <1> USE PartFileConstants DEF ErrorInv, fileVars, stateVars, bufferVars,
    mainVars, writeVars, hashVars, taskVars, threadVars, boundVars, histVars
  <1>0. /\ FlagTypes /\ PlaceTypes /\ DataTypes /\ ListTypes
        /\ MainInv /\ WriterInv /\ HasherInv /\ BufferInv /\ HarvestInv
    BY TypeParts DEF ThreadsInv
  <1>a. errors \in Nat /\ ToSet(events) \subseteq Event
    BY <1>0, ToSetBasics DEF DataTypes, ListTypes
  <1>1. CASE SourceAccepts
    BY <1>1 DEF SourceAccepts, GetStatus
  <1>2. ASSUME NEW b \in Blocks, NEW d \in {"good", "bad"},
               WriteToBuffer(b, d)
        PROVE  ErrorInv'
    <2>1. item' = [item EXCEPT ![received + 1] =
                     [blk |-> b, data |-> d, flushed |-> "PB_READY"]]
      BY <1>2 DEF WriteToBuffer
    <2>2. \A i \in Ids : item'[i].flushed \in {item[i].flushed, "PB_READY"}
      BY <1>0, <2>1 DEF DataTypes
    <2> QED BY <1>2, <2>2 DEF WriteToBuffer
  <1>3. CASE Process
    BY <1>3 DEF Process, CallFlush
  <1>4. CASE FlushNoSpace
    BY <1>4, <1>a DEF FlushNoSpace, Return, PauseFile, Fail
  <1>5. CASE FlushQueue
    <2>1. CASE m_bRun.write
      <3>1. \A i \in Ids : item'[i].flushed \in {item[i].flushed, "PB_PENDING"}
        BY <1>5, <1>0, <2>1, QueueFacts
      <3> QED BY <1>5, <3>1 DEF FlushQueue
    <2>2. CASE ~m_bRun.write
      BY <1>5, <2>2 DEF FlushQueue
    <2> QED BY <2>1, <2>2
  <1>6. CASE FlushHarvest
    <2>1. \A i \in Ids : item'[i].flushed \in {item[i].flushed, "PB_READY"}
      BY <1>6, <1>0 DEF FlushHarvest, DataTypes
    <2> QED BY <1>6, <2>1 DEF FlushHarvest
  <1>7. CASE FlushWrite
    BY <1>7, <1>a DEF FlushWrite, Harvest, Return, Fail
  <1>8. CASE FlushLength
    BY <1>8, <1>a DEF FlushLength, Goto, Return, Fail
  <1>9. CASE FlushShare
    BY <1>9 DEF FlushShare, Goto
  <1>10. CASE FlushHash
    BY <1>10 DEF FlushHash, Goto, Return
  <1>11. CASE FlushSweep
    BY <1>11 DEF FlushSweep, Harvest
  <1>12. CASE FlushTail
    BY <1>12 DEF FlushTail, Return, AddTask
  <1>13. CASE OnAsyncHashComplete
    <2>1. events # <<>> /\ events' = Tail(events)
      BY <1>13 DEF OnAsyncHashComplete, IsEvent
    <2>2. \A e \in ToSet(events') : e \in ToSet(events)
      BY <1>0, <2>1, EventTail
    <2> QED BY <1>13, <2>2 DEF OnAsyncHashComplete
  <1>14. CASE PartFileHashFinished
    <2>1. events # <<>> /\ events' = Tail(events)
      BY <1>14 DEF PartFileHashFinished, IsEvent
    <2>2. \A e \in ToSet(events') : e \in ToSet(events)
      BY <1>0, <2>1, EventTail
    <2> QED BY <1>14, <2>2 DEF PartFileHashFinished
  <1>15. CASE CompleteFileEnded
    <2>1. events # <<>> /\ events' = Tail(events) /\ Head(events).kind = "completed"
      BY <1>15 DEF CompleteFileEnded, IsEvent
    <2>2. /\ Head(events) \in ToSet(events)
          /\ \A e \in ToSet(events') : e \in ToSet(events)
      BY <1>0, <2>1, EventTail
    <2> QED BY <1>15, <2>1, <2>2 DEF CompleteFileEnded
  <1>16. CASE CompleteStopped
    BY <1>16 DEF CompleteStopped, CallFlush
  <1>17. CASE PerformFileComplete
    BY <1>17 DEF PerformFileComplete, AddTask, Goto
  <1>18. CASE UserPause
    BY <1>18 DEF UserPause, UserMay, PauseFile
  <1>19. CASE UserStop
    BY <1>19 DEF UserStop, UserMay, StopFile, PauseFile, CallFlush
  <1>20. CASE UserResume
    BY <1>20 DEF UserResume, UserMay, CallFlush
  <1>21. CASE UserDelete
    BY <1>21 DEF UserDelete, UserMay, StopFile, PauseFile, Goto
  <1>22. CASE DeleteFree
    <2>1. ToSet(events') = {}
      BY <1>22, EmptyList DEF DeleteFree
    <2> QED BY <1>22, <2>1 DEF DeleteFree
  <1>23. CASE WriteTake
    BY <1>23 DEF WriteTake, WriteUnchanged
  <1>24. CASE WriteFlushAt
    BY <1>24, <1>a DEF WriteFlushAt, WriteUnchanged, Fail
  <1>25. CASE WriteDecrement
    BY <1>25 DEF WriteDecrement, WriteUnchanged
  <1>26. CASE WriteMark
    <2> DEFINE flag == IF wOk THEN "PB_WRITTEN" ELSE "PB_ERROR"
    <2>1. /\ item' = [item EXCEPT ![Head(wWork)].flushed = flag] /\ wpc = "mark"
          /\ wpc' \notin {"dec", "mark"} /\ UNCHANGED <<status, forced, errors, events>>
      BY <1>26 DEF WriteMark, WriteUnchanged
    <2>2. errors = 0 => flag # "PB_ERROR"
      BY <2>1
    <2> HIDE DEF flag
    <2>3. \A i \in Ids : item'[i].flushed \in {item[i].flushed, flag}
      BY <1>0, <2>1 DEF DataTypes
    <2> QED BY <2>1, <2>2, <2>3
  <1>27. CASE HashTake
    BY <1>27 DEF HashTake, HashUnchanged
  <1>28. CASE HashSinglePart
    BY <1>28, <1>a DEF HashSinglePart, HashUnchanged, Fail
  <1>29. CASE HashPost
    <2> DEFINE e == [kind |-> "part", part |-> Head(hWork), ok |-> hOk]
    <2>1. events' = Append(events, e)
      BY <1>29 DEF HashPost
    <2>2. e \in Event
      BY <1>29, <1>0 DEF HashPost, Event, HasherInv, ListTypes, FlagTypes, DataTypes
    <2>3. ToSet(events') = ToSet(events) \cup {e}
      BY <1>0, <2>1, <2>2, EventAppend
    <2>4. e.kind # "completed"
      OBVIOUS
    <2> HIDE DEF e
    <2> QED BY <1>29, <2>3, <2>4 DEF HashPost, HashUnchanged
  <1>30. CASE HashDecrement
    BY <1>30 DEF HashDecrement, HashUnchanged
  <1>31. CASE HashingTaskPart
    BY <1>31 DEF HashingTaskPart, TaskUnchanged
  <1>32. CASE HashingTaskFails
    BY <1>32, <1>a DEF HashingTaskFails, TaskUnchanged, Fail
  <1>33. CASE HashingTaskEnds
    <2> DEFINE e == [kind |-> "hashed", matches |-> matches]
    <2>1. events' = Append(events, e)
      BY <1>33 DEF HashingTaskEnds
    <2>2. e \in Event
      BY <1>33, <1>0 DEF HashingTaskEnds, Event, HasherInv, ListTypes, FlagTypes, DataTypes
    <2>3. ToSet(events') = ToSet(events) \cup {e}
      BY <1>0, <2>1, <2>2, EventAppend
    <2>4. e.kind # "completed"
      OBVIOUS
    <2> HIDE DEF e
    <2> QED BY <1>33, <2>3, <2>4 DEF HashingTaskEnds, TaskUnchanged
  <1>34. CASE CompletionTask
    <2>1. PICK ok \in BOOLEAN : /\ events' = Append(events, [kind |-> "completed", ok |-> ok])
                                /\ ~ok => errors' # 0
      <3>1. \/ events' = Append(events, [kind |-> "completed", ok |-> TRUE])
            \/ /\ events' = Append(events, [kind |-> "completed", ok |-> FALSE])
               /\ errors' # 0
        BY <1>34, <1>a DEF CompletionTask, Fail
      <3> QED BY <3>1, Zenon
    <2> DEFINE e == [kind |-> "completed", ok |-> ok]
    <2>2. e \in Event
      BY DEF Event
    <2>3. ToSet(events') = ToSet(events) \cup {e}
      BY <1>0, <2>1, <2>2, EventAppend
    <2>4. e.ok \/ errors' # 0
      BY <2>1
    <2>5. errors' = 0 => errors = 0
      BY <1>34, <1>a DEF CompletionTask, Fail
    <2> HIDE DEF e
    <2> QED BY <1>34, <2>3, <2>4, <2>5 DEF CompletionTask, TaskUnchanged
  <1>35. CASE ShutDown
    BY <1>35 DEF ShutDown, Goto
  <1>36. CASE EndHashThread
    BY <1>36 DEF EndHashThread, Goto
  <1>37. CASE EndWriteThread
    BY <1>37 DEF EndWriteThread, WriteThreadEnded, CallFlush, Goto
  <1>38. CASE SyncHashAndSave
    BY <1>38, <1>a DEF SyncHashAndSave, Fail, Goto
  <1>39. CASE UNCHANGED vars
    BY <1>39 DEF vars
  <1> HIDE DEF ErrorInv, fileVars, stateVars, bufferVars, mainVars, writeVars,
    hashVars, taskVars, threadVars, boundVars, histVars
  <1> QED BY <1>1, <1>2, <1>3, <1>4, <1>5, <1>6, <1>7, <1>8, <1>9, <1>10,
         <1>11, <1>12, <1>13, <1>14, <1>15, <1>16, <1>17, <1>18, <1>19, <1>20,
         <1>21, <1>22, <1>23, <1>24, <1>25, <1>26, <1>27, <1>28, <1>29, <1>30,
         <1>31, <1>32, <1>33, <1>34, <1>35, <1>36, <1>37, <1>38, <1>39
    DEF Next, FlushBuffer, Events, Completing, User, WriteThread, HashThread,
        Worker, Shutdown

\* AccountedInv: an item leaves the buffer only when its block is written.
LEMMA AccountedStep ==
  ASSUME ThreadsInv, ReportedInv, AccountedInv, [Next]_vars
  PROVE  AccountedInv'
  <1> USE PartFileConstants DEF AccountedInv, Accounted, IsRunning, Gone,
    fileVars, stateVars, bufferVars, mainVars, writeVars, hashVars, taskVars,
    threadVars, boundVars, histVars
  <1>0. /\ FlagTypes /\ PlaceTypes /\ DataTypes /\ ListTypes
        /\ MainInv /\ WriterInv /\ HasherInv /\ BufferInv /\ HarvestInv
    BY TypeParts DEF ThreadsInv
  <1>a. \A b \in Blocks : disk[b] # "none" => disk'[b] # "none"
    BY DiskStep DEF DiskGrows
  <1>b. \A i \in ToSet(m_BufferedData_list) : i \in Ids /\ item'[i].blk = item[i].blk
    BY <1>0, ItemsStep, ToSetBasics DEF ItemsKeepBlock, ListTypes, BufferInv
  <1>c. errors \in Nat /\ \A p : BlocksOf(p) \subseteq Blocks
    BY <1>0 DEF DataTypes, BlocksOf
  <1>1. CASE SourceAccepts
    BY <1>1 DEF SourceAccepts, GetStatus
  <1>2. ASSUME NEW b \in Blocks, NEW d \in {"good", "bad"},
               WriteToBuffer(b, d)
        PROVE  AccountedInv'
    <2>1. received + 1 \in Ids /\ IsRunning /\ ~Gone
      BY <1>2, <1>0 DEF WriteToBuffer, DataTypes, Ids
    <2>2. ToSet(m_BufferedData_list') = ToSet(m_BufferedData_list) \cup {received + 1}
      BY <1>2, <1>0, <2>1, InsertFacts DEF WriteToBuffer
    <2>3. item'[received + 1].blk = b
      BY <1>2, <1>0, <2>1 DEF WriteToBuffer, DataTypes
    <2>4. gaps' = gaps \ {b} /\ disk' = disk
      BY <1>2 DEF WriteToBuffer
    <2> QED BY <1>b, <2>1, <2>2, <2>3, <2>4
  <1>3. CASE Process
    BY <1>3 DEF Process, CallFlush
  <1>4. CASE FlushNoSpace
    BY <1>4, <1>0, <1>c DEF FlushNoSpace, Return, PauseFile, Fail, PlaceTypes
  <1>5. CASE FlushQueue
    <2>1. UNCHANGED <<gaps, disk, m_BufferedData_list, app, errors>> /\ ~Gone
      BY <1>5 DEF FlushQueue
    <2> QED BY <1>b, <2>1
  <1>6. CASE FlushHarvest
    <2>1. UNCHANGED <<gaps, disk, app, errors>> /\ ~Gone
      BY <1>6 DEF FlushHarvest
    <2>2. CASE UNCHANGED m_BufferedData_list
      BY <1>b, <2>1, <2>2
    <2>3. CASE Written(Here) /\ Harvest /\ UNCHANGED item
      <3>1. /\ ToSet(m_BufferedData_list) = ToSet(m_BufferedData_list') \cup {Here}
            /\ Here \in Ids
        BY <1>6, <1>0, <2>3, HarvestFacts, HereFacts DEF FlushHarvest, PlaceTypes
      <3>2. disk[item[Here].blk] # "none"
        BY <2>3, <3>1 DEF ReportedInv, Written
      <3> QED BY <2>1, <2>3, <3>1, <3>2
    <2> QED BY <1>6, <2>2, <2>3 DEF FlushHarvest
  <1>7. CASE FlushWrite
    <2>1. ~IsRunning /\ UNCHANGED <<gaps, item, app>> /\ mpc = "harvest"
      BY <1>7, FlushWriteAlone DEF FlushWrite
    <2> SUFFICES ASSUME errors' = 0
                 PROVE  Accounted'
      BY <2>1
    <2>2. /\ disk' = [disk EXCEPT ![item[Here].blk] = item[Here].data]
          /\ Harvest /\ errors = 0
      BY <1>7, <1>c DEF FlushWrite, Fail
    <2>3. /\ Here \in Ids /\ item[Here].blk \in Blocks
          /\ item[Here].data \in {"good", "bad"}
          /\ ToSet(m_BufferedData_list) = ToSet(m_BufferedData_list') \cup {Here}
      BY <1>7, <1>0, <2>2, HarvestFacts, HereFacts DEF FlushWrite, PlaceTypes
    <2>4. disk'[item[Here].blk] # "none"
      BY <1>0, <2>2, <2>3 DEF DataTypes
    <2>5. Accounted
      BY <2>1, <2>2
    <2> QED BY <1>a, <2>1, <2>3, <2>4, <2>5
  <1>8. CASE FlushLength
    BY <1>8, <1>0, <1>c DEF FlushLength, Goto, Return, Fail, PlaceTypes
  <1>9. CASE FlushShare
    BY <1>9 DEF FlushShare, Goto
  <1>10. CASE FlushHash
    BY <1>10, <1>0 DEF FlushHash, Goto, Return, PlaceTypes
  <1>11. CASE FlushSweep
    <2>1. UNCHANGED <<gaps, disk, item, app, errors>> /\ ~Gone
      BY <1>11 DEF FlushSweep
    <2>2. CASE UNCHANGED m_BufferedData_list
      BY <2>1, <2>2
    <2>3. CASE Written(Here) /\ Harvest
      <3>1. /\ ToSet(m_BufferedData_list) = ToSet(m_BufferedData_list') \cup {Here}
            /\ Here \in Ids
        BY <1>11, <1>0, <2>3, HarvestFacts, HereFacts DEF FlushSweep, PlaceTypes
      <3>2. disk[item[Here].blk] # "none"
        BY <2>3, <3>1 DEF ReportedInv, Written
      <3> QED BY <2>1, <2>3, <3>1, <3>2
    <2> QED BY <1>11, <2>2, <2>3 DEF FlushSweep
  <1>12. CASE FlushTail
    BY <1>12, <1>0 DEF FlushTail, Return, AddTask, PlaceTypes
  <1>13. CASE OnAsyncHashComplete
    <2> DEFINE e == Head(events)
    <2>1. e \in ToSet(events) /\ e.kind = "part" /\ IsRunning /\ ~Gone
      BY <1>13, <1>0, EventTail DEF OnAsyncHashComplete, IsEvent
    <2>2. e.ok => OnDisk(e.part)
      BY <2>1 DEF ReportedInv
    <2>3. /\ UNCHANGED <<disk, item, m_BufferedData_list>>
          /\ gaps \subseteq gaps' \/ (e.ok /\ gaps \ BlocksOf(e.part) \subseteq gaps')
      BY <1>13 DEF OnAsyncHashComplete
    <2> QED BY <2>1, <2>2, <2>3 DEF OnDisk
  <1>14. CASE PartFileHashFinished
    <2> DEFINE e == Head(events)
               ok == Head(events).matches
               filled == {p \in ok : ~IsComplete(p)}
    <2>1. e \in ToSet(events) /\ e.kind = "hashed" /\ IsRunning /\ ~Gone
      BY <1>14, <1>0, EventTail DEF PartFileHashFinished, IsEvent
    <2>2. \A p \in ok : OnDisk(p)
      BY <2>1 DEF ReportedInv
    <2>3. /\ UNCHANGED <<disk, item, m_BufferedData_list>>
          /\ gaps \ UNION {BlocksOf(p) : p \in filled} \subseteq gaps'
      BY <1>14 DEF PartFileHashFinished
    <2>4. \A b \in UNION {BlocksOf(p) : p \in filled} : disk[b] # "none"
      BY <2>2 DEF OnDisk
    <2> HIDE DEF filled
    <2> QED BY <2>1, <2>3, <2>4
  <1>15. CASE CompleteFileEnded
    BY <1>15 DEF CompleteFileEnded, IsEvent
  <1>16. CASE CompleteStopped
    BY <1>16 DEF CompleteStopped, CallFlush
  <1>17. CASE PerformFileComplete
    BY <1>17 DEF PerformFileComplete, AddTask, Goto
  <1>18. CASE UserPause
    BY <1>18 DEF UserPause, UserMay, PauseFile
  <1>19. CASE UserStop
    BY <1>19 DEF UserStop, UserMay, StopFile, PauseFile, CallFlush
  <1>20. CASE UserResume
    BY <1>20 DEF UserResume, UserMay, CallFlush
  <1>21. CASE UserDelete
    BY <1>21 DEF UserDelete, UserMay, StopFile, PauseFile, Goto
  <1>22. CASE DeleteFree
    BY <1>22 DEF DeleteFree, Goto
  <1>23. CASE WriteTake
    BY <1>23 DEF WriteTake, WriteUnchanged
  <1>24. CASE WriteFlushAt
    <2>1. UNCHANGED <<gaps, item, m_BufferedData_list, app, mpc>> /\ (errors' = 0 => errors = 0)
      BY <1>24, <1>c DEF WriteFlushAt, WriteUnchanged, Fail
    <2> QED BY <1>a, <2>1
  <1>25. CASE WriteDecrement
    BY <1>25 DEF WriteDecrement, WriteUnchanged
  <1>26. CASE WriteMark
    <2>1. UNCHANGED <<gaps, disk, m_BufferedData_list, app, mpc, errors>>
      BY <1>26 DEF WriteMark, WriteUnchanged
    <2> QED BY <1>b, <2>1
  <1>27. CASE HashTake
    BY <1>27 DEF HashTake, HashUnchanged
  <1>28. CASE HashSinglePart
    BY <1>28, <1>c DEF HashSinglePart, HashUnchanged, Fail
  <1>29. CASE HashPost
    BY <1>29 DEF HashPost, HashUnchanged
  <1>30. CASE HashDecrement
    BY <1>30 DEF HashDecrement, HashUnchanged
  <1>31. CASE HashingTaskPart
    BY <1>31 DEF HashingTaskPart, TaskUnchanged
  <1>32. CASE HashingTaskFails
    BY <1>32, <1>c DEF HashingTaskFails, TaskUnchanged, Fail
  <1>33. CASE HashingTaskEnds
    BY <1>33 DEF HashingTaskEnds, TaskUnchanged
  <1>34. CASE CompletionTask
    BY <1>34, <1>c DEF CompletionTask, TaskUnchanged, Fail
  <1>35. CASE ShutDown
    BY <1>35 DEF ShutDown, Goto
  <1>36. CASE EndHashThread
    BY <1>36 DEF EndHashThread, Goto
  <1>37. CASE EndWriteThread
    BY <1>37 DEF EndWriteThread, WriteThreadEnded, CallFlush, Goto
  <1>38. CASE SyncHashAndSave
    BY <1>38 DEF SyncHashAndSave, Fail, Goto
  <1>39. CASE UNCHANGED vars
    BY <1>39 DEF vars
  <1> HIDE DEF AccountedInv, Accounted, IsRunning, Gone, fileVars, stateVars,
    bufferVars, mainVars, writeVars, hashVars, taskVars, threadVars,
    boundVars, histVars
  <1> QED BY <1>1, <1>2, <1>3, <1>4, <1>5, <1>6, <1>7, <1>8, <1>9, <1>10,
         <1>11, <1>12, <1>13, <1>14, <1>15, <1>16, <1>17, <1>18, <1>19, <1>20,
         <1>21, <1>22, <1>23, <1>24, <1>25, <1>26, <1>27, <1>28, <1>29, <1>30,
         <1>31, <1>32, <1>33, <1>34, <1>35, <1>36, <1>37, <1>38, <1>39
    DEF Next, FlushBuffer, Events, Completing, User, WriteThread, HashThread,
        Worker, Shutdown

\* ClosingInv: the last flush of ~CPartFile empties the buffer.
LEMMA ClosingStep ==
  ASSUME ThreadsInv, BytesInv, [Next]_vars
  PROVE  ClosingInv'
  <1> USE PartFileConstants DEF ClosingInv, AllOnDisk, fileVars, stateVars,
    bufferVars, mainVars, writeVars, hashVars, taskVars, threadVars,
    boundVars, histVars
  <1>0. /\ FlagTypes /\ PlaceTypes /\ DataTypes /\ ListTypes
        /\ MainInv /\ WriterInv /\ HasherInv /\ BufferInv /\ HarvestInv
    BY TypeParts DEF ThreadsInv
  <1>a. \A b \in Blocks : disk[b] # "none" => disk'[b] # "none"
    BY DiskStep DEF DiskGrows
  <1>i. ErrorInv /\ AccountedInv /\ ClosingInv /\ CompletionInv
    BY DEF BytesInv
  <1> USE <1>i
  <1>b. errors \in Nat /\ \A p : BlocksOf(p) \subseteq Blocks
    BY <1>0 DEF DataTypes, BlocksOf
  <1>1. CASE SourceAccepts
    BY <1>1 DEF SourceAccepts, GetStatus
  <1>2. ASSUME NEW b \in Blocks, NEW d \in {"good", "bad"},
               WriteToBuffer(b, d)
        PROVE  ClosingInv'
    BY <1>2 DEF WriteToBuffer
  <1>3. CASE Process
    BY <1>3 DEF Process, CallFlush
  <1>4. CASE FlushNoSpace
    BY <1>4, <1>0, <1>b DEF FlushNoSpace, Return, PauseFile, Fail, PlaceTypes
  <1>5. CASE FlushQueue
    BY <1>5 DEF FlushQueue, Goto
  <1>6. CASE FlushHarvest
    <2>1. UNCHANGED <<gaps, disk, handle, mpc, errors, m_bRun>> /\ mpc = "harvest"
      BY <1>6 DEF FlushHarvest
    <2>2. ASSUME errors = 0, ~m_bRun.write
          PROVE  at' = at
      <3>1. wpc = "exited" /\ ~Gone
        BY <1>0, <2>1, <2>2 DEF MainInv, Flushing, Gone
      <3>2. wWork = <<>> /\ m_flushList = <<>>
        BY <1>0, <3>1 DEF WriterInv
      <3>3. ToSet(wWork) = {} /\ ToSet(m_flushList) = {}
        BY <3>2, EmptyList
      <3>4. Here \in Ids /\ Here \in ToSet(m_BufferedData_list)
        BY <1>6, <1>0, HereFacts DEF FlushHarvest, PlaceTypes
      <3>5. item[Here].flushed # "PB_PENDING"
        BY <1>0, <3>1, <3>3, <3>4 DEF BufferInv
      <3>6. item[Here].flushed # "PB_ERROR"
        BY <2>2, <3>4 DEF ErrorInv
      <3> QED BY <1>6, <3>5, <3>6 DEF FlushHarvest
    <2> QED BY <2>1, <2>2
  <1>7. CASE FlushWrite
    <2>1. /\ UNCHANGED <<gaps, handle, m_bRun>> /\ mpc = "harvest"
          /\ errors' = 0 => errors = 0 /\ UNCHANGED <<mpc, at>>
      BY <1>7, <1>b DEF FlushWrite, Fail
    <2> QED BY <1>a, <2>1
  <1>8. CASE FlushLength
    <2>1. /\ mpc = "harvest" /\ at > Len(m_BufferedData_list)
          /\ UNCHANGED <<gaps, handle, m_bRun, disk, m_BufferedData_list>>
          /\ errors' = 0 => errors = 0
      BY <1>8, <1>b DEF FlushLength, Fail
    <2>2. CASE IsRunning
      BY <1>8, <2>1, <2>2 DEF FlushLength, Goto
    <2>3. CASE ~IsRunning
      <3>1. mpc' = "dtor" /\ ~m_bRun.write
        BY <1>8, <1>0, <2>1, <2>3 DEF FlushLength, Return, MainInv, Flushing
      <3>2. at = 1 => m_BufferedData_list = <<>>
        BY <1>0, <2>1, ToSetBasics DEF ListTypes
      <3> QED BY <2>1, <3>1, <3>2
    <2> QED BY <2>2, <2>3
  <1>9. CASE FlushShare
    BY <1>9 DEF FlushShare, Goto
  <1>10. CASE FlushHash
    BY <1>10, <1>0 DEF FlushHash, Goto, Return, PlaceTypes, MainInv, Flushing
  <1>11. CASE FlushSweep
    BY <1>11, <1>0 DEF FlushSweep, Harvest
  <1>12. CASE FlushTail
    BY <1>12, <1>0 DEF FlushTail, Return, AddTask, PlaceTypes, MainInv,
       Flushing
  <1>13. CASE OnAsyncHashComplete
    BY <1>13 DEF OnAsyncHashComplete, IsEvent, AddTask
  <1>14. CASE PartFileHashFinished
    BY <1>14 DEF PartFileHashFinished, IsEvent, CallFlush
  <1>15. CASE CompleteFileEnded
    BY <1>15 DEF CompleteFileEnded, IsEvent
  <1>16. CASE CompleteStopped
    BY <1>16 DEF CompleteStopped, CallFlush
  <1>17. CASE PerformFileComplete
    <2>1. errors = 0 => AllOnDisk
      BY <1>17 DEF PerformFileComplete, CompletionInv, Finishing, ErrorInv
    <2> QED BY <1>17, <2>1 DEF PerformFileComplete, Goto
  <1>18. CASE UserPause
    BY <1>18 DEF UserPause, UserMay, PauseFile
  <1>19. CASE UserStop
    BY <1>19 DEF UserStop, UserMay, StopFile, PauseFile, CallFlush
  <1>20. CASE UserResume
    BY <1>20 DEF UserResume, UserMay, CallFlush
  <1>21. CASE UserDelete
    BY <1>21 DEF UserDelete, UserMay, StopFile, PauseFile, Goto
  <1>22. CASE DeleteFree
    BY <1>22 DEF DeleteFree, Goto
  <1>23. CASE WriteTake
    BY <1>23 DEF WriteTake, WriteUnchanged
  <1>24. CASE WriteFlushAt
    <2>1. UNCHANGED <<gaps, handle, mpc, at, m_bRun, m_BufferedData_list>> /\ (errors' = 0 => errors = 0)
      BY <1>24, <1>b DEF WriteFlushAt, WriteUnchanged, Fail
    <2> QED BY <1>a, <2>1
  <1>25. CASE WriteDecrement
    BY <1>25 DEF WriteDecrement, WriteUnchanged
  <1>26. CASE WriteMark
    BY <1>26 DEF WriteMark, WriteUnchanged
  <1>27. CASE HashTake
    BY <1>27 DEF HashTake, HashUnchanged
  <1>28. CASE HashSinglePart
    BY <1>28, <1>b DEF HashSinglePart, HashUnchanged, Fail
  <1>29. CASE HashPost
    BY <1>29 DEF HashPost, HashUnchanged
  <1>30. CASE HashDecrement
    BY <1>30 DEF HashDecrement, HashUnchanged
  <1>31. CASE HashingTaskPart
    BY <1>31 DEF HashingTaskPart, TaskUnchanged
  <1>32. CASE HashingTaskFails
    BY <1>32, <1>b DEF HashingTaskFails, TaskUnchanged, Fail
  <1>33. CASE HashingTaskEnds
    BY <1>33 DEF HashingTaskEnds, TaskUnchanged
  <1>34. CASE CompletionTask
    BY <1>34, <1>b DEF CompletionTask, TaskUnchanged, Fail
  <1>35. CASE ShutDown
    BY <1>35 DEF ShutDown, Goto
  <1>36. CASE EndHashThread
    BY <1>36 DEF EndHashThread, Goto
  <1>37. CASE EndWriteThread
    BY <1>37 DEF EndWriteThread, WriteThreadEnded, CallFlush, Goto
  <1>38. CASE SyncHashAndSave
    <2>1. /\ mpc = "dtor" /\ mpc' = "closed" /\ UNCHANGED disk /\ gaps \subseteq gaps'
          /\ errors' = 0 => errors = 0
      BY <1>38, <1>b DEF SyncHashAndSave, Goto, Fail
    <2>2. errors = 0 => Accounted /\ m_BufferedData_list = <<>>
      BY <2>1 DEF AccountedInv, Gone
    <2>3. errors = 0 => \A b \in Blocks \ gaps : disk[b] # "none"
      BY <2>2, EmptyList DEF Accounted
    <2> QED BY <2>1, <2>3
  <1>39. CASE UNCHANGED vars
    BY <1>39 DEF vars
  <1> HIDE DEF ClosingInv, AllOnDisk, fileVars, stateVars, bufferVars,
    mainVars, writeVars, hashVars, taskVars, threadVars, boundVars, histVars
  <1> QED BY <1>1, <1>2, <1>3, <1>4, <1>5, <1>6, <1>7, <1>8, <1>9, <1>10,
         <1>11, <1>12, <1>13, <1>14, <1>15, <1>16, <1>17, <1>18, <1>19, <1>20,
         <1>21, <1>22, <1>23, <1>24, <1>25, <1>26, <1>27, <1>28, <1>29, <1>30,
         <1>31, <1>32, <1>33, <1>34, <1>35, <1>36, <1>37, <1>38, <1>39
    DEF Next, FlushBuffer, Events, Completing, User, WriteThread, HashThread,
        Worker, Shutdown

\* CompletionInv: ReadyToComplete sees an empty buffer and no gap.
LEMMA CompletionStep ==
  ASSUME ThreadsInv, BytesInv, [Next]_vars
  PROVE  CompletionInv'
  <1> USE PartFileConstants DEF CompletionInv, AllOnDisk, Finishing, Flushing,
    Busy, IsDone, fileVars, stateVars, bufferVars, mainVars, writeVars,
    hashVars, taskVars, threadVars, boundVars, histVars
  <1>0. /\ FlagTypes /\ PlaceTypes /\ DataTypes /\ ListTypes
        /\ MainInv /\ WriterInv /\ HasherInv /\ BufferInv /\ HarvestInv
    BY TypeParts DEF ThreadsInv
  <1>i. ReportedInv /\ AccountedInv /\ CompletionInv
    BY DEF BytesInv
  <1>a. \A b \in Blocks : disk[b] # "none" => disk'[b] # "none"
    BY DiskStep DEF DiskGrows
  <1>b. CompletionInv
    BY <1>i
  <1> USE <1>b
  <1>1. CASE SourceAccepts
    BY <1>1 DEF SourceAccepts, GetStatus
  <1>2. ASSUME NEW b \in Blocks, NEW d \in {"good", "bad"},
               WriteToBuffer(b, d)
        PROVE  CompletionInv'
    BY <1>2 DEF WriteToBuffer
  <1>3. CASE Process
    BY <1>3 DEF Process, CallFlush
  <1>4. CASE FlushNoSpace
    BY <1>4, <1>0 DEF FlushNoSpace, Return, PauseFile, Fail, PlaceTypes
  <1>5. CASE FlushQueue
    BY <1>5 DEF FlushQueue, Goto
  <1>6. CASE FlushHarvest
    BY <1>6 DEF FlushHarvest, Harvest
  <1>7. CASE FlushWrite
    <2>1. /\ mpc = "harvest" /\ mpc' \in {"harvest", ret}
          /\ UNCHANGED <<tasks, events, forced, ret>> /\ status' \in {status, "PS_ERROR"}
      BY <1>7 DEF FlushWrite, Return
    <2>2. Finishing' => Finishing
      BY <1>0, <2>1 DEF PlaceTypes
    <2> QED BY <1>a, <2>1, <2>2
  <1>8. CASE FlushLength
    BY <1>8, <1>0 DEF FlushLength, Goto, Return, Fail, PlaceTypes
  <1>9. CASE FlushShare
    BY <1>9 DEF FlushShare, Goto
  <1>10. CASE FlushHash
    BY <1>10, <1>0 DEF FlushHash, Goto, Return, PlaceTypes
  <1>11. CASE FlushSweep
    BY <1>11 DEF FlushSweep, Harvest
  <1>12. CASE FlushTail
    <2>1. /\ UNCHANGED <<disk, events, forced>> /\ mpc = "sweep" /\ mpc' = ret
      BY <1>12 DEF FlushTail, Return
    <2>2. CASE ReadyToComplete(status, gaps)
      <3>1. Accounted /\ gaps = {} /\ m_BufferedData_list = <<>>
        BY <1>0, <1>i, <2>1, <2>2 DEF ReadyToComplete, AccountedInv, MainInv, Gone
      <3>2. AllOnDisk
        BY <3>1, EmptyList DEF Accounted
      <3> QED BY <2>1, <3>2
    <2>3. CASE ~ReadyToComplete(status, gaps)
      BY <1>12, <1>0, <2>1, <2>3 DEF FlushTail, PlaceTypes
    <2> QED BY <2>2, <2>3
  <1>13. CASE OnAsyncHashComplete
    <2>1. /\ mpc = "idle" /\ events # <<>> /\ events' = Tail(events)
          /\ UNCHANGED <<disk, forced, mpc, m_BufferedData_list, app>>
      BY <1>13 DEF OnAsyncHashComplete, IsEvent
    <2>2. \A e \in ToSet(events') : e \in ToSet(events)
      BY <1>0, <2>1, EventTail
    <2>3. CASE m_BufferedData_list = <<>> /\ gaps' = {}
      <3>1. Accounted'
        BY <1>0, <1>i, <2>1, AccountedStep DEF AccountedInv, Gone, IsRunning, MainInv
      <3>2. AllOnDisk'
        BY <2>1, <2>3, <3>1, EmptyList DEF Accounted
      <3> QED BY <3>2
    <2>4. CASE ~(m_BufferedData_list = <<>> /\ gaps' = {})
      <3>1. tasks' = tasks /\ (status' = status \/ status' = "PS_READY")
        BY <1>13, <2>4 DEF OnAsyncHashComplete, ReadyToComplete
      <3> QED BY <2>1, <2>2, <3>1
    <2> QED BY <2>3, <2>4
  <1>14. CASE PartFileHashFinished
    <2>1. events # <<>> /\ Head(events).kind = "hashed"
      BY <1>14 DEF PartFileHashFinished, IsEvent
    <2>2. Busy /\ UNCHANGED <<disk, forced>>
      BY <1>14, <1>0, <2>1, ToSetTail DEF PartFileHashFinished, ListTypes
    <2> QED BY <2>2
  <1>15. CASE CompleteFileEnded
    <2>1. events # <<>> /\ Head(events).kind = "completed"
      BY <1>15 DEF CompleteFileEnded, IsEvent
    <2>2. Busy /\ UNCHANGED <<disk, forced>>
      BY <1>15, <1>0, <2>1, ToSetTail DEF CompleteFileEnded, ListTypes
    <2> QED BY <2>2
  <1>16. CASE CompleteStopped
    BY <1>16 DEF CompleteStopped, CallFlush
  <1>17. CASE PerformFileComplete
    BY <1>17 DEF PerformFileComplete, AddTask, Goto
  <1>18. CASE UserPause
    BY <1>18 DEF UserPause, UserMay, PauseFile
  <1>19. CASE UserStop
    BY <1>19 DEF UserStop, UserMay, StopFile, PauseFile, CallFlush
  <1>20. CASE UserResume
    BY <1>20 DEF UserResume, UserMay, CallFlush, CompletesOnResume
  <1>21. CASE UserDelete
    BY <1>21 DEF UserDelete, UserMay, StopFile, PauseFile, Goto
  <1>22. CASE DeleteFree
    <2>1. ToSet(events') = {}
      BY <1>22, EmptyList DEF DeleteFree
    <2> QED BY <1>22, <2>1 DEF DeleteFree, Goto
  <1>23. CASE WriteTake
    BY <1>23 DEF WriteTake, WriteUnchanged
  <1>24. CASE WriteFlushAt
    <2>1. UNCHANGED <<status, forced, tasks, events, mpc, ret>>
      BY <1>24 DEF WriteFlushAt, WriteUnchanged
    <2> QED BY <1>a, <2>1
  <1>25. CASE WriteDecrement
    BY <1>25 DEF WriteDecrement, WriteUnchanged
  <1>26. CASE WriteMark
    BY <1>26 DEF WriteMark, WriteUnchanged
  <1>27. CASE HashTake
    BY <1>27 DEF HashTake, HashUnchanged
  <1>28. CASE HashSinglePart
    BY <1>28 DEF HashSinglePart, HashUnchanged, Fail
  <1>29. CASE HashPost
    <2> DEFINE e == [kind |-> "part", part |-> Head(hWork), ok |-> hOk]
    <2>1. events' = Append(events, e) /\ UNCHANGED <<status, forced, tasks, mpc,
                                                     ret, disk>>
      BY <1>29 DEF HashPost, HashUnchanged
    <2>2. e \in Event
      BY <1>29, <1>0 DEF HashPost, Event, HasherInv, ListTypes, FlagTypes
    <2>3. ToSet(events') = ToSet(events) \cup {e}
      BY <1>0, <2>1, <2>2, EventAppend
    <2>4. ~IsDone(e)
      OBVIOUS
    <2> HIDE DEF e
    <2> QED BY <2>1, <2>3, <2>4
  <1>30. CASE HashDecrement
    BY <1>30 DEF HashDecrement, HashUnchanged
  <1>31. CASE HashingTaskPart
    BY <1>31 DEF HashingTaskPart, TaskUnchanged
  <1>32. CASE HashingTaskFails
    <2>1. tasks # <<>> /\ UNCHANGED <<status, forced, mpc, ret, disk>>
      BY <1>32 DEF HashingTaskFails, Running, TaskUnchanged
    <2> QED BY <2>1
  <1>33. CASE HashingTaskEnds
    <2>1. tasks # <<>> /\ UNCHANGED <<status, forced, mpc, ret, disk>>
      BY <1>33 DEF HashingTaskEnds, Running, TaskUnchanged
    <2> QED BY <2>1
  <1>34. CASE CompletionTask
    <2>1. tasks # <<>> /\ UNCHANGED <<status, forced, mpc, ret, disk>>
      BY <1>34 DEF CompletionTask, Running, TaskUnchanged
    <2> QED BY <2>1
  <1>35. CASE ShutDown
    BY <1>35 DEF ShutDown, Goto
  <1>36. CASE EndHashThread
    BY <1>36 DEF EndHashThread, Goto
  <1>37. CASE EndWriteThread
    BY <1>37 DEF EndWriteThread, WriteThreadEnded, CallFlush, Goto
  <1>38. CASE SyncHashAndSave
    BY <1>38 DEF SyncHashAndSave, Fail, Goto
  <1>39. CASE UNCHANGED vars
    BY <1>39 DEF vars
  <1> HIDE DEF CompletionInv, AllOnDisk, Finishing, Flushing, Busy, IsDone,
    fileVars, stateVars, bufferVars, mainVars, writeVars, hashVars, taskVars,
    threadVars, boundVars, histVars
  <1> QED BY <1>1, <1>2, <1>3, <1>4, <1>5, <1>6, <1>7, <1>8, <1>9, <1>10,
         <1>11, <1>12, <1>13, <1>14, <1>15, <1>16, <1>17, <1>18, <1>19, <1>20,
         <1>21, <1>22, <1>23, <1>24, <1>25, <1>26, <1>27, <1>28, <1>29, <1>30,
         <1>31, <1>32, <1>33, <1>34, <1>35, <1>36, <1>37, <1>38, <1>39
    DEF Next, FlushBuffer, Events, Completing, User, WriteThread, HashThread,
        Worker, Shutdown

\* BytesInv is inductive, given ThreadsInv.
LEMMA BytesStep ==
  ASSUME ThreadsInv, BytesInv, [Next]_vars
  PROVE  BytesInv'
  <1>1. ReportedInv /\ ErrorInv /\ AccountedInv
    BY DEF BytesInv
  <1>2. ReportedInv' /\ ErrorInv' /\ AccountedInv'
    BY <1>1, ReportedStep, ErrorStep, AccountedStep
  <1> QED BY <1>2, ClosingStep, CompletionStep DEF BytesInv

\* The initial state has no block to account for.
LEMMA BytesInit == Init => BytesInv
  <1> SUFFICES ASSUME Init PROVE BytesInv
    OBVIOUS
  <1>1. /\ ToSet(events) = {} /\ \A i \in Ids : item[i].flushed = "none"
        /\ gaps = Blocks /\ matches = {} /\ tasks = <<>> /\ wpc = "take" /\ hpc = "take"
        /\ mpc = "idle" /\ status = "PS_EMPTY" /\ handle
    BY EmptyList DEF Init, Unused
  <1>2. ~forced
    BY DEF Init
  <1>3. ReportedInv /\ ErrorInv
    BY <1>1, <1>2 DEF ReportedInv, ErrorInv
  <1>4. AccountedInv /\ ClosingInv
    BY <1>1 DEF AccountedInv, Accounted, ClosingInv
  <1>5. CompletionInv
    BY <1>1 DEF CompletionInv, Finishing, Flushing, Busy
  <1> QED BY <1>3, <1>4, <1>5 DEF BytesInv

\* BytesInv is an invariant of the specification, with or without errors.
THEOREM BytesInvariant == Spec => []BytesInv
  <1>1. Init => ThreadsInv /\ BytesInv
    BY ThreadsInit, BytesInit
  <1>2. (ThreadsInv /\ BytesInv) /\ [Next]_vars => (ThreadsInv /\ BytesInv)'
    BY ThreadsStep, BytesStep
  <1> QED BY <1>1, <1>2, PTL DEF Spec

(***************************************************************************)
(* A block whose gap WriteToBuffer has closed is on the disk or in the     *)
(* buffer, for every file, every bound and every pattern of errors.        *)
(***************************************************************************)
THEOREM BytesAreAccounted == Spec => []BytesAccounted
  <1>1. BytesInv => BytesAccounted
    BY DEF BytesInv, AccountedInv, Accounted, BytesAccounted
  <1> QED BY <1>1, BytesInvariant, PTL

(***************************************************************************)
(* The move to the incoming directory is never scheduled before every      *)
(* block is on the disk, except by ResumeFile of a file in error.          *)
(***************************************************************************)
THEOREM CompletionFindsAllBytes == Spec => []CompletionHasAllBytes
  <1>1. TypeOK /\ BytesInv => CompletionHasAllBytes
    <2> SUFFICES ASSUME TypeOK, BytesInv, ~forced, "complete" \in ToSet(tasks)
                 PROVE  AllOnDisk
      BY DEF CompletionHasAllBytes, AllOnDisk
    <2>1. tasks # <<>>
      BY EmptyList
    <2> QED BY <2>1 DEF BytesInv, CompletionInv, Busy
  <1> QED BY <1>1, TypeCorrect, BytesInvariant, PTL

(***************************************************************************)
(* Without disk errors ~CPartFile leaves no block that the .met calls      *)
(* present unwritten.                                                      *)
(***************************************************************************)
THEOREM ShutdownWritesAll == Spec => []ShutdownWrites
  <1>1. BytesInv => ShutdownWrites
    BY DEF BytesInv, ClosingInv, ShutdownWrites
  <1> QED BY <1>1, BytesInvariant, PTL

\* At most one full hash or completion among the events, after one is handled ...
LEMMA DoneTail ==
  ASSUME NEW s \in Seq(Event), s # <<>>, OneDone(s)
  PROVE  /\ OneDone(Tail(s))
         /\ IsDone(Head(s)) => \A e \in ToSet(Tail(s)) : ~IsDone(e)
  <1>1. /\ Len(s) \in Nat /\ Len(s) >= 1 /\ DOMAIN s = 1..Len(s) /\ Head(s) = s[1]
        /\ Tail(s) \in Seq(Event) /\ Len(Tail(s)) = Len(s) - 1
        /\ \A k \in 1..Len(Tail(s)) : Tail(s)[k] = s[k + 1]
        /\ DOMAIN Tail(s) = 1..Len(Tail(s))
    BY HeadTailProperties, LenProperties, ToSetBasics
  <1>2. OneDone(Tail(s))
    <2> SUFFICES ASSUME NEW k \in 1..Len(Tail(s)), NEW l \in 1..Len(Tail(s)),
                        IsDone(Tail(s)[k]), IsDone(Tail(s)[l])
                 PROVE  k = l
      BY <1>1 DEF OneDone
    <2>1. IsDone(s[k + 1]) /\ IsDone(s[l + 1]) /\ k + 1 \in DOMAIN s /\ l + 1 \in DOMAIN s
      BY <1>1
    <2>2. k + 1 = l + 1
      BY <2>1 DEF OneDone
    <2> QED BY <2>2
  <1>3. ASSUME IsDone(Head(s)), NEW e \in ToSet(Tail(s))
        PROVE  ~IsDone(e)
    <2>1. PICK k \in 1..Len(Tail(s)) : Tail(s)[k] = e
      BY <1>1, <1>3, ToSetBasics
    <2>2. s[k + 1] = e /\ k + 1 \in DOMAIN s /\ k + 1 # 1 /\ 1 \in DOMAIN s /\ IsDone(s[1])
      BY <1>1, <1>3, <2>1
    <2> QED BY <2>2 DEF OneDone
  <1> QED BY <1>2, <1>3

\* ... and after one is posted.
LEMMA DoneAppend ==
  ASSUME NEW s \in Seq(Event), NEW e \in Event, OneDone(s),
         IsDone(e) => \A f \in ToSet(s) : ~IsDone(f)
  PROVE  OneDone(Append(s, e))
  <1> DEFINE t == Append(s, e)
  <1>1. /\ Len(s) \in Nat /\ DOMAIN s = 1..Len(s) /\ t \in Seq(Event)
        /\ Len(t) = Len(s) + 1 /\ \A k \in 1..Len(s) : t[k] = s[k]
        /\ t[Len(s) + 1] = e /\ DOMAIN t = 1..Len(t)
    BY AppendProperties, LenProperties
  <1>2. \A k \in 1..Len(s) : s[k] \in ToSet(s)
    BY ToSetBasics
  <1> HIDE DEF t
  <1> SUFFICES ASSUME NEW k \in 1..Len(t), NEW l \in 1..Len(t), IsDone(t[k]), IsDone(t[l])
               PROVE  k = l
    BY <1>1 DEF OneDone, t
  <1>3. CASE k \in 1..Len(s) /\ l \in 1..Len(s)
    BY <1>1, <1>3 DEF OneDone
  <1>4. CASE k = Len(s) + 1 /\ l \in 1..Len(s)
    BY <1>1, <1>2, <1>4
  <1>5. CASE k \in 1..Len(s) /\ l = Len(s) + 1
    BY <1>1, <1>2, <1>5
  <1> QED BY <1>1, <1>3, <1>4, <1>5

\* A task added to an empty queue is the only one; the last one leaves none.
LEMMA FirstTask ==
  ASSUME tasks = <<>>, NEW t, AddTask(t)
  PROVE  tasks' # <<>> /\ Len(tasks') <= 1
  <1>1. tasks' = Append(<<>>, t)
    BY EmptyList DEF AddTask
  <1> QED BY <1>1

\* The last task leaves none.
LEMMA LastTask ==
  ASSUME ListTypes, tasks # <<>>, Len(tasks) <= 1
  PROVE  Tail(tasks) = <<>>
  <1>1. tasks \in Seq({"hash", "complete"})
    BY DEF ListTypes
  <1>2. Tail(tasks) \in Seq({"hash", "complete"}) /\ Len(Tail(tasks)) = Len(tasks) - 1
    BY <1>1, HeadTailProperties
  <1>3. Len(tasks) \in Nat /\ Len(Tail(tasks)) \in Nat
    BY <1>1, <1>2, LenProperties
  <1>4. Len(Tail(tasks)) = 0
    BY <1>2, <1>3
  <1> QED BY <1>2, <1>4, ToSetBasics

\* OnceInv: PS_COMPLETING keeps every caller out of CompleteFile.
LEMMA OnceStep ==
  ASSUME ThreadsInv, BytesInv, OnceInv, [Next]_vars
  PROVE  OnceInv'
  <1> USE PartFileConstants DEF OnceInv, Finishing, Flushing, Busy, IsDone,
    fileVars, stateVars, bufferVars, mainVars, writeVars, hashVars, taskVars,
    threadVars, boundVars, histVars
  <1>0. /\ FlagTypes /\ PlaceTypes /\ DataTypes /\ ListTypes
        /\ MainInv /\ WriterInv /\ HasherInv /\ BufferInv /\ HarvestInv
    BY TypeParts DEF ThreadsInv
  <1>a. errors \in Nat /\ ErrorInv
    BY <1>0 DEF DataTypes, BytesInv
  <1>1. CASE SourceAccepts
    BY <1>1 DEF SourceAccepts, GetStatus
  <1>2. ASSUME NEW b \in Blocks, NEW d \in {"good", "bad"},
               WriteToBuffer(b, d)
        PROVE  OnceInv'
    BY <1>2 DEF WriteToBuffer
  <1>3. CASE Process
    BY <1>3 DEF Process, CallFlush
  <1>4. CASE FlushNoSpace
    BY <1>4, <1>0, <1>a DEF FlushNoSpace, Return, PauseFile, Fail, PlaceTypes
  <1>5. CASE FlushQueue
    BY <1>5 DEF FlushQueue, Goto
  <1>6. CASE FlushHarvest
    BY <1>6 DEF FlushHarvest, Harvest
  <1>7. CASE FlushWrite
    BY <1>7, <1>0, <1>a DEF FlushWrite, Harvest, Return, Fail, PlaceTypes
  <1>8. CASE FlushLength
    BY <1>8, <1>0, <1>a DEF FlushLength, Goto, Return, Fail, PlaceTypes
  <1>9. CASE FlushShare
    BY <1>9 DEF FlushShare, Goto
  <1>10. CASE FlushHash
    BY <1>10, <1>0, <1>a DEF FlushHash, Goto, Return, PlaceTypes
  <1>11. CASE FlushSweep
    BY <1>11 DEF FlushSweep, Harvest
  <1>12. CASE FlushTail
    <2>1. UNCHANGED <<events, scanned, errors>> /\ mpc = "sweep" /\ mpc' = ret
      BY <1>12 DEF FlushTail, Return
    <2>2. CASE ReadyToComplete(status, gaps)
      <3>1. status \in {"PS_EMPTY", "PS_READY"} /\ status' = "PS_COMPLETING" /\ AddTask("hash")
        BY <1>12, <2>2 DEF FlushTail, ReadyToComplete
      <3>2. errors = 0 => tasks = <<>> /\ ~Busy /\ ~Finishing
        BY <3>1
      <3>3. errors = 0 => tasks' # <<>> /\ Len(tasks') <= 1 /\ scanned = {}
        BY <3>1, <3>2, FirstTask
      <3>4. errors = 0 => ~Finishing'
        BY <1>0, <2>1, <3>2 DEF PlaceTypes
      <3> QED BY <2>1, <3>1, <3>2, <3>3, <3>4
    <2>3. CASE ~ReadyToComplete(status, gaps)
      BY <1>12, <1>0, <2>1, <2>3 DEF FlushTail, PlaceTypes
    <2> QED BY <2>2, <2>3
  <1>13. CASE OnAsyncHashComplete
    <2>1. /\ events # <<>> /\ events' = Tail(events) /\ Head(events).kind = "part"
          /\ mpc = "idle" /\ UNCHANGED <<scanned, errors, mpc>>
      BY <1>13 DEF OnAsyncHashComplete, IsEvent
    <2>2. /\ errors = 0 => OneDone(events')
          /\ \A e \in ToSet(events') : e \in ToSet(events)
      BY <1>0, <2>1, DoneTail, EventTail DEF ListTypes
    <2>3. ~Finishing /\ ~Finishing'
      BY <2>1
    <2>4. CASE status' = "PS_COMPLETING" /\ AddTask("hash") /\ status \in {"PS_EMPTY", "PS_READY"}
      <3>1. errors = 0 => tasks = <<>> /\ ~Busy
        BY <2>4
      <3>2. errors = 0 => tasks' # <<>> /\ Len(tasks') <= 1 /\ scanned = {}
        BY <2>4, <3>1, FirstTask
      <3> QED BY <2>1, <2>2, <2>3, <2>4, <3>1, <3>2
    <2>5. CASE /\ UNCHANGED tasks
               /\ status' = status \/ (status = "PS_EMPTY" /\ status' = "PS_READY")
      BY <2>1, <2>2, <2>3, <2>5
    <2> QED BY <1>13, <2>4, <2>5 DEF OnAsyncHashComplete, ReadyToComplete
  <1>14. CASE PartFileHashFinished
    <2>1. /\ events # <<>> /\ events' = Tail(events) /\ Head(events).kind = "hashed"
          /\ mpc = "idle" /\ UNCHANGED <<tasks, scanned, errors>>
      BY <1>14 DEF PartFileHashFinished, IsEvent
    <2>2. errors = 0 => OneDone(events') /\ \A e \in ToSet(events') : ~IsDone(e)
      BY <1>0, <2>1, DoneTail DEF ListTypes
    <2>3. Busy
      BY <1>0, <2>1, EventTail
    <2>4. errors = 0 => ~Busy' /\ tasks = <<>>
      BY <1>0, <2>1, <2>2, EventTail
    <2>5. \/ status = "PS_COMPLETING" /\ UNCHANGED status
          \/ UNCHANGED mpc
      BY <1>14 DEF PartFileHashFinished
    <2> QED BY <2>1, <2>2, <2>4, <2>5
  <1>15. CASE CompleteFileEnded
    <2>1. /\ events # <<>> /\ events' = Tail(events) /\ Head(events).kind = "completed"
          /\ mpc = "idle" /\ UNCHANGED <<tasks, scanned, errors>>
      BY <1>15 DEF CompleteFileEnded, IsEvent
    <2>2. errors = 0 => OneDone(events') /\ \A e \in ToSet(events') : ~IsDone(e)
      BY <1>0, <2>1, DoneTail DEF ListTypes
    <2>3. Busy
      BY <1>0, <2>1, EventTail
    <2>4. errors = 0 => ~Busy' /\ tasks = <<>>
      BY <1>0, <2>1, <2>2, EventTail
    <2>5. UNCHANGED mpc
      BY <1>15 DEF CompleteFileEnded
    <2> QED BY <2>1, <2>2, <2>4, <2>5
  <1>16. CASE CompleteStopped
    BY <1>16 DEF CompleteStopped, CallFlush
  <1>17. CASE PerformFileComplete
    <2>1. /\ mpc = "perform" /\ mpc' = "idle" /\ AddTask("complete")
          /\ UNCHANGED <<status, events, scanned, errors>>
      BY <1>17 DEF PerformFileComplete, Goto
    <2>2. errors = 0 => tasks = <<>> /\ ~Busy /\ status = "PS_COMPLETING"
      BY <2>1
    <2>3. errors = 0 => tasks' # <<>> /\ Len(tasks') <= 1 /\ scanned = {}
      BY <2>1, <2>2, FirstTask
    <2> QED BY <2>1, <2>2, <2>3
  <1>18. CASE UserPause
    BY <1>18 DEF UserPause, UserMay, PauseFile
  <1>19. CASE UserStop
    BY <1>19 DEF UserStop, UserMay, StopFile, PauseFile, CallFlush
  <1>20. CASE UserResume
    <2>1. UNCHANGED <<status, events, tasks, scanned, errors>>
      BY <1>20 DEF UserResume
    <2>2. mpc = "idle" /\ (errors = 0 => mpc' = "idle")
      BY <1>20, <1>a DEF UserResume, UserMay, CompletesOnResume, ErrorInv
    <2> QED BY <2>1, <2>2
  <1>21. CASE UserDelete
    BY <1>21 DEF UserDelete, UserMay, StopFile, PauseFile, Goto
  <1>22. CASE DeleteFree
    <2>1. ToSet(events') = {} /\ OneDone(events')
      BY <1>22, EmptyList DEF DeleteFree, OneDone
    <2>2. UNCHANGED <<status, tasks, scanned, errors>> /\ mpc' = "deleted"
      BY <1>22 DEF DeleteFree, Goto
    <2> QED BY <2>1, <2>2
  <1>23. CASE WriteTake
    BY <1>23 DEF WriteTake, WriteUnchanged
  <1>24. CASE WriteFlushAt
    BY <1>24, <1>a DEF WriteFlushAt, WriteUnchanged, Fail
  <1>25. CASE WriteDecrement
    BY <1>25 DEF WriteDecrement, WriteUnchanged
  <1>26. CASE WriteMark
    BY <1>26 DEF WriteMark, WriteUnchanged
  <1>27. CASE HashTake
    BY <1>27 DEF HashTake, HashUnchanged
  <1>28. CASE HashSinglePart
    <2>1. UNCHANGED <<events, tasks, scanned, mpc, ret>>
      BY <1>28 DEF HashSinglePart, HashUnchanged
    <2>2. errors' = 0 => errors = 0 /\ UNCHANGED status
      BY <1>28, <1>a DEF HashSinglePart, Fail
    <2> QED BY <2>1, <2>2
  <1>29. CASE HashPost
    <2> DEFINE e == [kind |-> "part", part |-> Head(hWork), ok |-> hOk]
    <2>1. events' = Append(events, e) /\ UNCHANGED <<status, tasks, mpc, ret,
                                                     scanned, errors>>
      BY <1>29 DEF HashPost, HashUnchanged
    <2>2. e \in Event
      BY <1>29, <1>0 DEF HashPost, Event, HasherInv, ListTypes, FlagTypes
    <2>3. ~IsDone(e)
      OBVIOUS
    <2> HIDE DEF e
    <2>4. ToSet(events') = ToSet(events) \cup {e}
      BY <1>0, <2>1, <2>2, EventAppend
    <2>5. errors = 0 => OneDone(events')
      BY <1>0, <2>1, <2>2, <2>3, DoneAppend DEF ListTypes
    <2> QED BY <2>1, <2>3, <2>4, <2>5
  <1>30. CASE HashDecrement
    BY <1>30 DEF HashDecrement, HashUnchanged
  <1>31. CASE HashingTaskPart
    <2>1. /\ tasks # <<>> /\ Head(tasks) = "hash"
          /\ UNCHANGED <<status, tasks, mpc, ret, events, errors>>
      BY <1>31 DEF HashingTaskPart, Running, TaskUnchanged
    <2> QED BY <2>1
  <1>32. CASE HashingTaskFails
    <2>1. errors' # 0
      BY <1>32, <1>a DEF HashingTaskFails, Fail
    <2> QED BY <2>1
  <1>33. CASE HashingTaskEnds
    <2> DEFINE e == [kind |-> "hashed", matches |-> matches]
    <2>1. /\ events' = Append(events, e) /\ tasks # <<>> /\ tasks' = Tail(tasks)
          /\ scanned' = {} /\ UNCHANGED <<status, mpc, ret, errors>>
      BY <1>33 DEF HashingTaskEnds, Running, TaskUnchanged
    <2>2. e \in Event
      BY <1>0 DEF Event, DataTypes
    <2> HIDE DEF e
    <2>3. ToSet(events') = ToSet(events) \cup {e}
      BY <1>0, <2>1, <2>2, EventAppend
    <2>4. errors = 0 => OneDone(events')
      BY <1>0, <2>1, <2>2, DoneAppend DEF ListTypes
    <2>5. errors = 0 => tasks' = <<>>
      BY <1>0, <2>1, LastTask
    <2> QED BY <2>1, <2>3, <2>4, <2>5
  <1>34. CASE CompletionTask
    <2>1. /\ tasks # <<>> /\ tasks' = Tail(tasks) /\ Head(tasks) = "complete"
          /\ UNCHANGED <<status, mpc, ret, scanned>>
          /\ errors' = 0 => errors = 0
      BY <1>34, <1>a DEF CompletionTask, Running, TaskUnchanged, Fail
    <2>2. PICK ok \in BOOLEAN : events' = Append(events, [kind |-> "completed", ok |-> ok])
      BY <1>34 DEF CompletionTask
    <2> DEFINE e == [kind |-> "completed", ok |-> ok]
    <2>3. e \in Event
      BY DEF Event
    <2> HIDE DEF e
    <2>4. events' = Append(events, e)
      BY <2>2 DEF e
    <2>5. ToSet(events') = ToSet(events) \cup {e}
      BY <1>0, <2>3, <2>4, EventAppend
    <2>6. errors = 0 => OneDone(events')
      BY <1>0, <2>1, <2>3, <2>4, DoneAppend DEF ListTypes
    <2>7. errors = 0 => tasks' = <<>>
      BY <1>0, <2>1, LastTask
    <2>8. errors = 0 => scanned = {}
      BY <2>1
    <2> QED BY <2>1, <2>5, <2>6, <2>7, <2>8
  <1>35. CASE ShutDown
    BY <1>35, EmptyList DEF ShutDown, Goto
  <1>36. CASE EndHashThread
    BY <1>36 DEF EndHashThread, Goto
  <1>37. CASE EndWriteThread
    BY <1>37 DEF EndWriteThread, WriteThreadEnded, CallFlush, Goto
  <1>38. CASE SyncHashAndSave
    BY <1>38, <1>a DEF SyncHashAndSave, Fail, Goto
  <1>39. CASE UNCHANGED vars
    BY <1>39 DEF vars
  <1> HIDE DEF OnceInv, Finishing, Flushing, Busy, IsDone, fileVars,
    stateVars, bufferVars, mainVars, writeVars, hashVars, taskVars,
    threadVars, boundVars, histVars
  <1> QED BY <1>1, <1>2, <1>3, <1>4, <1>5, <1>6, <1>7, <1>8, <1>9, <1>10,
         <1>11, <1>12, <1>13, <1>14, <1>15, <1>16, <1>17, <1>18, <1>19, <1>20,
         <1>21, <1>22, <1>23, <1>24, <1>25, <1>26, <1>27, <1>28, <1>29, <1>30,
         <1>31, <1>32, <1>33, <1>34, <1>35, <1>36, <1>37, <1>38, <1>39
    DEF Next, FlushBuffer, Events, Completing, User, WriteThread, HashThread,
        Worker, Shutdown

\* SealedInv: a file that completes has no gap to receive a block for.
LEMMA SealedStep ==
  ASSUME ThreadsInv, BytesInv, OnceInv, SealedInv, HandleInv, [Next]_vars
  PROVE  SealedInv'
  <1> USE PartFileConstants DEF SealedInv, Sealed, fileVars, stateVars,
    bufferVars, mainVars, writeVars, hashVars, taskVars, threadVars,
    boundVars, histVars
  <1>0. /\ FlagTypes /\ PlaceTypes /\ DataTypes /\ ListTypes
        /\ MainInv /\ WriterInv /\ HasherInv /\ BufferInv /\ HarvestInv
    BY TypeParts DEF ThreadsInv
  <1>a. /\ errors \in Nat /\ ErrorInv
        /\ m_iWrites \in Nat /\ m_pendingHashes \in Nat
    BY <1>0 DEF DataTypes, ListTypes, BytesInv
  <1>1. CASE SourceAccepts
    BY <1>1 DEF SourceAccepts, GetStatus
  <1>2. ASSUME NEW b \in Blocks, NEW d \in {"good", "bad"},
               WriteToBuffer(b, d)
        PROVE  SealedInv'
    BY <1>2 DEF WriteToBuffer
  <1>3. CASE Process
    BY <1>3 DEF Process, CallFlush
  <1>4. CASE FlushNoSpace
    BY <1>4, <1>a DEF FlushNoSpace, Return, PauseFile, Fail
  <1>5. CASE FlushQueue
    <2> SUFFICES ASSUME errors = 0, ~late, Sealed
                 PROVE  m_iWrites' = 0
      BY <1>5 DEF FlushQueue, Goto
    <2>1. CASE m_bRun.write
      <3> DEFINE ready == WithFlag("PB_READY")
      <3>1. ready \in Seq(Ids) /\ m_iWrites' = m_iWrites + Len(ready)
        BY <1>5, <1>0, <2>1, QueueFacts
      <3>2. ToSet(ready) = {}
        BY <1>0, WithFlagFacts, EmptyList
      <3> HIDE DEF ready
      <3>3. Len(ready) = 0
        BY <3>1, <3>2, ToSetBasics
      <3> QED BY <3>1, <3>3
    <2>2. CASE ~m_bRun.write
      BY <1>5, <2>2 DEF FlushQueue
    <2> QED BY <2>1, <2>2
  <1>6. CASE FlushHarvest
    <2>1. at \in Nat \ {0} /\ at <= Len(m_BufferedData_list)
      BY <1>6, <1>0 DEF FlushHarvest, PlaceTypes
    <2>2. m_BufferedData_list # <<>>
      BY <2>1
    <2>3. ~(errors = 0 /\ ~late /\ Sealed)
      BY <2>2
    <2> QED BY <1>6, <1>a, <2>3 DEF FlushHarvest, Harvest, Return, Fail
  <1>7. CASE FlushWrite
    <2>1. at \in Nat \ {0} /\ at <= Len(m_BufferedData_list)
      BY <1>7, <1>0 DEF FlushWrite, PlaceTypes
    <2>2. m_BufferedData_list # <<>>
      BY <2>1
    <2>3. ~(errors = 0 /\ ~late /\ Sealed)
      BY <2>2
    <2> QED BY <1>7, <1>a, <2>3 DEF FlushWrite, Harvest, Return, Fail
  <1>8. CASE FlushLength
    BY <1>8, <1>a DEF FlushLength, Goto, Return, Fail
  <1>9. CASE FlushShare
    BY <1>9 DEF FlushShare, Goto, FirstShareCandidates
  <1>10. CASE FlushHash
    BY <1>10 DEF FlushHash, Goto, Return
  <1>11. CASE FlushSweep
    <2>1. at \in Nat \ {0} /\ at <= Len(m_BufferedData_list)
      BY <1>11, <1>0 DEF FlushSweep, PlaceTypes
    <2>2. m_BufferedData_list # <<>>
      BY <2>1
    <2>3. ~(errors = 0 /\ ~late /\ Sealed)
      BY <2>2
    <2> QED BY <1>11, <1>a, <2>3 DEF FlushSweep, Harvest, Return, Fail
  <1>12. CASE FlushTail
    BY <1>12, <1>a DEF FlushTail, Return, AddTask, ReadyToComplete
  <1>13. CASE OnAsyncHashComplete
    <2> SUFFICES ASSUME errors' = 0, ~late', Sealed', status # "PS_COMPLETE"
                 PROVE  SealedInv'
      BY <1>13 DEF OnAsyncHashComplete
    <2>1. mpc = "idle" /\ UNCHANGED <<m_BufferedData_list, m_iWrites,
                                      m_pendingHashes, errors>>
          /\ ~late
      BY <1>13 DEF OnAsyncHashComplete, IsEvent
    <2>2. CASE status = "PS_COMPLETING"
      <3>1. /\ m_BufferedData_list = <<>> /\ m_iWrites = 0 /\ m_pendingHashes = 0 /\ gaps = {}
        BY <2>1, <2>2
      <3>2. gaps' = {}
        BY <1>13, <2>2, <3>1 DEF OnAsyncHashComplete
      <3> QED BY <2>1, <3>1, <3>2
    <2>3. CASE status # "PS_COMPLETING"
      <3>1. ReadyToComplete(status, gaps') \/ ReadyToComplete("PS_READY", gaps')
        BY <1>13, <2>3 DEF OnAsyncHashComplete
      <3> QED BY <1>a, <2>1, <3>1 DEF ReadyToComplete
    <2> QED BY <2>2, <2>3
  <1>14. CASE PartFileHashFinished
    BY <1>14 DEF PartFileHashFinished, IsEvent, CallFlush
  <1>15. CASE CompleteFileEnded
    <2>1. Busy
      BY <1>15, <1>0, EventTail DEF CompleteFileEnded, IsEvent, Busy, IsDone
    <2>2. errors = 0 => status = "PS_COMPLETING"
      BY <2>1 DEF OnceInv
    <2> QED BY <1>15, <2>2 DEF CompleteFileEnded, IsEvent
  <1>16. CASE CompleteStopped
    BY <1>16 DEF CompleteStopped, CallFlush, OnceInv, Finishing
  <1>17. CASE PerformFileComplete
    BY <1>17 DEF PerformFileComplete, AddTask, Goto
  <1>18. CASE UserPause
    BY <1>18 DEF UserPause, UserMay, PauseFile
  <1>19. CASE UserStop
    BY <1>19 DEF UserStop, UserMay, StopFile, PauseFile, CallFlush
  <1>20. CASE UserResume
    BY <1>20 DEF UserResume, UserMay, CallFlush
  <1>21. CASE UserDelete
    BY <1>21 DEF UserDelete, UserMay, StopFile, PauseFile, Goto
  <1>22. CASE DeleteFree
    BY <1>22 DEF DeleteFree, Goto
  <1>23. CASE WriteTake
    BY <1>23 DEF WriteTake, WriteUnchanged
  <1>24. CASE WriteFlushAt
    BY <1>24, <1>a DEF WriteFlushAt, WriteUnchanged, Fail
  <1>25. CASE WriteDecrement
    <2>1. m_iWrites > 0
      <3>1. wpc = "dec" /\ wWork # <<>>
        BY <1>25, <1>0 DEF WriteDecrement, WriterInv
      <3>2. Len(wWork) > 0 /\ Len(wWork) \in Nat /\ Len(m_flushList) \in Nat
        BY <1>0, <3>1, ToSetBasics DEF ListTypes
      <3>3. m_iWrites >= Len(m_flushList) + Len(wWork)
        BY <1>0, <3>1, <3>2 DEF WriterInv
      <3> QED BY <1>a, <3>2, <3>3
    <2> QED BY <1>25, <1>a, <2>1 DEF WriteDecrement, WriteUnchanged
  <1>26. CASE WriteMark
    BY <1>26 DEF WriteMark, WriteUnchanged
  <1>27. CASE HashTake
    BY <1>27 DEF HashTake, HashUnchanged
  <1>28. CASE HashSinglePart
    BY <1>28, <1>a DEF HashSinglePart, HashUnchanged, Fail
  <1>29. CASE HashPost
    BY <1>29 DEF HashPost, HashUnchanged
  <1>30. CASE HashDecrement
    <2>1. m_pendingHashes > 0
      <3>1. hpc = "dec" /\ hWork # <<>>
        BY <1>30, <1>0 DEF HashDecrement, HasherInv
      <3>2. Len(hWork) > 0 /\ Len(hWork) \in Nat /\ Len(m_jobList) \in Nat
        BY <1>0, <3>1, ToSetBasics DEF ListTypes
      <3> QED BY <1>0, <1>a, <3>2 DEF HasherInv
    <2> QED BY <1>30, <1>a, <2>1 DEF HashDecrement, HashUnchanged
  <1>31. CASE HashingTaskPart
    BY <1>31 DEF HashingTaskPart, TaskUnchanged
  <1>32. CASE HashingTaskFails
    BY <1>32, <1>a DEF HashingTaskFails, TaskUnchanged, Fail
  <1>33. CASE HashingTaskEnds
    BY <1>33 DEF HashingTaskEnds, TaskUnchanged
  <1>34. CASE CompletionTask
    BY <1>34, <1>a DEF CompletionTask, TaskUnchanged, Fail
  <1>35. CASE ShutDown
    BY <1>35 DEF ShutDown, Goto
  <1>36. CASE EndHashThread
    BY <1>36 DEF EndHashThread, Goto
  <1>37. CASE EndWriteThread
    BY <1>37 DEF EndWriteThread, WriteThreadEnded, CallFlush, Goto
  <1>38. CASE SyncHashAndSave
    BY <1>38, <1>a DEF SyncHashAndSave, Fail, Goto, HandleInv
  <1>39. CASE UNCHANGED vars
    BY <1>39 DEF vars
  <1> HIDE DEF SealedInv, Sealed, fileVars, stateVars, bufferVars, mainVars,
    writeVars, hashVars, taskVars, threadVars, boundVars, histVars
  <1> QED BY <1>1, <1>2, <1>3, <1>4, <1>5, <1>6, <1>7, <1>8, <1>9, <1>10,
         <1>11, <1>12, <1>13, <1>14, <1>15, <1>16, <1>17, <1>18, <1>19, <1>20,
         <1>21, <1>22, <1>23, <1>24, <1>25, <1>26, <1>27, <1>28, <1>29, <1>30,
         <1>31, <1>32, <1>33, <1>34, <1>35, <1>36, <1>37, <1>38, <1>39
    DEF Next, FlushBuffer, Events, Completing, User, WriteThread, HashThread,
        Worker, Shutdown

\* What the scheduler's queue holds after a task was added or has ended.
LEMMA TaskAdded ==
  ASSUME ListTypes, NEW t \in {"hash", "complete"}, AddTask(t)
  PROVE  ToSet(tasks') = ToSet(tasks) \cup {t}
  BY ToSetAppend DEF ListTypes, AddTask

\* The task that ends was in the queue.
LEMMA TaskTail ==
  ASSUME ListTypes, tasks # <<>>
  PROVE  Head(tasks) \in ToSet(tasks) /\ ToSet(Tail(tasks)) \subseteq ToSet(tasks)
  BY ToSetTail DEF ListTypes

\* HandleInv: the handle is closed between the full hash and the move.
LEMMA HandleStep ==
  ASSUME ThreadsInv, BytesInv, OnceInv, SealedInv, HandleInv, [Next]_vars
  PROVE  HandleInv'
  <1> USE PartFileConstants DEF HandleInv, Sealed, Flushing, fileVars,
    stateVars, bufferVars, mainVars, writeVars, hashVars, taskVars,
    threadVars, boundVars, histVars
  <1>0. /\ FlagTypes /\ PlaceTypes /\ DataTypes /\ ListTypes
        /\ MainInv /\ WriterInv /\ HasherInv /\ BufferInv /\ HarvestInv
    BY TypeParts DEF ThreadsInv
  <1>a. /\ errors \in Nat /\ ErrorInv
        /\ m_iWrites \in Nat /\ m_pendingHashes \in Nat
    BY <1>0 DEF DataTypes, ListTypes, BytesInv
  <1>1. CASE SourceAccepts
    BY <1>1 DEF SourceAccepts, GetStatus
  <1>2. ASSUME NEW b \in Blocks, NEW d \in {"good", "bad"},
               WriteToBuffer(b, d)
        PROVE  HandleInv'
    BY <1>2 DEF WriteToBuffer
  <1>3. CASE Process
    BY <1>3 DEF Process, CallFlush
  <1>4. CASE FlushNoSpace
    <2>1. errors' # 0
      BY <1>4, <1>a DEF FlushNoSpace, Fail
    <2> QED BY <2>1
  <1>5. CASE FlushQueue
    BY <1>5 DEF FlushQueue, Goto
  <1>6. CASE FlushHarvest
    BY <1>6 DEF FlushHarvest, Harvest
  <1>7. CASE FlushWrite
    BY <1>7, <1>0, <1>a DEF FlushWrite, Harvest, Return, Fail, PlaceTypes
  <1>8. CASE FlushLength
    BY <1>8, <1>0, <1>a DEF FlushLength, Goto, Return, Fail, PlaceTypes
  <1>9. CASE FlushShare
    BY <1>9 DEF FlushShare, Goto
  <1>10. CASE FlushHash
    BY <1>10 DEF FlushHash, Goto, Return
  <1>11. CASE FlushSweep
    BY <1>11 DEF FlushSweep, Harvest
  <1>12. CASE FlushTail
    <2>1. /\ UNCHANGED <<events, handle, errors, late>> /\ mpc = "sweep" /\ mpc' = ret /\ ret' = ret
      BY <1>12 DEF FlushTail, Return
    <2>2. CASE ReadyToComplete(status, gaps)
      <3>1. status \in {"PS_EMPTY", "PS_READY"} /\ status' = "PS_COMPLETING" /\ AddTask("hash")
        BY <1>12, <2>2 DEF FlushTail, ReadyToComplete
      <3>2. errors = 0 /\ ~late => handle
        BY <2>1, <3>1
      <3>3. "complete" \in ToSet(tasks') => "complete" \in ToSet(tasks)
        BY <1>0, <3>1, TaskAdded
      <3> QED BY <1>0, <2>1, <3>1, <3>2, <3>3 DEF PlaceTypes
    <2>3. CASE ~ReadyToComplete(status, gaps)
      BY <1>12, <1>0, <2>1, <2>3 DEF FlushTail, PlaceTypes
    <2> QED BY <2>2, <2>3
  <1>13. CASE OnAsyncHashComplete
    <2>1. /\ events # <<>> /\ events' = Tail(events) /\ mpc = "idle"
          /\ UNCHANGED <<handle, errors, mpc, ret>> /\ (late => late')
      BY <1>13 DEF OnAsyncHashComplete, IsEvent
    <2>2. \A e \in ToSet(events') : e \in ToSet(events)
      BY <1>0, <2>1, EventTail
    <2>3. CASE status' = "PS_COMPLETING" /\ AddTask("hash") /\ status \in {"PS_EMPTY", "PS_READY"}
      <3>1. "complete" \in ToSet(tasks') => "complete" \in ToSet(tasks)
        BY <1>0, <2>3, TaskAdded
      <3>2. errors = 0 /\ ~late => handle
        BY <2>1, <2>3
      <3> QED BY <2>1, <2>2, <2>3, <3>1, <3>2
    <2>4. CASE /\ UNCHANGED tasks
               /\ status' = status \/ (status = "PS_EMPTY" /\ status' = "PS_READY")
      BY <2>1, <2>2, <2>4
    <2> QED BY <1>13, <2>3, <2>4 DEF OnAsyncHashComplete, ReadyToComplete
  <1>14. CASE PartFileHashFinished
    <2>1. /\ events # <<>> /\ events' = Tail(events) /\ mpc = "idle"
          /\ UNCHANGED <<handle, errors, tasks, late>>
          /\ Head(events).kind = "hashed" /\ (ret' # "dtor" \/ mpc' = "idle")
          /\ mpc' \in {"idle", "flush"}
          /\ status' \in {status, "PS_READY"}
      BY <1>14 DEF PartFileHashFinished, IsEvent, CallFlush
    <2>2. Head(events) \in ToSet(events) /\ \A e \in ToSet(events') : e \in ToSet(events)
      BY <1>0, <2>1, EventTail
    <2>3. errors = 0 /\ ~late => handle
      BY <2>1, <2>2
    <2> QED BY <2>1, <2>2, <2>3
  <1>15. CASE CompleteFileEnded
    <2>1. /\ events # <<>> /\ events' = Tail(events) /\ mpc = "idle"
          /\ UNCHANGED <<handle, errors, tasks, late, mpc, ret>>
          /\ Head(events).kind = "completed"
          /\ status' = IF Head(events).ok THEN "PS_COMPLETE" ELSE "PS_ERROR"
      BY <1>15 DEF CompleteFileEnded, IsEvent
    <2>2. Head(events) \in ToSet(events) /\ \A e \in ToSet(events') : e \in ToSet(events)
      BY <1>0, <2>1, EventTail
    <2>3. errors = 0 /\ ~late => ~handle /\ Head(events).ok
      BY <1>a, <2>1, <2>2 DEF ErrorInv
    <2> QED BY <2>1, <2>2, <2>3
  <1>16. CASE CompleteStopped
    BY <1>16 DEF CompleteStopped, CallFlush
  <1>17. CASE PerformFileComplete
    <2>1. /\ mpc = "perform" /\ mpc' = "idle" /\ AddTask("complete") /\ ~handle'
          /\ UNCHANGED <<status, events, errors, late>>
      BY <1>17 DEF PerformFileComplete, Goto
    <2>2. errors = 0 => ~Busy /\ status = "PS_COMPLETING"
      BY <2>1 DEF OnceInv, Finishing
    <2>3. "hash" \in ToSet(tasks') => "hash" \in ToSet(tasks)
      BY <1>0, <2>1, TaskAdded
    <2>4. errors = 0 => "hash" \notin ToSet(tasks) /\ \A e \in ToSet(events) : e.kind # "hashed"
      BY <2>2, EmptyList DEF Busy, IsDone
    <2> QED BY <2>1, <2>2, <2>3, <2>4
  <1>18. CASE UserPause
    BY <1>18 DEF UserPause, UserMay, PauseFile
  <1>19. CASE UserStop
    BY <1>19 DEF UserStop, UserMay, StopFile, PauseFile, CallFlush
  <1>20. CASE UserResume
    BY <1>20 DEF UserResume, UserMay, CallFlush
  <1>21. CASE UserDelete
    BY <1>21 DEF UserDelete, UserMay, StopFile, PauseFile, Goto
  <1>22. CASE DeleteFree
    BY <1>22 DEF DeleteFree, Goto
  <1>23. CASE WriteTake
    BY <1>23 DEF WriteTake, WriteUnchanged
  <1>24. CASE WriteFlushAt
    BY <1>24, <1>a DEF WriteFlushAt, WriteUnchanged, Fail
  <1>25. CASE WriteDecrement
    BY <1>25 DEF WriteDecrement, WriteUnchanged
  <1>26. CASE WriteMark
    BY <1>26 DEF WriteMark, WriteUnchanged
  <1>27. CASE HashTake
    BY <1>27 DEF HashTake, HashUnchanged
  <1>28. CASE HashSinglePart
    <2>1. UNCHANGED <<events, tasks, mpc, ret, handle, late>>
      BY <1>28 DEF HashSinglePart, HashUnchanged
    <2>2. errors' = 0 => errors = 0 /\ UNCHANGED status
      BY <1>28, <1>a DEF HashSinglePart, Fail
    <2> QED BY <2>1, <2>2
  <1>29. CASE HashPost
    <2> DEFINE e == [kind |-> "part", part |-> Head(hWork), ok |-> hOk]
    <2>1. events' = Append(events, e) /\ UNCHANGED <<status, tasks, mpc, ret,
                                                     handle, late, errors>>
      BY <1>29 DEF HashPost, HashUnchanged
    <2>2. e \in Event
      BY <1>29, <1>0 DEF HashPost, Event, HasherInv, ListTypes, FlagTypes
    <2>3. e.kind = "part"
      OBVIOUS
    <2> HIDE DEF e
    <2>4. ToSet(events') = ToSet(events) \cup {e}
      BY <1>0, <2>1, <2>2, EventAppend
    <2> QED BY <2>1, <2>3, <2>4
  <1>30. CASE HashDecrement
    BY <1>30 DEF HashDecrement, HashUnchanged
  <1>31. CASE HashingTaskPart
    BY <1>31 DEF HashingTaskPart, TaskUnchanged
  <1>32. CASE HashingTaskFails
    <2>1. errors' # 0
      BY <1>32, <1>a DEF HashingTaskFails, Fail
    <2> QED BY <2>1
  <1>33. CASE HashingTaskEnds
    <2> DEFINE e == [kind |-> "hashed", matches |-> matches]
    <2>1. /\ events' = Append(events, e) /\ tasks # <<>> /\ tasks' = Tail(tasks)
          /\ Head(tasks) = "hash" /\ IsRunning
          /\ UNCHANGED <<status, mpc, ret, handle, late, errors>>
      BY <1>33 DEF HashingTaskEnds, Running, TaskUnchanged
    <2>2. e \in Event /\ e.kind = "hashed"
      BY <1>0 DEF Event, DataTypes
    <2> HIDE DEF e
    <2>3. ToSet(events') = ToSet(events) \cup {e}
      BY <1>0, <2>1, <2>2, EventAppend
    <2>4. "hash" \in ToSet(tasks) /\ ToSet(tasks') \subseteq ToSet(tasks)
      BY <1>0, <2>1, TaskTail
    <2> QED BY <2>1, <2>2, <2>3, <2>4
  <1>34. CASE CompletionTask
    <2>1. /\ tasks # <<>> /\ tasks' = Tail(tasks) /\ Head(tasks) = "complete"
          /\ UNCHANGED <<status, mpc, ret, handle, late>>
          /\ errors' = 0 => errors = 0
      BY <1>34, <1>a DEF CompletionTask, Running, TaskUnchanged, Fail
    <2>2. PICK ok \in BOOLEAN : events' = Append(events, [kind |-> "completed", ok |-> ok])
      BY <1>34 DEF CompletionTask
    <2> DEFINE e == [kind |-> "completed", ok |-> ok]
    <2>3. e \in Event /\ e.kind = "completed"
      BY DEF Event
    <2> HIDE DEF e
    <2>4. events' = Append(events, e)
      BY <2>2 DEF e
    <2>5. ToSet(events') = ToSet(events) \cup {e}
      BY <1>0, <2>3, <2>4, EventAppend
    <2>6. "complete" \in ToSet(tasks) /\ ToSet(tasks') \subseteq ToSet(tasks)
      BY <1>0, <2>1, TaskTail
    <2> QED BY <2>1, <2>3, <2>5, <2>6
  <1>35. CASE ShutDown
    BY <1>35, EmptyList DEF ShutDown, Goto
  <1>36. CASE EndHashThread
    BY <1>36 DEF EndHashThread, Goto
  <1>37. CASE EndWriteThread
    BY <1>37 DEF EndWriteThread, WriteThreadEnded, CallFlush, Goto
  <1>38. CASE SyncHashAndSave
    BY <1>38, <1>a DEF SyncHashAndSave, Fail, Goto
  <1>39. CASE UNCHANGED vars
    BY <1>39 DEF vars
  <1> HIDE DEF HandleInv, Sealed, Flushing, fileVars, stateVars, bufferVars,
    mainVars, writeVars, hashVars, taskVars, threadVars, boundVars, histVars
  <1> QED BY <1>1, <1>2, <1>3, <1>4, <1>5, <1>6, <1>7, <1>8, <1>9, <1>10,
         <1>11, <1>12, <1>13, <1>14, <1>15, <1>16, <1>17, <1>18, <1>19, <1>20,
         <1>21, <1>22, <1>23, <1>24, <1>25, <1>26, <1>27, <1>28, <1>29, <1>30,
         <1>31, <1>32, <1>33, <1>34, <1>35, <1>36, <1>37, <1>38, <1>39
    DEF Next, FlushBuffer, Events, Completing, User, WriteThread, HashThread,
        Worker, Shutdown

\* GoodInv: no block is written between its full hash and the completion.
LEMMA GoodStep ==
  ASSUME ThreadsInv, BytesInv, OnceInv, SealedInv, HandleInv, GoodInv, [Next]_vars
  PROVE  GoodInv'
  <1> USE PartFileConstants DEF GoodInv, AllGood, HashOK, BlocksOf, Finishing,
    Flushing, fileVars, stateVars, bufferVars, mainVars, writeVars, hashVars,
    taskVars, threadVars, boundVars, histVars
  <1>0. /\ FlagTypes /\ PlaceTypes /\ DataTypes /\ ListTypes
        /\ MainInv /\ WriterInv /\ HasherInv /\ BufferInv /\ HarvestInv
    BY TypeParts DEF ThreadsInv
  <1>a. /\ errors \in Nat /\ ErrorInv
        /\ m_iWrites \in Nat /\ m_pendingHashes \in Nat
    BY <1>0 DEF DataTypes, ListTypes, BytesInv
  <1>1. CASE SourceAccepts
    BY <1>1 DEF SourceAccepts, GetStatus
  <1>2. ASSUME NEW b \in Blocks, NEW d \in {"good", "bad"},
               WriteToBuffer(b, d)
        PROVE  GoodInv'
    BY <1>2 DEF WriteToBuffer
  <1>3. CASE Process
    BY <1>3 DEF Process, CallFlush
  <1>4. CASE FlushNoSpace
    BY <1>4, <1>0, <1>a DEF FlushNoSpace, Return, PauseFile, Fail, PlaceTypes
  <1>5. CASE FlushQueue
    BY <1>5 DEF FlushQueue, Goto
  <1>6. CASE FlushHarvest
    BY <1>6 DEF FlushHarvest, Harvest
  <1>7. CASE FlushWrite
    <2>1. m_BufferedData_list # <<>>
      BY <1>7, <1>0 DEF FlushWrite, PlaceTypes
    <2>2. errors = 0 /\ ~late => ~Busy /\ ~Finishing /\ scanned = {} /\ matches = {}
      BY <1>0, <2>1 DEF SealedInv, Sealed, OnceInv, DataTypes, Busy
    <2>3. /\ UNCHANGED <<events, tasks, matches, late>> /\ (errors' = 0 => errors = 0)
          /\ errors' = 0 => status' = status /\ (Finishing' => Finishing)
      BY <1>7, <1>0, <1>a DEF FlushWrite, Harvest, Return, Fail, PlaceTypes
    <2>4. errors = 0 /\ ~late => status \notin {"PS_COMPLETING", "PS_COMPLETE"}
      BY <2>1 DEF SealedInv, Sealed
    <2>5. errors = 0 /\ ~late => /\ "complete" \notin ToSet(tasks)
                                 /\ \A e \in ToSet(events) : e.kind \notin {"hashed", "completed"}
      BY <2>2, EmptyList DEF Busy, IsDone
    <2> QED BY <2>2, <2>3, <2>4, <2>5
  <1>8. CASE FlushLength
    BY <1>8, <1>0, <1>a DEF FlushLength, Goto, Return, Fail, PlaceTypes
  <1>9. CASE FlushShare
    BY <1>9 DEF FlushShare, Goto
  <1>10. CASE FlushHash
    BY <1>10, <1>0, <1>a DEF FlushHash, Goto, Return, PlaceTypes
  <1>11. CASE FlushSweep
    BY <1>11 DEF FlushSweep, Harvest
  <1>12. CASE FlushTail
    <2>1. /\ UNCHANGED <<events, disk, matches, errors, late>> /\ mpc = "sweep" /\ mpc' = ret /\ ret' = ret
      BY <1>12 DEF FlushTail, Return
    <2>2. Finishing' => Finishing
      BY <1>0, <2>1 DEF PlaceTypes
    <2>3. /\ "complete" \in ToSet(tasks') => "complete" \in ToSet(tasks)
          /\ status' = "PS_COMPLETE" => status = "PS_COMPLETE"
      BY <1>12, <1>0, TaskAdded DEF FlushTail
    <2> QED BY <2>1, <2>2, <2>3
  <1>13. CASE OnAsyncHashComplete
    <2>1. /\ events # <<>> /\ events' = Tail(events) /\ mpc = "idle"
          /\ UNCHANGED <<disk, errors, mpc, ret, matches>> /\ (late => late')
      BY <1>13 DEF OnAsyncHashComplete, IsEvent
    <2>2. \A e \in ToSet(events') : e \in ToSet(events)
      BY <1>0, <2>1, EventTail
    <2>3. CASE status' = "PS_COMPLETING" /\ AddTask("hash") /\ status \in {"PS_EMPTY", "PS_READY"}
      <3>1. "complete" \in ToSet(tasks') => "complete" \in ToSet(tasks)
        BY <1>0, <2>3, TaskAdded
      <3> QED BY <2>1, <2>2, <2>3, <3>1
    <2>4. CASE /\ UNCHANGED tasks
               /\ status' = status \/ (status = "PS_EMPTY" /\ status' = "PS_READY")
      BY <2>1, <2>2, <2>4
    <2> QED BY <1>13, <2>3, <2>4 DEF OnAsyncHashComplete, ReadyToComplete
  <1>14. CASE PartFileHashFinished
    <2>1. /\ events # <<>> /\ events' = Tail(events) /\ mpc = "idle"
          /\ UNCHANGED <<errors, tasks, late, disk, matches>>
          /\ Head(events).kind = "hashed" /\ status' \in {status, "PS_READY"}
          /\ mpc' = "idle" \/ (status = "PS_COMPLETING" /\ Mismatched(Head(events).matches) = {})
      BY <1>14 DEF PartFileHashFinished, IsEvent, CallFlush
    <2>2. Head(events) \in ToSet(events) /\ \A e \in ToSet(events') : e \in ToSet(events)
      BY <1>0, <2>1, EventTail
    <2>3. ASSUME errors = 0, ~late, status = "PS_COMPLETING",
                 Mismatched(Head(events).matches) = {}
          PROVE  AllGood
      <3>1. gaps = {}
        BY <2>1, <2>3 DEF SealedInv, Sealed
      <3>2. \A p \in Parts : p \in Head(events).matches
        BY <2>3, <3>1 DEF Mismatched, IsComplete
      <3> QED BY <2>1, <2>2, <2>3, <3>2
    <2> QED BY <2>1, <2>2, <2>3
  <1>15. CASE CompleteFileEnded
    <2>1. /\ events # <<>> /\ events' = Tail(events) /\ mpc = "idle"
          /\ UNCHANGED <<disk, matches, errors, tasks, late, mpc, ret>>
          /\ Head(events).kind = "completed"
      BY <1>15 DEF CompleteFileEnded, IsEvent
    <2>2. Head(events) \in ToSet(events) /\ \A e \in ToSet(events') : e \in ToSet(events)
      BY <1>0, <2>1, EventTail
    <2> QED BY <2>1, <2>2
  <1>16. CASE CompleteStopped
    BY <1>16 DEF CompleteStopped, CallFlush
  <1>17. CASE PerformFileComplete
    <2>1. /\ mpc = "perform" /\ mpc' = "idle" /\ AddTask("complete")
          /\ UNCHANGED <<status, events, errors, late, disk, matches>>
      BY <1>17 DEF PerformFileComplete, Goto
    <2> QED BY <2>1
  <1>18. CASE UserPause
    BY <1>18 DEF UserPause, UserMay, PauseFile
  <1>19. CASE UserStop
    BY <1>19 DEF UserStop, UserMay, StopFile, PauseFile, CallFlush
  <1>20. CASE UserResume
    <2>1. UNCHANGED <<status, events, tasks, matches, disk, errors, late>>
      BY <1>20 DEF UserResume
    <2>2. mpc = "idle" /\ (errors = 0 => mpc' = "idle")
      BY <1>20, <1>a DEF UserResume, UserMay, CompletesOnResume, ErrorInv
    <2> QED BY <2>1, <2>2
  <1>21. CASE UserDelete
    BY <1>21 DEF UserDelete, UserMay, StopFile, PauseFile, Goto
  <1>22. CASE DeleteFree
    BY <1>22, EmptyList DEF DeleteFree, Goto
  <1>23. CASE WriteTake
    BY <1>23 DEF WriteTake, WriteUnchanged
  <1>24. CASE WriteFlushAt
    <2>1. m_iWrites > 0
      <3>1. wpc = "write" /\ wWork # <<>>
        BY <1>24, <1>0 DEF WriteFlushAt, WriterInv
      <3>2. Len(wWork) > 0 /\ Len(wWork) \in Nat /\ Len(m_flushList) \in Nat
        BY <1>0, <3>1, ToSetBasics DEF ListTypes
      <3>3. m_iWrites >= Len(m_flushList) + Len(wWork)
        BY <1>0, <3>1, <3>2 DEF WriterInv
      <3> QED BY <1>a, <3>2, <3>3
    <2>2. errors = 0 /\ ~late => ~Busy /\ ~Finishing /\ scanned = {} /\ matches = {}
      BY <1>0, <2>1 DEF SealedInv, Sealed, OnceInv, DataTypes, Busy
    <2>3. /\ UNCHANGED <<events, tasks, matches, late>> /\ (errors' = 0 => errors = 0)
          /\ errors' = 0 => status' = status /\ (Finishing' => Finishing)
      BY <1>24, <1>0, <1>a DEF WriteFlushAt, WriteUnchanged, Fail, PlaceTypes
    <2>4. errors = 0 /\ ~late => status \notin {"PS_COMPLETING", "PS_COMPLETE"}
      BY <2>1 DEF SealedInv, Sealed
    <2>5. errors = 0 /\ ~late => /\ "complete" \notin ToSet(tasks)
                                 /\ \A e \in ToSet(events) : e.kind \notin {"hashed", "completed"}
      BY <2>2, EmptyList DEF Busy, IsDone
    <2> QED BY <2>2, <2>3, <2>4, <2>5
  <1>25. CASE WriteDecrement
    BY <1>25 DEF WriteDecrement, WriteUnchanged
  <1>26. CASE WriteMark
    BY <1>26 DEF WriteMark, WriteUnchanged
  <1>27. CASE HashTake
    BY <1>27 DEF HashTake, HashUnchanged
  <1>28. CASE HashSinglePart
    <2> HIDE DEF GoodInv, AllGood, HashOK
    <2>1. UNCHANGED <<events, tasks, mpc, ret, matches, disk, late>>
      BY <1>28 DEF HashSinglePart, HashUnchanged
    <2>2. errors' = 0 => errors = 0 /\ UNCHANGED status
      BY <1>28, <1>a DEF HashSinglePart, Fail
    <2> QED BY <2>1, <2>2 DEF GoodInv, AllGood, HashOK
  <1>29. CASE HashPost
    <2> DEFINE e == [kind |-> "part", part |-> Head(hWork), ok |-> hOk]
    <2>1. /\ events' = Append(events, e)
          /\ UNCHANGED <<status, tasks, mpc, ret, matches, disk, late, errors>>
      BY <1>29 DEF HashPost, HashUnchanged
    <2>2. e \in Event
      BY <1>29, <1>0 DEF HashPost, Event, HasherInv, ListTypes, FlagTypes
    <2>3. e.kind = "part"
      OBVIOUS
    <2> HIDE DEF e
    <2>4. ToSet(events') = ToSet(events) \cup {e}
      BY <1>0, <2>1, <2>2, EventAppend
    <2> QED BY <2>1, <2>3, <2>4
  <1>30. CASE HashDecrement
    BY <1>30 DEF HashDecrement, HashUnchanged
  <1>31. CASE HashingTaskPart
    BY <1>31 DEF HashingTaskPart, TaskUnchanged
  <1>32. CASE HashingTaskFails
    <2>1. errors' # 0
      BY <1>32, <1>a DEF HashingTaskFails, Fail
    <2> QED BY <2>1
  <1>33. CASE HashingTaskEnds
    <2> DEFINE e == [kind |-> "hashed", matches |-> matches]
    <2>1. /\ events' = Append(events, e) /\ tasks # <<>> /\ tasks' = Tail(tasks) /\ matches' = {}
          /\ UNCHANGED <<status, mpc, ret, disk, late, errors>>
      BY <1>33 DEF HashingTaskEnds, Running, TaskUnchanged
    <2>2. e \in Event /\ e.kind = "hashed" /\ e.matches = matches
      BY <1>0 DEF Event, DataTypes
    <2> HIDE DEF e
    <2>3. ToSet(events') = ToSet(events) \cup {e}
      BY <1>0, <2>1, <2>2, EventAppend
    <2>4. ToSet(tasks') \subseteq ToSet(tasks)
      BY <1>0, <2>1, TaskTail
    <2> QED BY <2>1, <2>2, <2>3, <2>4
  <1>34. CASE CompletionTask
    <2>1. /\ tasks # <<>> /\ tasks' = Tail(tasks) /\ Head(tasks) = "complete"
          /\ UNCHANGED <<status, mpc, ret, matches, disk, late>>
          /\ errors' = 0 => errors = 0
      BY <1>34, <1>a DEF CompletionTask, Running, TaskUnchanged, Fail
    <2>2. PICK ok \in BOOLEAN : events' = Append(events, [kind |-> "completed", ok |-> ok])
      BY <1>34 DEF CompletionTask
    <2> DEFINE e == [kind |-> "completed", ok |-> ok]
    <2>3. e \in Event /\ e.kind = "completed"
      BY DEF Event
    <2> HIDE DEF e
    <2>4. events' = Append(events, e)
      BY <2>2 DEF e
    <2>5. ToSet(events') = ToSet(events) \cup {e}
      BY <1>0, <2>3, <2>4, EventAppend
    <2>6. "complete" \in ToSet(tasks) /\ ToSet(tasks') \subseteq ToSet(tasks)
      BY <1>0, <2>1, TaskTail
    <2> QED BY <2>1, <2>3, <2>5, <2>6
  <1>35. CASE ShutDown
    BY <1>35, EmptyList DEF ShutDown, Goto
  <1>36. CASE EndHashThread
    BY <1>36 DEF EndHashThread, Goto
  <1>37. CASE EndWriteThread
    BY <1>37 DEF EndWriteThread, WriteThreadEnded, CallFlush, Goto
  <1>38. CASE SyncHashAndSave
    BY <1>38, <1>a DEF SyncHashAndSave, Fail, Goto
  <1>39. CASE UNCHANGED vars
    BY <1>39 DEF vars
  <1> HIDE DEF GoodInv, AllGood, HashOK, BlocksOf, Finishing, Flushing,
    fileVars, stateVars, bufferVars, mainVars, writeVars, hashVars, taskVars,
    threadVars, boundVars, histVars
  <1> QED BY <1>1, <1>2, <1>3, <1>4, <1>5, <1>6, <1>7, <1>8, <1>9, <1>10,
         <1>11, <1>12, <1>13, <1>14, <1>15, <1>16, <1>17, <1>18, <1>19, <1>20,
         <1>21, <1>22, <1>23, <1>24, <1>25, <1>26, <1>27, <1>28, <1>29, <1>30,
         <1>31, <1>32, <1>33, <1>34, <1>35, <1>36, <1>37, <1>38, <1>39
    DEF Next, FlushBuffer, Events, Completing, User, WriteThread, HashThread,
        Worker, Shutdown

\* Nothing but a failing disk operation takes a file out of PS_COMPLETE.
Terminal ==
  errors' = 0 =>
    /\ errors = 0
    /\ status = "PS_COMPLETE" => status' = "PS_COMPLETE"
    /\ Gone => Gone'
    /\ (cleared => cleared') /\ (outdated => outdated') /\ (late => late')

\* Terminal, action by action.
LEMMA TerminalStep ==
  ASSUME ThreadsInv, BytesInv, OnceInv, [Next]_vars
  PROVE  Terminal
  <1> USE PartFileConstants DEF Terminal, Gone, fileVars, stateVars,
    bufferVars, mainVars, writeVars, hashVars, taskVars, threadVars,
    boundVars, histVars
  <1>0. /\ FlagTypes /\ PlaceTypes /\ DataTypes /\ ListTypes
        /\ MainInv /\ WriterInv /\ HasherInv /\ BufferInv /\ HarvestInv
    BY TypeParts DEF ThreadsInv
  <1>a. errors \in Nat /\ ErrorInv
    BY <1>0 DEF DataTypes, BytesInv
  <1>1. CASE SourceAccepts
    BY <1>1 DEF SourceAccepts, GetStatus
  <1>2. ASSUME NEW b \in Blocks, NEW d \in {"good", "bad"},
               WriteToBuffer(b, d)
        PROVE  Terminal
    BY <1>2 DEF WriteToBuffer
  <1>3. CASE Process
    BY <1>3 DEF Process, CallFlush
  <1>4. CASE FlushNoSpace
    BY <1>4, <1>a DEF FlushNoSpace, Return, PauseFile, Fail
  <1>5. CASE FlushQueue
    BY <1>5 DEF FlushQueue, Goto
  <1>6. CASE FlushHarvest
    BY <1>6 DEF FlushHarvest, Harvest
  <1>7. CASE FlushWrite
    BY <1>7, <1>a DEF FlushWrite, Harvest, Return, Fail
  <1>8. CASE FlushLength
    BY <1>8, <1>a DEF FlushLength, Goto, Return, Fail
  <1>9. CASE FlushShare
    BY <1>9 DEF FlushShare, Goto
  <1>10. CASE FlushHash
    BY <1>10, <1>0 DEF FlushHash, Goto, Return, PlaceTypes
  <1>11. CASE FlushSweep
    BY <1>11 DEF FlushSweep, Harvest
  <1>12. CASE FlushTail
    BY <1>12 DEF FlushTail, Return, AddTask, ReadyToComplete
  <1>13. CASE OnAsyncHashComplete
    BY <1>13 DEF OnAsyncHashComplete, IsEvent, AddTask, ReadyToComplete
  <1>14. CASE PartFileHashFinished
    <2>1. Busy
      BY <1>14, <1>0, EventTail DEF PartFileHashFinished, IsEvent, Busy, IsDone
    <2>2. errors = 0 => status = "PS_COMPLETING"
      BY <2>1 DEF OnceInv
    <2> QED BY <1>14, <2>2 DEF PartFileHashFinished, IsEvent, CallFlush
  <1>15. CASE CompleteFileEnded
    <2>1. Busy
      BY <1>15, <1>0, EventTail DEF CompleteFileEnded, IsEvent, Busy, IsDone
    <2>2. errors = 0 => status = "PS_COMPLETING"
      BY <2>1 DEF OnceInv
    <2> QED BY <1>15, <2>2 DEF CompleteFileEnded, IsEvent, CallFlush
  <1>16. CASE CompleteStopped
    BY <1>16 DEF CompleteStopped, CallFlush, OnceInv, Finishing
  <1>17. CASE PerformFileComplete
    BY <1>17 DEF PerformFileComplete, AddTask, Goto
  <1>18. CASE UserPause
    BY <1>18 DEF UserPause, UserMay, PauseFile
  <1>19. CASE UserStop
    BY <1>19 DEF UserStop, UserMay, StopFile, PauseFile, CallFlush
  <1>20. CASE UserResume
    BY <1>20 DEF UserResume, UserMay, CallFlush
  <1>21. CASE UserDelete
    BY <1>21 DEF UserDelete, UserMay, StopFile, PauseFile, Goto
  <1>22. CASE DeleteFree
    BY <1>22 DEF DeleteFree, Goto
  <1>23. CASE WriteTake
    BY <1>23 DEF WriteTake, WriteUnchanged
  <1>24. CASE WriteFlushAt
    BY <1>24, <1>a DEF WriteFlushAt, WriteUnchanged, Fail
  <1>25. CASE WriteDecrement
    BY <1>25 DEF WriteDecrement, WriteUnchanged
  <1>26. CASE WriteMark
    BY <1>26 DEF WriteMark, WriteUnchanged
  <1>27. CASE HashTake
    BY <1>27 DEF HashTake, HashUnchanged
  <1>28. CASE HashSinglePart
    BY <1>28, <1>a DEF HashSinglePart, HashUnchanged, Fail
  <1>29. CASE HashPost
    BY <1>29 DEF HashPost, HashUnchanged
  <1>30. CASE HashDecrement
    BY <1>30 DEF HashDecrement, HashUnchanged
  <1>31. CASE HashingTaskPart
    BY <1>31 DEF HashingTaskPart, TaskUnchanged
  <1>32. CASE HashingTaskFails
    BY <1>32, <1>a DEF HashingTaskFails, TaskUnchanged, Fail
  <1>33. CASE HashingTaskEnds
    BY <1>33 DEF HashingTaskEnds, TaskUnchanged
  <1>34. CASE CompletionTask
    BY <1>34, <1>a DEF CompletionTask, TaskUnchanged, Fail
  <1>35. CASE ShutDown
    BY <1>35 DEF ShutDown, Goto
  <1>36. CASE EndHashThread
    BY <1>36 DEF EndHashThread, Goto
  <1>37. CASE EndWriteThread
    BY <1>37 DEF EndWriteThread, WriteThreadEnded, CallFlush, Goto
  <1>38. CASE SyncHashAndSave
    BY <1>38, <1>a DEF SyncHashAndSave, Fail, Goto
  <1>39. CASE UNCHANGED vars
    BY <1>39 DEF vars
  <1> HIDE DEF Terminal, Gone, fileVars, stateVars, bufferVars, mainVars,
    writeVars, hashVars, taskVars, threadVars, boundVars, histVars
  <1> QED BY <1>1, <1>2, <1>3, <1>4, <1>5, <1>6, <1>7, <1>8, <1>9, <1>10,
         <1>11, <1>12, <1>13, <1>14, <1>15, <1>16, <1>17, <1>18, <1>19, <1>20,
         <1>21, <1>22, <1>23, <1>24, <1>25, <1>26, <1>27, <1>28, <1>29, <1>30,
         <1>31, <1>32, <1>33, <1>34, <1>35, <1>36, <1>37, <1>38, <1>39
    DEF Next, FlushBuffer, Events, Completing, User, WriteThread, HashThread,
        Worker, Shutdown

\* A complete part with wrong data is traced after every step.
LEMMA TraceStep ==
  ASSUME ThreadsInv, BytesInv, OnceInv, TrackInv, NEW p \in Parts,
         errors' = 0, ~cleared', ~outdated', ~Gone', status' # "PS_COMPLETE",
         IsComplete(p)', ~HashOK(p)', [Next]_vars
  PROVE  Traced(p)'
  <1> USE PartFileConstants DEF Traced, Dirty, HashPending, Reported,
    IsComplete, HashOK, BlocksOf, fileVars, stateVars, bufferVars, mainVars,
    writeVars, hashVars, taskVars, threadVars, boundVars, histVars
  <1>0. /\ FlagTypes /\ PlaceTypes /\ DataTypes /\ ListTypes
        /\ MainInv /\ WriterInv /\ HasherInv /\ BufferInv /\ HarvestInv
    BY TypeParts DEF ThreadsInv
  <1>a. IsComplete(p) /\ ~HashOK(p) => Traced(p)
    BY TerminalStep DEF Terminal, TrackInv
  <1>b. errors \in Nat /\ errors = 0 /\ ~Gone /\ ~cleared /\ ~outdated /\ status # "PS_COMPLETE"
    BY <1>0, TerminalStep DEF DataTypes, Terminal
  <1>c. \A i \in ToSet(m_BufferedData_list) : i \in Ids /\ item'[i].blk = item[i].blk
    BY <1>0, ItemsStep, ToSetBasics DEF ItemsKeepBlock, ListTypes, BufferInv
  <1>1. CASE SourceAccepts
    BY <1>1, <1>a DEF SourceAccepts, GetStatus
  <1>2. ASSUME NEW b \in Blocks, NEW d \in {"good", "bad"},
               WriteToBuffer(b, d)
        PROVE  Traced(p)'
    <2>1. received + 1 \in Ids
      BY <1>2, <1>0 DEF WriteToBuffer, DataTypes, Ids
    <2>2. ToSet(m_BufferedData_list') = ToSet(m_BufferedData_list) \cup {received + 1}
      BY <1>2, <1>0, <2>1, InsertFacts DEF WriteToBuffer
    <2>3. item'[received + 1].blk = b
      BY <1>2, <1>0, <2>1 DEF WriteToBuffer, DataTypes
    <2>4. gaps' = gaps \ {b} /\ UNCHANGED <<disk, m_aChangedPart, events, m_jobList,
                                            hWork, hpc, hOk>>
      BY <1>2 DEF WriteToBuffer
    <2>5. CASE PartOf[b] = p
      BY <2>2, <2>3, <2>5
    <2>6. CASE PartOf[b] # p
      <3>1. IsComplete(p) /\ ~HashOK(p)
        BY <2>4, <2>6
      <3> QED BY <1>a, <1>c, <2>2, <2>4, <3>1
    <2> QED BY <2>5, <2>6
  <1>3. CASE Process
    BY <1>3, <1>a DEF Process, CallFlush
  <1>4. CASE FlushNoSpace
    BY <1>4, <1>a DEF FlushNoSpace, Return, PauseFile, Fail
  <1>5. CASE FlushQueue
    <2>1. UNCHANGED <<disk, m_aChangedPart, m_BufferedData_list, gaps, events,
                      m_jobList, hWork, hpc, hOk>>
      BY <1>5 DEF FlushQueue
    <2> QED BY <1>a, <1>c, <2>1
  <1>6. CASE FlushHarvest
    <2>1. UNCHANGED <<gaps, events, m_jobList, hWork, hpc, hOk>>
      BY <1>6 DEF FlushHarvest
    <2>2. CASE UNCHANGED <<disk, m_BufferedData_list, m_aChangedPart>>
      BY <1>a, <1>c, <2>1, <2>2
    <2>3. CASE Harvest /\ UNCHANGED item /\ UNCHANGED disk
      <3>1. /\ ToSet(m_BufferedData_list) = ToSet(m_BufferedData_list') \cup {Here}
            /\ m_aChangedPart' = m_aChangedPart \cup {PartOf[item[Here].blk]}
        BY <1>6, <1>0, <2>3, HarvestFacts DEF FlushHarvest, PlaceTypes
      <3> QED BY <1>a, <2>1, <2>3, <3>1
    <2> QED BY <1>6, <2>2, <2>3 DEF FlushHarvest
  <1>7. CASE FlushWrite
    <2>1. UNCHANGED <<item, gaps, events, m_jobList, hWork, hpc, hOk>>
      BY <1>7 DEF FlushWrite
    <2>2. disk' = [disk EXCEPT ![item[Here].blk] = item[Here].data] /\ Harvest
      BY <1>7, <1>b DEF FlushWrite, Fail
    <2>3. /\ ToSet(m_BufferedData_list) = ToSet(m_BufferedData_list') \cup {Here}
          /\ m_aChangedPart' = m_aChangedPart \cup {PartOf[item[Here].blk]}
      BY <1>7, <1>0, <2>2, HarvestFacts DEF FlushWrite, PlaceTypes
    <2>4. CASE PartOf[item[Here].blk] = p
      BY <2>3, <2>4
    <2>5. CASE PartOf[item[Here].blk] # p
      <3>1. \A b \in BlocksOf(p) : disk'[b] = disk[b]
        BY <1>0, <2>2, <2>5 DEF DataTypes
      <3>2. IsComplete(p) /\ ~HashOK(p)
        BY <2>1, <3>1
      <3> QED BY <1>a, <2>1, <2>3, <3>2
    <2> QED BY <2>4, <2>5
  <1>8. CASE FlushLength
    BY <1>8, <1>a DEF FlushLength, Goto, Return, Fail
  <1>9. CASE FlushShare
    <2>1. UNCHANGED <<disk, gaps, item, m_BufferedData_list, events, hWork, hpc, hOk>>
      BY <1>9 DEF FlushShare
    <2>2. CASE UNCHANGED <<m_aChangedPart, m_jobList>>
      BY <1>a, <2>1, <2>2
    <2>3. ASSUME NEW q, m_aChangedPart' = m_aChangedPart \ {q}, Enqueue({q}), q \in Parts
          PROVE  Traced(p)'
      <3>1. ToSet(m_jobList') = ToSet(m_jobList) \cup {q}
        BY <1>0, <2>3, EnqueueTypes
      <3> QED BY <1>a, <2>1, <2>3, <3>1
    <2>4. CASE FirstShareCandidates # {}
      <3> DEFINE q == CHOOSE r \in FirstShareCandidates :
                        \A s \in FirstShareCandidates : r <= s
      <3>1. m_aChangedPart' = m_aChangedPart \ {q} /\ Enqueue({q})
        BY <1>9, <2>4 DEF FlushShare
      <3>2. q \in Parts
        <4>1. FirstShareCandidates \subseteq Parts
          BY <1>0 DEF FirstShareCandidates, DataTypes
        <4>2. \E r \in FirstShareCandidates : \A s \in FirstShareCandidates : r <= s
          BY <2>4, <4>1, LeastNat DEF Parts
        <4> QED BY <4>1, <4>2
      <3> HIDE DEF q
      <3> QED BY <2>3, <3>1, <3>2
    <2> QED BY <1>9, <2>2, <2>4 DEF FlushShare
  <1>10. CASE FlushHash
    <2>1. UNCHANGED <<disk, gaps, item, m_BufferedData_list, events, hWork, hpc, hOk>>
      BY <1>10 DEF FlushHash
    <2>2. CASE UNCHANGED <<m_aChangedPart, m_jobList>>
      BY <1>a, <2>1, <2>2
    <2>3. CASE Enqueue({q \in m_aChangedPart : IsComplete(q)})
      <3>1. ToSet(m_jobList') = ToSet(m_jobList) \cup {q \in m_aChangedPart : IsComplete(q)}
        BY <1>0, <2>3, EnqueueTypes DEF DataTypes
      <3>2. IsComplete(p) /\ ~HashOK(p)
        BY <2>1
      <3>3. p \in m_aChangedPart => p \in ToSet(m_jobList')
        BY <3>1, <3>2
      <3> QED BY <1>a, <2>1, <3>1, <3>2, <3>3
    <2>4. CASE m_aChangedPart' = {} /\ m_aChangedPart = {} /\ UNCHANGED m_jobList
      BY <2>2, <2>4
    <2> QED BY <1>10, <2>2, <2>3, <2>4 DEF FlushHash, Return, Goto
  <1>11. CASE FlushSweep
    <2>1. UNCHANGED <<gaps, events, m_jobList, hWork, hpc, hOk>>
      BY <1>11 DEF FlushSweep
    <2>2. CASE UNCHANGED <<disk, m_BufferedData_list, m_aChangedPart>>
      BY <1>a, <1>c, <2>1, <2>2
    <2>3. CASE Harvest /\ UNCHANGED item /\ UNCHANGED disk
      <3>1. /\ ToSet(m_BufferedData_list) = ToSet(m_BufferedData_list') \cup {Here}
            /\ m_aChangedPart' = m_aChangedPart \cup {PartOf[item[Here].blk]}
        BY <1>11, <1>0, <2>3, HarvestFacts DEF FlushSweep, PlaceTypes
      <3> QED BY <1>a, <2>1, <2>3, <3>1
    <2> QED BY <1>11, <2>2, <2>3 DEF FlushSweep
  <1>12. CASE FlushTail
    BY <1>12, <1>a DEF FlushTail, Return, AddTask
  <1>13. CASE OnAsyncHashComplete
    <2> DEFINE e == Head(events)
    <2>1. /\ UNCHANGED <<disk, item, m_BufferedData_list, m_aChangedPart, m_jobList,
                         hWork, hpc, hOk>>
          /\ events # <<>> /\ events' = Tail(events) /\ e.kind = "part"
      BY <1>13 DEF OnAsyncHashComplete, IsEvent
    <2>2. e \in Event /\ ToSet(events) = ToSet(events') \cup {e}
      BY <1>0, <2>1, EventTail, ToSetTail DEF ListTypes
    <2>3. e.part \in Parts /\ e.ok \in BOOLEAN
      BY <2>1, <2>2 DEF Event
    <2> DEFINE corrupt == IsComplete(e.part) /\ ~e.ok
               recovered == ~IsComplete(e.part) /\ e.part \in m_corrupted_list /\ ICH /\ e.ok
    <2>4. /\ gaps' = IF corrupt THEN gaps \cup BlocksOf(e.part)
                     ELSE IF recovered THEN gaps \ BlocksOf(e.part) ELSE gaps
          /\ recovered => HashOK(e.part)
      BY <1>13, <1>b DEF OnAsyncHashComplete
    <2> HIDE DEF e
    <2>5. CASE p = e.part
      <3>1. \E b \in BlocksOf(p) : b \in Blocks
        BY DEF BlocksOf
      <3>2. ~corrupt /\ ~recovered
        BY <2>1, <2>4, <2>5, <3>1
      <3>3. IsComplete(p) /\ ~HashOK(p) /\ e.ok
        BY <2>1, <2>3, <2>4, <2>5, <3>2
      <3> QED BY <1>a, <2>1, <2>2, <3>3
    <2>6. CASE p # e.part
      <3>1. BlocksOf(p) \cap BlocksOf(e.part) = {}
        BY <2>6
      <3>2. IsComplete(p) /\ ~HashOK(p)
        BY <2>1, <2>4, <3>1
      <3> QED BY <1>a, <2>1, <2>2, <2>6, <3>2
    <2> QED BY <2>5, <2>6
  <1>14. CASE PartFileHashFinished
    <2> DEFINE e == Head(events)
               wrong == Mismatched(e.matches)
               filled == {q \in e.matches : ~IsComplete(q)}
    <2>1. /\ UNCHANGED <<disk, item, m_BufferedData_list, m_aChangedPart, m_jobList,
                         hWork, hpc, hOk>>
          /\ events # <<>> /\ events' = Tail(events) /\ e.kind = "hashed"
          /\ \A q \in filled : HashOK(q)
      BY <1>14 DEF PartFileHashFinished, IsEvent
    <2>2. gaps' = (gaps \ UNION {BlocksOf(q) : q \in filled})
                     \cup UNION {BlocksOf(q) : q \in wrong}
      BY <1>14 DEF PartFileHashFinished
    <2>3. e \in Event /\ ToSet(events) = ToSet(events') \cup {e}
      BY <1>0, <2>1, EventTail, ToSetTail DEF ListTypes
    <2>4. e.matches \subseteq Parts
      BY <2>1, <2>3 DEF Event
    <2>5. p \notin filled
      BY <2>1
    <2>6. p \notin wrong
      <3>1. \E b \in BlocksOf(p) : b \in Blocks
        OBVIOUS
      <3> QED BY <2>2, <3>1
    <2>7. BlocksOf(p) \cap gaps' = BlocksOf(p) \cap gaps
      <3>1. \A q \in filled \cup wrong : BlocksOf(p) \cap BlocksOf(q) = {}
        BY <2>5, <2>6
      <3> QED BY <2>2, <3>1
    <2> HIDE DEF e, wrong, filled
    <2> QED BY <1>a, <2>1, <2>3, <2>7
  <1>15. CASE CompleteFileEnded
    <2>1. /\ UNCHANGED <<disk, gaps, item, m_BufferedData_list, m_aChangedPart,
                         m_jobList, hWork, hpc, hOk>>
          /\ events # <<>> /\ events' = Tail(events) /\ Head(events).kind = "completed"
      BY <1>15 DEF CompleteFileEnded, IsEvent
    <2>2. ToSet(events) = ToSet(events') \cup {Head(events)}
      BY <1>0, <2>1, ToSetTail DEF ListTypes
    <2> QED BY <1>a, <2>1, <2>2
  <1>16. CASE CompleteStopped
    BY <1>16, <1>a DEF CompleteStopped, CallFlush
  <1>17. CASE PerformFileComplete
    BY <1>17, <1>a DEF PerformFileComplete, AddTask, Goto
  <1>18. CASE UserPause
    BY <1>18, <1>a DEF UserPause, UserMay, PauseFile
  <1>19. CASE UserStop
    BY <1>19, <1>a DEF UserStop, UserMay, StopFile, PauseFile, CallFlush
  <1>20. CASE UserResume
    BY <1>20, <1>a DEF UserResume, UserMay, CallFlush
  <1>21. CASE UserDelete
    BY <1>21, <1>a DEF UserDelete, UserMay, StopFile, PauseFile, Goto
  <1>22. CASE DeleteFree
    BY <1>22 DEF DeleteFree, Goto, Gone
  <1>23. CASE WriteTake
    BY <1>23, <1>a DEF WriteTake, WriteUnchanged
  <1>24. CASE WriteFlushAt
    <2> DEFINE i == Head(wWork)
    <2>1. /\ UNCHANGED <<item, m_BufferedData_list, m_aChangedPart, gaps, events,
                         m_jobList, hWork, hpc, hOk>>
          /\ disk' = [disk EXCEPT ![item[i].blk] = item[i].data]
      BY <1>24, <1>b DEF WriteFlushAt, WriteUnchanged, Fail
    <2>2. i \in ToSet(wWork) /\ i \in Ids
      BY <1>24, <1>0, ToSetTail, ToSetBasics DEF WriteFlushAt, WriterInv, ListTypes
    <2>3. i \in ToSet(m_BufferedData_list)
      BY <1>0, <1>b, <2>2 DEF BufferInv
    <2>4. CASE PartOf[item[i].blk] = p
      BY <2>1, <2>3, <2>4
    <2>5. CASE PartOf[item[i].blk] # p
      <3>1. \A b \in BlocksOf(p) : disk'[b] = disk[b]
        BY <1>0, <2>1, <2>5 DEF DataTypes
      <3>2. IsComplete(p) /\ ~HashOK(p)
        BY <2>1, <3>1
      <3> QED BY <1>a, <2>1, <3>2
    <2> QED BY <2>4, <2>5
  <1>25. CASE WriteDecrement
    BY <1>25, <1>a DEF WriteDecrement, WriteUnchanged
  <1>26. CASE WriteMark
    <2>1. UNCHANGED <<disk, m_aChangedPart, m_BufferedData_list, gaps, events,
                      m_jobList, hWork, hpc, hOk>>
      BY <1>26 DEF WriteMark, WriteUnchanged
    <2> QED BY <1>a, <1>c, <2>1
  <1>27. CASE HashTake
    <2>1. /\ UNCHANGED <<disk, gaps, item, m_BufferedData_list, m_aChangedPart, events>>
          /\ hWork' = m_jobList /\ hpc' = IF m_jobList # <<>> THEN "hash" ELSE "exited"
          /\ hpc = "take"
      BY <1>27 DEF HashTake, HashUnchanged
    <2>2. hWork = <<>>
      BY <1>0, <2>1 DEF HasherInv
    <2>3. p \in ToSet(m_jobList) => /\ m_jobList # <<>>
                                    /\ p = Head(m_jobList) \/ p \in ToSet(Tail(m_jobList))
      BY <1>0, ToSetTail, EmptyList DEF ListTypes
    <2> QED BY <1>a, <2>1, <2>2, <2>3
  <1>28. CASE HashSinglePart
    BY <1>28, <1>a DEF HashSinglePart, HashUnchanged, Fail
  <1>29. CASE HashPost
    <2> DEFINE e == [kind |-> "part", part |-> Head(hWork), ok |-> hOk]
    <2>1. /\ events' = Append(events, e) /\ hpc = "post" /\ hpc' = "dec"
          /\ UNCHANGED <<disk, gaps, item, m_BufferedData_list, m_aChangedPart,
                         m_jobList, hWork, hOk>>
      BY <1>29 DEF HashPost, HashUnchanged
    <2>2. e \in Event
      BY <1>29, <1>0 DEF HashPost, Event, HasherInv, ListTypes, FlagTypes
    <2>3. e.kind = "part" /\ e.part = Head(hWork) /\ e.ok = hOk
      OBVIOUS
    <2> HIDE DEF e
    <2>4. ToSet(events') = ToSet(events) \cup {e}
      BY <1>0, <2>1, <2>2, EventAppend
    <2> QED BY <1>a, <2>1, <2>3, <2>4
  <1>30. CASE HashDecrement
    <2>1. /\ UNCHANGED <<disk, gaps, item, m_BufferedData_list, m_aChangedPart,
                         events, m_jobList, hOk>>
          /\ hWork' = Tail(hWork) /\ (Tail(hWork) # <<>> => hpc' = "hash")
          /\ hpc = "dec"
      BY <1>30 DEF HashDecrement, HashUnchanged
    <2>2. hWork # <<>> /\ hWork \in Seq(Parts)
      BY <1>0, <2>1 DEF HasherInv, ListTypes
    <2>3. Tail(hWork) \in Seq(Parts)
      BY <2>2, HeadTailProperties
    <2> DEFINE t == Tail(hWork)
    <2> HIDE DEF t
    <2>4. p \in ToSet(t) => t # <<>> /\ (p = Head(t) \/ p \in ToSet(Tail(t)))
      <3>1. t \in Seq(Parts)
        BY <2>3 DEF t
      <3> QED BY <3>1, ToSetTail, EmptyList
    <2>5. hWork' = t /\ (t # <<>> => hpc' = "hash")
      BY <2>1 DEF t
    <2>6. HashPending(p) => p \in ToSet(t) \/ p \in ToSet(m_jobList)
      BY <2>1 DEF t
    <2>7. HashPending(p) => HashPending(p)'
      BY <2>1, <2>4, <2>5, <2>6
    <2> HIDE DEF HashPending
    <2> QED BY <1>a, <2>1, <2>7
  <1>31. CASE HashingTaskPart
    BY <1>31, <1>a DEF HashingTaskPart, TaskUnchanged
  <1>32. CASE HashingTaskFails
    BY <1>32, <1>a DEF HashingTaskFails, TaskUnchanged, Fail
  <1>33. CASE HashingTaskEnds
    <2>1. UNCHANGED <<disk, gaps, item, m_BufferedData_list, m_aChangedPart,
                      m_jobList, hWork, hpc, hOk>>
      BY <1>33 DEF HashingTaskEnds, TaskUnchanged
    <2>2. PICK e \in Event : events' = Append(events, e)
      BY <1>33, <1>0 DEF HashingTaskEnds, Event, DataTypes
    <2>3. ToSet(events') = ToSet(events) \cup {e}
      BY <1>0, <2>2, EventAppend
    <2> QED BY <1>a, <2>1, <2>3
  <1>34. CASE CompletionTask
    <2>1. UNCHANGED <<disk, gaps, item, m_BufferedData_list, m_aChangedPart,
                      m_jobList, hWork, hpc, hOk>>
      BY <1>34 DEF CompletionTask, TaskUnchanged
    <2>2. PICK e \in Event : events' = Append(events, e)
      BY <1>34 DEF CompletionTask, Event
    <2>3. ToSet(events') = ToSet(events) \cup {e}
      BY <1>0, <2>2, EventAppend
    <2> QED BY <1>a, <2>1, <2>3
  <1>35. CASE ShutDown
    BY <1>35, <1>a DEF ShutDown, Goto
  <1>36. CASE EndHashThread
    BY <1>36, <1>a DEF EndHashThread, Goto
  <1>37. CASE EndWriteThread
    BY <1>37, <1>a DEF EndWriteThread, WriteThreadEnded, CallFlush, Goto
  <1>38. CASE SyncHashAndSave
    BY <1>38 DEF SyncHashAndSave, Goto, Gone
  <1>39. CASE UNCHANGED vars
    BY <1>a, <1>39 DEF vars
  <1> HIDE DEF Traced, Dirty, HashPending, Reported, IsComplete, HashOK,
    BlocksOf, fileVars, stateVars, bufferVars, mainVars, writeVars, hashVars,
    taskVars, threadVars, boundVars, histVars
  <1> QED BY <1>1, <1>2, <1>3, <1>4, <1>5, <1>6, <1>7, <1>8, <1>9, <1>10,
         <1>11, <1>12, <1>13, <1>14, <1>15, <1>16, <1>17, <1>18, <1>19, <1>20,
         <1>21, <1>22, <1>23, <1>24, <1>25, <1>26, <1>27, <1>28, <1>29, <1>30,
         <1>31, <1>32, <1>33, <1>34, <1>35, <1>36, <1>37, <1>38, <1>39
    DEF Next, FlushBuffer, Events, Completing, User, WriteThread, HashThread,
        Worker, Shutdown

\* FinalInv: ~CPartFile hashes what is still dirty.
LEMMA FinalStep ==
  ASSUME ThreadsInv, BytesInv, OnceInv, SealedInv, HandleInv, TrackInv, FinalInv, [Next]_vars
  PROVE  FinalInv'
  <1> USE PartFileConstants DEF Reported, IsComplete, HashOK, BlocksOf,
    fileVars, stateVars, bufferVars, mainVars, writeVars, hashVars, taskVars,
    threadVars, boundVars, histVars
  <1> SUFFICES ASSUME errors' = 0, ~cleared', ~outdated', ~late', (mpc = "closed")', gaps' # {},
                      NEW p \in Parts, IsComplete(p)', ~HashOK(p)'
               PROVE  Reported(p)'
    BY DEF FinalInv
  <1>0. /\ FlagTypes /\ PlaceTypes /\ DataTypes /\ ListTypes
        /\ MainInv /\ WriterInv /\ HasherInv /\ BufferInv /\ HarvestInv
    BY TypeParts DEF ThreadsInv
  <1>a. errors \in Nat /\ errors = 0 /\ ~late /\ ~cleared /\ ~outdated
    BY <1>0, TerminalStep DEF DataTypes, Terminal
  <1>b. mpc = "closed" /\ gaps # {} /\ IsComplete(p) /\ ~HashOK(p) => Reported(p)
    BY <1>a DEF FinalInv
  <1>1. CASE SourceAccepts
    BY <1>1, <1>b DEF SourceAccepts, GetStatus
  <1>2. ASSUME NEW b \in Blocks, NEW d \in {"good", "bad"},
               WriteToBuffer(b, d)
        PROVE  Reported(p)'
    BY <1>2, <1>b DEF WriteToBuffer
  <1>3. CASE Process
    BY <1>3, <1>b DEF Process, CallFlush
  <1>4. CASE FlushNoSpace
    BY <1>4, <1>0 DEF FlushNoSpace, Return, PauseFile, Fail, PlaceTypes,
       MainInv, Flushing
  <1>5. CASE FlushQueue
    BY <1>5, <1>b DEF FlushQueue, Goto
  <1>6. CASE FlushHarvest
    BY <1>6, <1>b DEF FlushHarvest, Harvest
  <1>7. CASE FlushWrite
    BY <1>7, <1>0 DEF FlushWrite, Harvest, Return, Fail, PlaceTypes, MainInv,
       Flushing
  <1>8. CASE FlushLength
    BY <1>8, <1>0 DEF FlushLength, Goto, Return, Fail, PlaceTypes, MainInv,
       Flushing
  <1>9. CASE FlushShare
    BY <1>9, <1>b DEF FlushShare, Goto
  <1>10. CASE FlushHash
    BY <1>10, <1>0 DEF FlushHash, Goto, Return, PlaceTypes, MainInv, Flushing
  <1>11. CASE FlushSweep
    BY <1>11, <1>b DEF FlushSweep, Harvest
  <1>12. CASE FlushTail
    BY <1>12, <1>0 DEF FlushTail, Return, AddTask, PlaceTypes, MainInv,
       Flushing
  <1>13. CASE OnAsyncHashComplete
    BY <1>13, <1>b DEF OnAsyncHashComplete, IsEvent, AddTask
  <1>14. CASE PartFileHashFinished
    BY <1>14, <1>b DEF PartFileHashFinished, IsEvent, CallFlush
  <1>15. CASE CompleteFileEnded
    BY <1>15, <1>b DEF CompleteFileEnded, IsEvent
  <1>16. CASE CompleteStopped
    BY <1>16, <1>b DEF CompleteStopped, CallFlush
  <1>17. CASE PerformFileComplete
    BY <1>17, <1>b DEF PerformFileComplete, AddTask, Goto
  <1>18. CASE UserPause
    BY <1>18, <1>b DEF UserPause, UserMay, PauseFile
  <1>19. CASE UserStop
    BY <1>19, <1>b DEF UserStop, UserMay, StopFile, PauseFile, CallFlush
  <1>20. CASE UserResume
    BY <1>20, <1>b DEF UserResume, UserMay, CallFlush
  <1>21. CASE UserDelete
    BY <1>21, <1>b DEF UserDelete, UserMay, StopFile, PauseFile, Goto
  <1>22. CASE DeleteFree
    BY <1>22, <1>b DEF DeleteFree, Goto
  <1>23. CASE WriteTake
    BY <1>23, <1>0 DEF WriteTake, WriteUnchanged, MainInv
  <1>24. CASE WriteFlushAt
    BY <1>24, <1>0 DEF WriteFlushAt, WriteUnchanged, MainInv
  <1>25. CASE WriteDecrement
    BY <1>25, <1>0 DEF WriteDecrement, WriteUnchanged, MainInv
  <1>26. CASE WriteMark
    BY <1>26, <1>0 DEF WriteMark, WriteUnchanged, MainInv
  <1>27. CASE HashTake
    BY <1>27, <1>0 DEF HashTake, HashUnchanged, MainInv
  <1>28. CASE HashSinglePart
    BY <1>28, <1>0 DEF HashSinglePart, HashUnchanged, MainInv
  <1>29. CASE HashPost
    BY <1>29, <1>0 DEF HashPost, HashUnchanged, MainInv
  <1>30. CASE HashDecrement
    BY <1>30, <1>0 DEF HashDecrement, HashUnchanged, MainInv
  <1>31. CASE HashingTaskPart
    BY <1>31, <1>0 DEF HashingTaskPart, Running, TaskUnchanged, MainInv
  <1>32. CASE HashingTaskFails
    BY <1>32, <1>0 DEF HashingTaskFails, Running, TaskUnchanged, MainInv
  <1>33. CASE HashingTaskEnds
    BY <1>33, <1>0 DEF HashingTaskEnds, Running, TaskUnchanged, MainInv
  <1>34. CASE CompletionTask
    BY <1>34, <1>0 DEF CompletionTask, Running, TaskUnchanged, MainInv
  <1>35. CASE ShutDown
    BY <1>35, <1>b DEF ShutDown, Goto
  <1>36. CASE EndHashThread
    BY <1>36, <1>b DEF EndHashThread, Goto
  <1>37. CASE EndWriteThread
    <2>1. ~handle /\ mpc = "endWrite" /\ UNCHANGED gaps
      BY <1>37 DEF EndWriteThread, CallFlush
    <2>2. gaps = {}
      BY <1>a, <2>1 DEF HandleInv, SealedInv, Sealed
    <2> QED BY <2>1, <2>2
  <1>38. CASE SyncHashAndSave
    <2>1. mpc = "dtor" /\ UNCHANGED <<disk, events>>
          /\ gaps \subseteq gaps' /\ UNION {BlocksOf(q) : q \in {r \in SyncHashed : ~HashOK(r)}} \subseteq gaps'
      BY <1>38 DEF SyncHashAndSave
    <2>2. IsComplete(p) /\ ~HashOK(p)
      BY <2>1
    <2>3. status # "PS_COMPLETE" /\ ~Gone
      BY <1>a, <2>1 DEF HandleInv, Gone
    <2>4. Traced(p)
      BY <1>a, <2>2, <2>3 DEF TrackInv
    <2>5. m_BufferedData_list = <<>> /\ hWork = <<>> /\ m_jobList = <<>>
      BY <1>0, <1>a, <2>1 DEF BytesInv, ClosingInv, MainInv, HasherInv
    <2>6. p \notin m_aChangedPart
      <3>1. p \in m_aChangedPart => p \in SyncHashed
        BY <2>2 DEF SyncHashed
      <3>2. \E b \in BlocksOf(p) : b \in Blocks
        OBVIOUS
      <3>3. ~(p \in SyncHashed)
        BY <2>1, <2>2, <3>2
      <3> QED BY <3>1, <3>3
    <2>7. Reported(p)
      BY <2>4, <2>5, <2>6, EmptyList DEF Traced, Dirty, HashPending
    <2> QED BY <2>1, <2>7
  <1>39. CASE UNCHANGED vars
    BY <1>b, <1>39 DEF vars
  <1> HIDE DEF Reported, IsComplete, HashOK, BlocksOf, fileVars, stateVars,
    bufferVars, mainVars, writeVars, hashVars, taskVars, threadVars,
    boundVars, histVars
  <1> QED BY <1>1, <1>2, <1>3, <1>4, <1>5, <1>6, <1>7, <1>8, <1>9, <1>10,
         <1>11, <1>12, <1>13, <1>14, <1>15, <1>16, <1>17, <1>18, <1>19, <1>20,
         <1>21, <1>22, <1>23, <1>24, <1>25, <1>26, <1>27, <1>28, <1>29, <1>30,
         <1>31, <1>32, <1>33, <1>34, <1>35, <1>36, <1>37, <1>38, <1>39
    DEF Next, FlushBuffer, Events, Completing, User, WriteThread, HashThread,
        Worker, Shutdown

\* TrackInv is TraceStep for every part.
LEMMA TrackStep ==
  ASSUME ThreadsInv, BytesInv, OnceInv, TrackInv, [Next]_vars
  PROVE  TrackInv'
  BY TraceStep DEF TrackInv

(***************************************************************************)
(* What holds of a file on its way to completion.                          *)
(***************************************************************************)
OutcomeInv ==
  OnceInv /\ SealedInv /\ HandleInv /\ GoodInv /\ TrackInv /\ FinalInv

\* OutcomeInv is inductive, given ThreadsInv and BytesInv.
LEMMA OutcomeStep ==
  ASSUME ThreadsInv, BytesInv, OutcomeInv, [Next]_vars
  PROVE  OutcomeInv'
  <1>1. OnceInv /\ SealedInv /\ HandleInv /\ GoodInv /\ TrackInv /\ FinalInv
    BY DEF OutcomeInv
  <1>2. OnceInv' /\ SealedInv' /\ HandleInv'
    BY <1>1, OnceStep, SealedStep, HandleStep
  <1>3. GoodInv' /\ TrackInv' /\ FinalInv'
    BY <1>1, GoodStep, TrackStep, FinalStep
  <1> QED BY <1>2, <1>3 DEF OutcomeInv

\* The initial state is idle and has every gap.
LEMMA OutcomeInit == Init => OutcomeInv
  <1> SUFFICES ASSUME Init PROVE OutcomeInv
    OBVIOUS
  <1> USE EmptyList, PartFileConstants
  <1>1. /\ ToSet(events) = {} /\ ToSet(tasks) = {} /\ events = <<>> /\ tasks = <<>>
        /\ gaps = Blocks /\ matches = {} /\ scanned = {}
        /\ mpc = "idle" /\ status = "PS_EMPTY" /\ handle
    BY DEF Init
  <1>2. Len(tasks) <= 1 /\ OneDone(events)
    BY <1>1 DEF OneDone
  <1>3. OnceInv
    BY <1>1, <1>2 DEF OnceInv, Finishing, Flushing, Busy
  <1>4. SealedInv /\ HandleInv
    BY <1>1 DEF SealedInv, Sealed, HandleInv, Flushing
  <1>5. GoodInv
    BY <1>1 DEF GoodInv, Finishing, Flushing
  <1>6. \A p \in Parts : ~IsComplete(p)
    BY <1>1 DEF IsComplete, BlocksOf
  <1>7. TrackInv /\ FinalInv
    BY <1>6 DEF TrackInv, FinalInv
  <1> QED BY <1>3, <1>4, <1>5, <1>7 DEF OutcomeInv

\* OutcomeInv is an invariant of the specification: the induction needs
\* ThreadsInv and BytesInv beside it.
THEOREM OutcomeInvariant == Spec => []OutcomeInv
  <1>1. Init => ThreadsInv /\ BytesInv /\ OutcomeInv
    BY ThreadsInit, BytesInit, OutcomeInit
  <1>2. /\ ThreadsInv /\ BytesInv /\ OutcomeInv /\ [Next]_vars
        => (ThreadsInv /\ BytesInv /\ OutcomeInv)'
    BY ThreadsStep, BytesStep, OutcomeStep
  <1> QED BY <1>1, <1>2, PTL DEF Spec

(***************************************************************************)
(* CompleteFile, called from FlushBuffer, OnAsyncHashComplete and          *)
(* PartFileHashFinished, never has two full hashes or completions under    *)
(* way, as long as no disk operation failed.                               *)
(***************************************************************************)
THEOREM CompletionIsSingle == Spec => [](errors = 0 => SingleCompletion)
  <1>1. TypeOK /\ OnceInv => (errors = 0 => SingleCompletion)
    <2> SUFFICES ASSUME TypeOK, OnceInv, errors = 0
                 PROVE  SingleCompletion
      OBVIOUS
    <2> DEFINE done == {k \in DOMAIN events : events[k].kind \in {"hashed", "completed"}}
    <2>1. /\ events \in Seq(Event) /\ tasks \in Seq({"hash", "complete"})
          /\ Len(tasks) \in Nat /\ (tasks = <<>> <=> Len(tasks) = 0)
      BY ToSetBasics DEF TypeOK
    <2>2. \A k \in DOMAIN events : events[k] \in ToSet(events)
      BY <2>1, ToSetBasics, LenProperties
    <2>3. done = {} \/ \E k \in DOMAIN events : done = {k}
      BY DEF OnceInv, OneDone, IsDone
    <2>4. Cardinality(done) = 0 \/ (Cardinality(done) = 1 /\ done # {})
      BY <2>3, FS_EmptySet, FS_Singleton
    <2>5. done # {} => tasks = <<>>
      BY <2>2 DEF OnceInv, IsDone
    <2>6. done # {} \/ tasks # <<>> => status = "PS_COMPLETING"
      BY <2>2 DEF OnceInv, Busy, IsDone
    <2>7. Len(tasks) <= 1 /\ InFlight = Len(tasks) + Cardinality(done)
      BY DEF OnceInv, InFlight
    <2> HIDE DEF done
    <2>8. done = {} => Cardinality(done) = 0
      BY FS_EmptySet
    <2> QED BY <2>1, <2>4, <2>5, <2>6, <2>7, <2>8 DEF SingleCompletion
  <1>2. OutcomeInv => OnceInv
    BY DEF OutcomeInv
  <1> QED BY <1>1, <1>2, TypeCorrect, OutcomeInvariant, PTL

(***************************************************************************)
(* The write and the hash thread find the handle open whenever they touch  *)
(* the .part file, although PerformFileComplete and ~CPartFile close it    *)
(* without asking them: the counters keep them apart.                      *)
(***************************************************************************)
THEOREM ThreadsFindHandleOpen == Spec => []HandleOpenUnlessLate
  <1>1. ThreadsInv /\ OutcomeInv => HandleOpenUnlessLate
    <2> SUFFICES ASSUME ThreadsInv, OutcomeInv, ~late, ~(errors > 0), ~handle,
                        mpc # "deleted", hpc = "hash" \/ wpc = "write"
                 PROVE  FALSE
      BY DEF HandleOpenUnlessLate, HandleOpenInThreads
    <2>1. /\ DataTypes /\ ListTypes /\ MainInv /\ WriterInv /\ HasherInv
      BY TypeParts DEF ThreadsInv
    <2>2. errors = 0
      BY <2>1 DEF DataTypes
    <2>3. mpc # "closed"
      BY <2>1 DEF MainInv
    <2>4. m_iWrites = 0 /\ m_pendingHashes = 0
      BY <2>2, <2>3 DEF OutcomeInv, HandleInv, SealedInv
    <2>5. /\ Len(hWork) \in Nat /\ Len(wWork) \in Nat
          /\ Len(m_jobList) \in Nat /\ Len(m_flushList) \in Nat
          /\ hWork # <<>> => Len(hWork) > 0
          /\ wWork # <<>> => Len(wWork) > 0
      BY <2>1, ToSetBasics DEF ListTypes
    <2>6. CASE hpc = "hash"
      BY <2>1, <2>4, <2>5, <2>6 DEF HasherInv
    <2>7. CASE wpc = "write"
      <3>1. m_iWrites >= Len(m_flushList) + Len(wWork) /\ wWork # <<>>
        BY <2>1, <2>5, <2>7 DEF WriterInv
      <3> QED BY <2>4, <2>5, <3>1
    <2> QED BY <2>6, <2>7
  <1> QED BY <1>1, ThreadsInvariant, OutcomeInvariant, PTL

(***************************************************************************)
(* A file in PS_COMPLETE has no gap and only right data.                   *)
(***************************************************************************)
THEOREM CompleteFilesAreVerified == Spec => []VerifiedUnlessLate
  <1>1. TypeOK /\ OutcomeInv => VerifiedUnlessLate
    <2> SUFFICES ASSUME TypeOK, OutcomeInv, ~late, ~(errors > 0), status = "PS_COMPLETE"
                 PROVE  gaps = {} /\ \A p \in Parts : HashOK(p)
      BY DEF VerifiedUnlessLate, CompleteMeansVerified
    <2>1. errors = 0
      BY DEF TypeOK
    <2> QED BY <2>1 DEF OutcomeInv, SealedInv, Sealed, GoodInv, AllGood
  <1> QED BY <1>1, TypeCorrect, OutcomeInvariant, PTL

(***************************************************************************)
(* A complete part with wrong data on the disk is dirty, waits to be       *)
(* hashed, or has a result on its way to OnAsyncHashComplete.              *)
(***************************************************************************)
THEOREM CorruptionIsTracked == Spec => []CorruptionTrackedUnlessCleared
  <1>1. TypeOK /\ OutcomeInv => CorruptionTrackedUnlessCleared
    <2> SUFFICES ASSUME TypeOK, OutcomeInv, ~(errors > 0), ~cleared, ~outdated, ~Gone,
                        status # "PS_COMPLETE",
                        NEW p \in Parts, IsComplete(p), ~HashOK(p)
                 PROVE  Tracked(p)
      BY DEF CorruptionTrackedUnlessCleared, CorruptionTracked
    <2>1. errors = 0
      BY DEF TypeOK
    <2>2. Traced(p)
      BY <2>1 DEF OutcomeInv, TrackInv
    <2>3. HashPending(p) => p \in ToSet(m_jobList) \cup ToSet(hWork)
      BY ToSetTail DEF HashPending, TypeOK
    <2> QED BY <2>2, <2>3 DEF Traced, Dirty, Reported, Tracked
  <1> QED BY <1>1, TypeCorrect, OutcomeInvariant, PTL

(***************************************************************************)
(* What ~CPartFile saves: the blocks it calls present are written, and a   *)
(* corrupt part is only kept if its result was never handled.              *)
(***************************************************************************)
THEOREM ShutdownVerifiesRest == Spec => []ShutdownVerifies
  <1>1. BytesInv /\ OutcomeInv => ShutdownVerifies
    BY DEF BytesInv, ClosingInv, OutcomeInv, FinalInv, Reported, ShutdownVerifies,
           ShutdownWrites
  <1> QED BY <1>1, BytesInvariant, OutcomeInvariant, PTL
==============================================================================
