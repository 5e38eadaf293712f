------------------------ MODULE PartFileThreadProofs ------------------------
(*****************************************************************************)
(* Proofs about PartFile.tla, first part: the threads.                       *)
(*                                                                           *)
(* ThreadsInv joins TypeOK with what the main thread, the write thread and   *)
(* the hash thread keep between them: where each may be while the program    *)
(* runs and while it shuts down, and what the lists they share hold.  It is  *)
(* inductive, and gives that the counters FlushBuffer and ~CPartFile trust   *)
(* are exact.                                                                *)
(*****************************************************************************)
EXTENDS PartFile, ListLemmas

\* The initial state has the types.
LEMMA InitTypes == Init => TypeOK
  <1> SUFFICES ASSUME Init PROVE TypeOK OBVIOUS
  <1> USE PartFileConstants DEF Init
  <1>1. item \in [Ids -> [blk : Blocks, data : {"good", "bad"}, flushed : Flags]]
    BY DEF Unused, Blocks, Flags
  <1>2. m_bRun \in [write : BOOLEAN, hash : BOOLEAN] OBVIOUS
  <1>3. /\ received \in 0..MaxReceives /\ bad \in 0..MaxBad /\ errors \in 0..MaxErrors
    OBVIOUS
  <1>4. disk \in [Blocks -> {"none", "good", "bad"}] OBVIOUS
  <1>5. at \in Nat \ {0} OBVIOUS
  <1>6. /\ m_paused \in BOOLEAN /\ m_insufficient \in BOOLEAN
        /\ sources \in BOOLEAN /\ handle \in BOOLEAN
        /\ wOk \in BOOLEAN /\ wKeep \in BOOLEAN
        /\ hOk \in BOOLEAN /\ hKeep \in BOOLEAN
        /\ late \in BOOLEAN /\ outdated \in BOOLEAN /\ cleared \in BOOLEAN /\ forced \in BOOLEAN
    BY Zenon
  <1>7. /\ events \in Seq(Event) /\ m_BufferedData_list \in Seq(Ids)
        /\ m_flushList \in Seq(Ids) /\ wWork \in Seq(Ids)
        /\ m_jobList \in Seq(Parts) /\ hWork \in Seq(Parts)
        /\ tasks \in Seq({"hash", "complete"})
    BY EmptySeq
  <1> QED
    BY <1>1, <1>2, <1>3, <1>4, <1>5, <1>6, <1>7 DEF TypeOK, Statuses, MainPCs

FlagTypes ==
  /\ m_paused \in BOOLEAN /\ m_insufficient \in BOOLEAN
  /\ sources \in BOOLEAN /\ handle \in BOOLEAN
  /\ wOk \in BOOLEAN /\ wKeep \in BOOLEAN
  /\ hOk \in BOOLEAN /\ hKeep \in BOOLEAN
  /\ late \in BOOLEAN /\ outdated \in BOOLEAN /\ cleared \in BOOLEAN /\ forced \in BOOLEAN
  /\ m_bRun \in [write : BOOLEAN, hash : BOOLEAN]

PlaceTypes ==
  /\ status \in Statuses
  /\ mpc \in MainPCs /\ ret \in {"idle", "stopped", "perform", "dtor"}
  /\ at \in Nat \ {0}
  /\ app \in {"running", "shutdown"}
  /\ wpc \in {"take", "write", "dec", "mark", "exited"}
  /\ hpc \in {"take", "hash", "post", "dec", "exited"}

DataTypes ==
  /\ gaps \subseteq Blocks
  /\ disk \in [Blocks -> {"none", "good", "bad"}]
  /\ m_aChangedPart \subseteq Parts /\ m_corrupted_list \subseteq Parts
  /\ item \in [Ids -> [blk : Blocks, data : {"good", "bad"}, flushed : Flags]]
  /\ scanned \subseteq Parts /\ matches \subseteq scanned
  /\ received \in 0..MaxReceives /\ bad \in 0..MaxBad /\ errors \in 0..MaxErrors

ListTypes ==
  /\ m_BufferedData_list \in Seq(Ids)
  /\ m_iWrites \in Nat /\ m_pendingHashes \in Nat
  /\ m_flushList \in Seq(Ids) /\ wWork \in Seq(Ids)
  /\ m_jobList \in Seq(Parts) /\ hWork \in Seq(Parts)
  /\ tasks \in Seq({"hash", "complete"})
  /\ events \in Seq(Event)

\* TypeOK in four parts, which the proofs take one at a time.
LEMMA TypeParts == TypeOK <=> FlagTypes /\ PlaceTypes /\ DataTypes /\ ListTypes
  BY DEF TypeOK, FlagTypes, PlaceTypes, DataTypes, ListTypes

\* What QueueHashCheck does to the job list and its counter.
LEMMA EnqueueTypes ==
  ASSUME ListTypes, NEW ps \in SUBSET Parts, Enqueue(ps)
  PROVE  /\ m_jobList' \in Seq(Parts) /\ m_pendingHashes' \in Nat
         /\ \A n \in Nat : m_pendingHashes = Len(m_jobList) + n
                             => m_pendingHashes' = Len(m_jobList') + n
         /\ ToSet(m_jobList') = ToSet(m_jobList) \cup ps
  <1> DEFINE all == [p \in Parts |-> p]
             jobs == Filter(all, ps)
  <1>1. all \in Seq(Parts) /\ ToSet(all) = Parts
    BY PartFileConstants DEF Parts, ToSet
  <1>2. jobs \in Seq(Parts) /\ ToSet(jobs) = ps
    <2> HIDE DEF all
    <2>1. jobs \in Seq(Parts) /\ ToSet(jobs) = ToSet(all) \cap ps
      BY <1>1, FilterProperties
    <2> QED BY <1>1, <2>1
  <1>3. m_jobList' = m_jobList \o jobs /\ m_pendingHashes' = m_pendingHashes + Len(jobs)
    BY DEF Enqueue
  <1>4. m_jobList \in Seq(Parts) /\ m_pendingHashes \in Nat BY DEF ListTypes
  <1> HIDE DEF jobs
  <1>5. /\ m_jobList' \in Seq(Parts) /\ Len(m_jobList') = Len(m_jobList) + Len(jobs)
        /\ Len(jobs) \in Nat /\ Len(m_jobList) \in Nat
        /\ ToSet(m_jobList') = ToSet(m_jobList) \cup ToSet(jobs)
    BY <1>2, <1>3, <1>4, ConcatProperties, ToSetConcat, LenProperties
  <1> QED BY <1>2, <1>3, <1>4, <1>5
\* The scheduler's queue keeps its type.
LEMMA AddTaskType ==
  ASSUME ListTypes, NEW t \in {"hash", "complete"}, AddTask(t)
  PROVE  tasks' \in Seq({"hash", "complete"})
  BY DEF AddTask, ListTypes

\* The first-share path enqueues at most one part, a dirty one.
LEMMA ShareFacts ==
  ASSUME DataTypes, ListTypes, FlushShare
  PROVE  /\ m_jobList' \in Seq(Parts) /\ m_pendingHashes' \in Nat
         /\ \A n \in Nat : m_pendingHashes = Len(m_jobList) + n
                             => m_pendingHashes' = Len(m_jobList') + n
         /\ \E ps \in SUBSET m_aChangedPart :
              /\ m_aChangedPart' = m_aChangedPart \ ps
              /\ ToSet(m_jobList') = ToSet(m_jobList) \cup ps
              /\ \A p \in ps : IsComplete(p) /\ ~PendingWrite(p)
  <1>1. CASE FirstShareCandidates = {}
    <2>1. UNCHANGED <<m_aChangedPart, m_jobList, m_pendingHashes>>
      BY <1>1 DEF FlushShare
    <2>2. Len(m_jobList) \in Nat
      BY LenProperties DEF ListTypes
    <2>3. m_aChangedPart' = m_aChangedPart \ {} /\ ToSet(m_jobList') = ToSet(m_jobList) \cup {}
      BY <2>1
    <2>4. /\ m_jobList' \in Seq(Parts) /\ m_pendingHashes' \in Nat
          /\ \A n \in Nat : m_pendingHashes = Len(m_jobList) + n
                              => m_pendingHashes' = Len(m_jobList') + n
      BY <2>1, <2>2 DEF ListTypes
    <2>5. \E ps \in SUBSET m_aChangedPart :
            /\ m_aChangedPart' = m_aChangedPart \ ps
            /\ ToSet(m_jobList') = ToSet(m_jobList) \cup ps
            /\ \A p \in ps : IsComplete(p) /\ ~PendingWrite(p)
      <3> WITNESS {} \in SUBSET m_aChangedPart
      <3> QED BY <2>3
    <2> QED BY <2>4, <2>5
  <1>2. CASE FirstShareCandidates # {}
    <2> DEFINE p == CHOOSE q \in FirstShareCandidates :
                      \A r \in FirstShareCandidates : q <= r
    <2>1. FirstShareCandidates \subseteq m_aChangedPart /\ m_aChangedPart \subseteq Parts
      BY DEF FirstShareCandidates, DataTypes
    <2>2. FirstShareCandidates \in SUBSET Nat
      BY <2>1 DEF Parts
    <2>3. p \in FirstShareCandidates
      BY <1>2, <2>2, LeastNat
    <2>4. m_aChangedPart' = m_aChangedPart \ {p} /\ Enqueue({p})
      BY <1>2 DEF FlushShare
    <2> HIDE DEF p
    <2>5. IsComplete(p) /\ ~PendingWrite(p)
      BY <2>3 DEF FirstShareCandidates
    <2>6. {p} \in SUBSET Parts /\ {p} \in SUBSET m_aChangedPart
      BY <2>1, <2>3
    <2>7. /\ m_jobList' \in Seq(Parts) /\ m_pendingHashes' \in Nat
          /\ \A n \in Nat : m_pendingHashes = Len(m_jobList) + n
                              => m_pendingHashes' = Len(m_jobList') + n
          /\ ToSet(m_jobList') = ToSet(m_jobList) \cup {p}
      BY <2>4, <2>6, EnqueueTypes
    <2> QED BY <2>4, <2>5, <2>6, <2>7
  <1> QED BY <1>1, <1>2

\* What the item at the iterator is.
LEMMA HereFacts ==
  ASSUME DataTypes, ListTypes, at \in Nat \ {0}, at <= Len(m_BufferedData_list)
  PROVE  /\ Here \in Ids /\ Here \in ToSet(m_BufferedData_list)
         /\ item[Here] \in [blk : Blocks, data : {"good", "bad"}, flushed : Flags]
         /\ item[Here].blk \in Blocks /\ item[Here].data \in {"good", "bad"}
         /\ PartOf[item[Here].blk] \in Parts
  <1>1. at \in 1..Len(m_BufferedData_list) /\ m_BufferedData_list \in Seq(Ids)
    BY LenProperties DEF ListTypes
  <1>2. Here \in Ids /\ Here \in ToSet(m_BufferedData_list)
    BY <1>1, ElementOfSeq, ToSetBasics DEF Here
  <1> QED BY <1>2, PartFileConstants DEF DataTypes

\* Taking an item out of the list keeps the others, in their order.
LEMMA HarvestFacts ==
  ASSUME DataTypes, ListTypes, at \in Nat \ {0}, at <= Len(m_BufferedData_list),
         Harvest
  PROVE  /\ m_BufferedData_list' \in Seq(Ids)
         /\ m_aChangedPart' \subseteq Parts
         /\ m_aChangedPart' = m_aChangedPart \cup {PartOf[item[Here].blk]}
         /\ Len(m_BufferedData_list') = Len(m_BufferedData_list) - 1
         /\ \A k \in 1..(Len(m_BufferedData_list) - 1) :
              m_BufferedData_list'[k] =
                IF k < at THEN m_BufferedData_list[k] ELSE m_BufferedData_list[k + 1]
         /\ ToSet(m_BufferedData_list) = ToSet(m_BufferedData_list') \cup {Here}
         /\ IsInjective(m_BufferedData_list) =>
              IsInjective(m_BufferedData_list') /\ Here \notin ToSet(m_BufferedData_list')
  <1>1. at \in 1..Len(m_BufferedData_list) /\ m_BufferedData_list \in Seq(Ids)
    BY LenProperties DEF ListTypes
  <1>2. m_BufferedData_list' = RemoveAt(m_BufferedData_list, at)
    BY DEF Harvest
  <1>3. m_aChangedPart' = m_aChangedPart \cup {PartOf[item[Here].blk]}
    BY DEF Harvest
  <1>4. m_aChangedPart' \subseteq Parts
    BY <1>3, HereFacts DEF DataTypes
  <1>5. Here = m_BufferedData_list[at]
    BY DEF Here
  <1> DEFINE rest == RemoveAt(m_BufferedData_list, at)
  <1>6. /\ rest \in Seq(Ids) /\ Len(rest) = Len(m_BufferedData_list) - 1
        /\ \A k \in 1..(Len(m_BufferedData_list) - 1) :
             rest[k] = IF k < at THEN m_BufferedData_list[k]
                                 ELSE m_BufferedData_list[k + 1]
        /\ ToSet(m_BufferedData_list) = ToSet(rest) \cup {Here}
        /\ IsInjective(m_BufferedData_list) =>
             IsInjective(rest) /\ Here \notin ToSet(rest)
    BY <1>1, <1>5, ToSetRemoveAt
  <1> HIDE DEF rest
  <1>7. m_BufferedData_list' = rest
    BY <1>2 DEF rest
  <1> QED BY <1>3, <1>4, <1>6, <1>7

\* WriteToBuffer's insertion adds the item, once, and keeps the others.
LEMMA InsertFacts ==
  ASSUME DataTypes, ListTypes, NEW i \in Ids, NEW b \in Blocks
  PROVE  LET new == InsertBuffered(m_BufferedData_list, i, b)
         IN /\ new \in Seq(Ids)
            /\ ToSet(new) = ToSet(m_BufferedData_list) \cup {i}
            /\ IsInjective(m_BufferedData_list) /\ i \notin ToSet(m_BufferedData_list)
                 => IsInjective(new)
  <1> DEFINE list == m_BufferedData_list
             notBefore == {k \in 1..Len(list) : b <= item[list[k]].blk}
             first == CHOOSE k \in notBefore : \A l \in notBefore : k <= l
  <1>1. list \in Seq(Ids) /\ Len(list) \in Nat
    BY LenProperties DEF ListTypes
  <1>2. CASE notBefore = {} \/ 1 \in notBefore
    <2> DEFINE one == <<i>>
    <2>1. InsertBuffered(list, i, b) = one \o list
      BY <1>2 DEF InsertBuffered
    <2>2. one \in Seq(Ids) /\ ToSet(one) = {i} /\ IsInjective(one)
      BY DEF ToSet, IsInjective
    <2> HIDE DEF one, list
    <2>3. one \o list \in Seq(Ids)
      BY <1>1, <2>2, ConcatProperties
    <2>4. /\ ToSet(one \o list) = ToSet(one) \cup ToSet(list)
          /\ IsInjective(one) /\ IsInjective(list) /\ ToSet(one) \cap ToSet(list) = {}
               => IsInjective(one \o list)
      BY <1>1, <2>2, ToSetConcat
    <2>5. i \notin ToSet(list) => {i} \cap ToSet(list) = {}
      OBVIOUS
    <2> QED BY <2>1, <2>2, <2>3, <2>4, <2>5 DEF list
  <1>3. CASE ~(notBefore = {} \/ 1 \in notBefore)
    <2>1. InsertBuffered(list, i, b) = InsertAt(list, first - 1, i)
      BY <1>3 DEF InsertBuffered
    <2>2. notBefore \in SUBSET Nat /\ notBefore # {}
      BY <1>1, <1>3
    <2>3. \E k \in notBefore : \A l \in notBefore : k <= l
      <3> HIDE DEF notBefore
      <3> QED BY <2>2, LeastNat
    <2>4. first \in notBefore
      BY <2>3
    <2>5. first - 1 \in 1..(Len(list) + 1)
      BY <1>1, <1>3, <2>4
    <2> HIDE DEF first
    <2> QED BY <1>1, <2>1, <2>5, ToSetInsertAt
  <1> QED BY <1>2, <1>3

\* The items with a flag, in list order.
LEMMA WithFlagFacts ==
  ASSUME ListTypes, NEW f
  PROVE  /\ WithFlag(f) \in Seq(Ids)
         /\ ToSet(WithFlag(f)) = {i \in ToSet(m_BufferedData_list) : item[i].flushed = f}
         /\ IsInjective(m_BufferedData_list) => IsInjective(WithFlag(f))
  <1>1. m_BufferedData_list \in Seq(Ids) /\ ToSet(m_BufferedData_list) \subseteq Ids
    BY ToSetBasics DEF ListTypes
  <1>2. ToSet(WithFlag(f)) =
          ToSet(m_BufferedData_list) \cap {i \in Ids : item[i].flushed = f}
    BY <1>1, FilterProperties DEF WithFlag
  <1>3. WithFlag(f) \in Seq(Ids)
    BY <1>1, FilterProperties DEF WithFlag
  <1>4. IsInjective(m_BufferedData_list) => IsInjective(WithFlag(f))
    BY <1>1, FilterProperties DEF WithFlag
  <1> QED BY <1>1, <1>2, <1>3, <1>4

\* Phase 1 of FlushBuffer turns the PB_READY items of the list to PB_PENDING
\* and appends them to the write thread's queue.
LEMMA QueueFacts ==
  ASSUME DataTypes, ListTypes, FlushQueue, m_bRun.write
  PROVE  LET ready == WithFlag("PB_READY")
         IN /\ ready \in Seq(Ids) /\ Len(ready) \in Nat
            /\ \A i \in Ids : i \in ToSet(ready) <=>
                 i \in ToSet(m_BufferedData_list) /\ item[i].flushed = "PB_READY"
            /\ IsInjective(m_BufferedData_list) => IsInjective(ready)
            /\ m_iWrites' = m_iWrites + Len(ready)
            /\ m_flushList' = m_flushList \o ready
            /\ m_flushList' \in Seq(Ids)
            /\ Len(m_flushList') = Len(m_flushList) + Len(ready)
            /\ item' \in [Ids -> [blk : Blocks, data : {"good", "bad"}, flushed : Flags]]
            /\ \A i \in Ids : /\ item'[i].blk = item[i].blk
                              /\ item'[i].data = item[i].data
                              /\ item'[i].flushed =
                                   IF i \in ToSet(ready) THEN "PB_PENDING"
                                   ELSE item[i].flushed
  <1> DEFINE ready == WithFlag("PB_READY")
  <1>1. ready \in Seq(Ids) /\ Len(ready) \in Nat
    BY WithFlagFacts, LenProperties
  <1>2. /\ \A i \in Ids : i \in ToSet(ready) <=>
                 i \in ToSet(m_BufferedData_list) /\ item[i].flushed = "PB_READY"
        /\ IsInjective(m_BufferedData_list) => IsInjective(ready)
    BY WithFlagFacts
  <1>3. /\ m_iWrites' = m_iWrites + Len(ready)
        /\ m_flushList' = m_flushList \o ready
        /\ item' = [i \in Ids |-> IF i \in ToSet(ready)
                      THEN [item[i] EXCEPT !.flushed = "PB_PENDING"] ELSE item[i]]
    BY DEF FlushQueue
  <1> HIDE DEF ready
  <1>4. m_flushList' \in Seq(Ids) /\ Len(m_flushList') = Len(m_flushList) + Len(ready)
    BY <1>1, <1>3, ConcatProperties DEF ListTypes
  <1>5. \A i \in Ids : /\ item'[i].blk = item[i].blk
                       /\ item'[i].data = item[i].data
                       /\ item'[i].flushed =
                            IF i \in ToSet(ready) THEN "PB_PENDING" ELSE item[i].flushed
                       /\ item'[i] \in [blk : Blocks, data : {"good", "bad"}, flushed : Flags]
    BY <1>3 DEF DataTypes, Flags
  <1>6. item' \in [Ids -> [blk : Blocks, data : {"good", "bad"}, flushed : Flags]]
    BY <1>3, <1>5
  <1> QED BY <1>1, <1>2, <1>3, <1>4, <1>5, <1>6 DEF ready

\* The empty list.
LEMMA EmptyList == ToSet(<<>>) = {} /\ IsInjective(<<>>)
  BY DEF ToSet, IsInjective

Flushing == mpc \in {"flush", "harvest", "share", "gate", "sweep"}

\* Where the main thread can be while the program runs and while it shuts down.
MainInv ==
  /\ m_bRun.hash <=> IsRunning
  /\ IsRunning => m_bRun.write
  /\ mpc \in {"idle", "share", "gate", "sweep", "stopped", "perform", "deleting",
              "deleted"} => IsRunning
  /\ mpc \in {"endHash", "endWrite", "dtor", "closed"} => ~IsRunning
  /\ Flushing => (ret = "dtor" <=> ~IsRunning)
  /\ (~IsRunning /\ Flushing) \/ mpc \in {"dtor", "closed"} =>
       wpc = "exited" /\ ~m_bRun.write
  /\ ~IsRunning /\ mpc # "endHash" => hpc = "exited"

\* The write thread's batch, and the writes on their way.
WriterInv ==
  /\ wpc \in {"write", "dec", "mark"} <=> wWork # <<>>
  /\ wpc = "exited" \/ ~wKeep => ~m_bRun.write /\ m_flushList = <<>>
  /\ Gone => m_flushList = <<>>
  /\ LET onTheWay == Len(m_flushList) + Len(wWork) - (IF wpc = "mark" THEN 1 ELSE 0)
     IN m_iWrites >= onTheWay /\ (~Gone => m_iWrites = onTheWay)

HasherInv ==
  /\ hpc \in {"hash", "post", "dec"} <=> hWork # <<>>
  /\ hpc = "exited" \/ ~hKeep => ~m_bRun.hash /\ m_jobList = <<>>
  /\ m_pendingHashes = Len(m_jobList) + Len(hWork)
  /\ mpc = "deleted" => m_pendingHashes = 0

\* No item is twice in a list, and the write thread has exactly the items of
\* the buffer that are PB_PENDING.
BufferInv ==
  /\ IsInjective(m_BufferedData_list)
  /\ IsInjective(m_flushList) /\ IsInjective(wWork)
  /\ ToSet(m_flushList) \cap ToSet(wWork) = {}
  /\ \A i \in ToSet(m_BufferedData_list) \cup ToSet(m_flushList) \cup ToSet(wWork) :
       i <= received
  /\ ~Gone => \A i \in Ids :
       i \in ToSet(m_BufferedData_list) /\ item[i].flushed = "PB_PENDING"
         <=> i \in ToSet(m_flushList) \cup ToSet(wWork)

\* In its second phase FlushBuffer meets a PB_READY item only after the write
\* thread has ended.
HarvestInv ==
  mpc = "harvest" /\ m_bRun.write =>
    \A k \in DOMAIN m_BufferedData_list :
      k >= at => item[m_BufferedData_list[k]].flushed # "PB_READY"

ThreadsInv ==
  TypeOK /\ MainInv /\ WriterInv /\ HasherInv /\ BufferInv /\ HarvestInv

\* FlushBuffer writes an item itself only when the write thread has ended.
LEMMA FlushWriteAlone ==
  ASSUME ThreadsInv, FlushWrite
  PROVE  /\ ~m_bRun.write /\ ~IsRunning /\ wpc = "exited" /\ ret = "dtor"
         /\ wWork = <<>> /\ m_flushList = <<>>
  <1>0. PlaceTypes /\ ListTypes /\ MainInv /\ WriterInv /\ HarvestInv
    BY TypeParts DEF ThreadsInv
  <1>1. mpc = "harvest" /\ at \in DOMAIN m_BufferedData_list
    BY <1>0, LenProperties DEF FlushWrite, PlaceTypes, ListTypes
  <1>2. ~m_bRun.write
    BY <1>0, <1>1 DEF FlushWrite, Here, HarvestInv
  <1>3. ~IsRunning /\ wpc = "exited" /\ ret = "dtor"
    BY <1>0, <1>1, <1>2 DEF MainInv, Flushing
  <1> QED BY <1>0, <1>2, <1>3 DEF WriterInv

\* Every step keeps the Boolean variables Boolean ...
LEMMA FlagStep ==
  ASSUME FlagTypes, [Next]_vars
  PROVE  FlagTypes'
  <1> USE DEF FlagTypes, fileVars, stateVars, bufferVars, mainVars, writeVars,
    hashVars, taskVars, threadVars, boundVars, histVars
  <1>1. CASE SourceAccepts
    <2>1. sources' \in BOOLEAN
      BY <1>1, Zenon DEF SourceAccepts
    <2>2. UNCHANGED <<m_paused, m_insufficient, handle, wOk, wKeep, hOk, hKeep,
                      late, outdated, cleared, forced, m_bRun>>
      BY <1>1 DEF SourceAccepts
    <2> QED BY <2>1, <2>2
  <1>2. ASSUME NEW b \in Blocks, NEW d \in {"good", "bad"},
               WriteToBuffer(b, d)
        PROVE  FlagTypes'
    BY <1>2 DEF WriteToBuffer
  <1>3. CASE Process
    BY <1>3 DEF Process, CallFlush
  <1>4. CASE FlushNoSpace
    <2>1. m_paused' \in BOOLEAN /\ m_insufficient' \in BOOLEAN
          /\ sources' \in BOOLEAN /\ handle' \in BOOLEAN
      BY <1>4, Zenon DEF FlushNoSpace, PauseFile
    <2>2. UNCHANGED <<wOk, wKeep, hOk, hKeep, late, outdated, cleared, forced, m_bRun>>
      BY <1>4 DEF FlushNoSpace, PauseFile
    <2> QED BY <2>1, <2>2
  <1>5. CASE FlushQueue
    BY <1>5 DEF FlushQueue, Goto
  <1>6. CASE FlushHarvest
    BY <1>6 DEF FlushHarvest, Harvest
  <1>7. CASE FlushWrite
    BY <1>7 DEF FlushWrite, Harvest, Return, Fail
  <1>8. CASE FlushLength
    BY <1>8 DEF FlushLength, Goto, Return, Fail
  <1>9. CASE FlushShare
    BY <1>9 DEF FlushShare, Goto
  <1>10. CASE FlushHash
    <2>1. cleared' \in BOOLEAN
      BY <1>10, Zenon DEF FlushHash
    <2>2. UNCHANGED <<m_paused, m_insufficient, sources, handle, wOk, wKeep, hOk,
                      hKeep, late, outdated, forced, m_bRun>>
      BY <1>10 DEF FlushHash
    <2> QED BY <2>1, <2>2
  <1>11. CASE FlushSweep
    BY <1>11 DEF FlushSweep, Harvest
  <1>12. CASE FlushTail
    BY <1>12 DEF FlushTail, Return, AddTask
  <1>13. CASE OnAsyncHashComplete
    <2>1. late' \in BOOLEAN /\ outdated' \in BOOLEAN
      BY <1>13, Zenon DEF OnAsyncHashComplete
    <2>2. UNCHANGED <<m_paused, m_insufficient, sources, handle, wOk, wKeep, hOk,
                      hKeep, cleared, forced, m_bRun>>
      BY <1>13 DEF OnAsyncHashComplete
    <2> QED BY <2>1, <2>2
  <1>14. CASE PartFileHashFinished
    <2>1. sources' \in BOOLEAN /\ outdated' \in BOOLEAN
      BY <1>14, Zenon DEF PartFileHashFinished
    <2>2. UNCHANGED <<m_paused, m_insufficient, handle, wOk, wKeep, hOk, hKeep,
                      late, cleared, forced, m_bRun>>
      BY <1>14 DEF PartFileHashFinished
    <2> QED BY <2>1, <2>2
  <1>15. CASE CompleteFileEnded
    <2>1. m_paused' \in BOOLEAN
      BY <1>15, Zenon DEF CompleteFileEnded
    <2>2. UNCHANGED <<m_insufficient, sources, handle, wOk, wKeep, hOk, hKeep, late,
                      outdated, cleared, forced, m_bRun>>
      BY <1>15 DEF CompleteFileEnded
    <2> QED BY <2>1, <2>2
  <1>16. CASE CompleteStopped
    BY <1>16 DEF CompleteStopped, CallFlush
  <1>17. CASE PerformFileComplete
    <2>1. handle' \in BOOLEAN
      BY <1>17, Zenon DEF PerformFileComplete
    <2>2. UNCHANGED <<m_paused, m_insufficient, sources, wOk, wKeep, hOk, hKeep,
                      late, outdated, cleared, forced, m_bRun>>
      BY <1>17 DEF PerformFileComplete
    <2> QED BY <2>1, <2>2
  <1>18. CASE UserPause
    <2>1. m_paused' \in BOOLEAN /\ m_insufficient' \in BOOLEAN
          /\ sources' \in BOOLEAN /\ handle' \in BOOLEAN
      BY <1>18, Zenon DEF UserPause, PauseFile
    <2>2. UNCHANGED <<wOk, wKeep, hOk, hKeep, late, outdated, cleared, forced, m_bRun>>
      BY <1>18 DEF UserPause, PauseFile
    <2> QED BY <2>1, <2>2
  <1>19. CASE UserStop
    <2>1. m_paused' \in BOOLEAN /\ m_insufficient' \in BOOLEAN
          /\ sources' \in BOOLEAN /\ handle' \in BOOLEAN
      BY <1>19, Zenon DEF UserStop, StopFile, PauseFile
    <2>2. UNCHANGED <<wOk, wKeep, hOk, hKeep, late, outdated, cleared, forced, m_bRun>>
      BY <1>19 DEF UserStop, StopFile, PauseFile
    <2> QED BY <2>1, <2>2
  <1>20. CASE UserResume
    <2>1. m_paused' \in BOOLEAN /\ m_insufficient' \in BOOLEAN
          /\ sources' \in BOOLEAN /\ forced' \in BOOLEAN
      BY <1>20, Zenon DEF UserResume
    <2>2. UNCHANGED <<handle, wOk, wKeep, hOk, hKeep, late, outdated, cleared, m_bRun>>
      BY <1>20 DEF UserResume
    <2> QED BY <2>1, <2>2
  <1>21. CASE UserDelete
    <2>1. m_paused' \in BOOLEAN /\ m_insufficient' \in BOOLEAN
          /\ sources' \in BOOLEAN /\ handle' \in BOOLEAN
      BY <1>21, Zenon DEF UserDelete, StopFile, PauseFile
    <2>2. UNCHANGED <<wOk, wKeep, hOk, hKeep, late, outdated, cleared, forced, m_bRun>>
      BY <1>21 DEF UserDelete, StopFile, PauseFile
    <2> QED BY <2>1, <2>2
  <1>22. CASE DeleteFree
    <2>1. handle' \in BOOLEAN
      BY <1>22, Zenon DEF DeleteFree
    <2>2. UNCHANGED <<m_paused, m_insufficient, sources, wOk, wKeep, hOk, hKeep,
                      late, outdated, cleared, forced, m_bRun>>
      BY <1>22 DEF DeleteFree
    <2> QED BY <2>1, <2>2
  <1>23. CASE WriteTake
    <2>1. wKeep' \in BOOLEAN
      BY <1>23, Zenon DEF WriteTake, WriteUnchanged
    <2>2. UNCHANGED <<m_paused, m_insufficient, sources, handle, wOk, hOk, hKeep,
                      late, outdated, cleared, forced, m_bRun>>
      BY <1>23 DEF WriteTake, WriteUnchanged
    <2> QED BY <2>1, <2>2
  <1>24. CASE WriteFlushAt
    <2>1. wOk' \in BOOLEAN
      BY <1>24, Zenon DEF WriteFlushAt, WriteUnchanged
    <2>2. UNCHANGED <<m_paused, m_insufficient, sources, handle, wKeep, hOk, hKeep,
                      late, outdated, cleared, forced, m_bRun>>
      BY <1>24 DEF WriteFlushAt, WriteUnchanged
    <2> QED BY <2>1, <2>2
  <1>25. CASE WriteDecrement
    BY <1>25 DEF WriteDecrement, WriteUnchanged
  <1>26. CASE WriteMark
    BY <1>26 DEF WriteMark, WriteUnchanged
  <1>27. CASE HashTake
    <2>1. hKeep' \in BOOLEAN
      BY <1>27, Zenon DEF HashTake, HashUnchanged
    <2>2. UNCHANGED <<m_paused, m_insufficient, sources, handle, wOk, wKeep, hOk,
                      late, outdated, cleared, forced, m_bRun>>
      BY <1>27 DEF HashTake, HashUnchanged
    <2> QED BY <2>1, <2>2
  <1>28. CASE HashSinglePart
    <2>1. hOk' \in BOOLEAN
      BY <1>28, Zenon DEF HashSinglePart, HashUnchanged, HashOK
    <2>2. UNCHANGED <<m_paused, m_insufficient, sources, handle, wOk, wKeep, hKeep,
                      late, outdated, cleared, forced, m_bRun>>
      BY <1>28 DEF HashSinglePart, HashUnchanged, HashOK
    <2> QED BY <2>1, <2>2
  <1>29. CASE HashPost
    BY <1>29 DEF HashPost, HashUnchanged
  <1>30. CASE HashDecrement
    BY <1>30 DEF HashDecrement, HashUnchanged
  <1>31. CASE HashingTaskPart
    BY <1>31 DEF HashingTaskPart, TaskUnchanged
  <1>32. CASE HashingTaskFails
    BY <1>32 DEF HashingTaskFails, TaskUnchanged, Fail
  <1>33. CASE HashingTaskEnds
    BY <1>33 DEF HashingTaskEnds, TaskUnchanged
  <1>34. CASE CompletionTask
    BY <1>34 DEF CompletionTask, TaskUnchanged, Fail
  <1>35. CASE ShutDown
    <2>1. m_bRun' \in [write : BOOLEAN, hash : BOOLEAN]
      BY <1>35 DEF ShutDown
    <2>2. UNCHANGED <<m_paused, m_insufficient, handle, wOk, wKeep, hOk, hKeep,
                      late, outdated, cleared, forced>>
      BY <1>35 DEF ShutDown
    <2>3. sources' \in BOOLEAN
      BY <1>35, Zenon DEF ShutDown
    <2> QED BY <2>1, <2>2, <2>3
  <1>36. CASE EndHashThread
    <2>1. m_bRun' \in [write : BOOLEAN, hash : BOOLEAN]
      BY <1>36 DEF EndHashThread
    <2>2. UNCHANGED <<m_paused, m_insufficient, sources, handle, wOk, wKeep, hOk, hKeep,
                      late, outdated, cleared, forced>>
      BY <1>36 DEF EndHashThread
    <2> QED BY <2>1, <2>2
  <1>37. CASE EndWriteThread
    BY <1>37 DEF EndWriteThread, WriteThreadEnded, CallFlush, Goto
  <1>38. CASE SyncHashAndSave
    <2>1. handle' \in BOOLEAN
      BY <1>38, Zenon DEF SyncHashAndSave
    <2>2. UNCHANGED <<m_paused, m_insufficient, sources, wOk, wKeep, hOk, hKeep,
                      late, outdated, cleared, forced, m_bRun>>
      BY <1>38 DEF SyncHashAndSave
    <2> QED BY <2>1, <2>2
  <1>39. CASE UNCHANGED vars
    BY <1>39 DEF vars
  <1> HIDE DEF FlagTypes, fileVars, stateVars, bufferVars, mainVars,
    writeVars, hashVars, taskVars, threadVars, boundVars, histVars
  <1> QED BY <1>1, <1>2, <1>3, <1>4, <1>5, <1>6, <1>7, <1>8, <1>9, <1>10,
         <1>11, <1>12, <1>13, <1>14, <1>15, <1>16, <1>17, <1>18, <1>19, <1>20,
         <1>21, <1>22, <1>23, <1>24, <1>25, <1>26, <1>27, <1>28, <1>29, <1>30,
         <1>31, <1>32, <1>33, <1>34, <1>35, <1>36, <1>37, <1>38, <1>39
    DEF Next, FlushBuffer, Events, Completing, User, WriteThread, HashThread,
        Worker, Shutdown

\* ... the program counters and the status in their ranges ...
LEMMA PlaceStep ==
  ASSUME PlaceTypes, [Next]_vars
  PROVE  PlaceTypes'
  <1> USE PartFileConstants DEF PlaceTypes, MainPCs, Statuses, fileVars,
    stateVars, bufferVars, mainVars, writeVars, hashVars, taskVars,
    threadVars, boundVars, histVars
  <1>1. CASE SourceAccepts
    BY <1>1 DEF SourceAccepts, GetStatus
  <1>2. ASSUME NEW b \in Blocks, NEW d \in {"good", "bad"},
               WriteToBuffer(b, d)
        PROVE  PlaceTypes'
    BY <1>2 DEF WriteToBuffer
  <1>3. CASE Process
    BY <1>3 DEF Process, CallFlush
  <1>4. CASE FlushNoSpace
    BY <1>4 DEF FlushNoSpace, Return, PauseFile, Fail
  <1>5. CASE FlushQueue
    BY <1>5 DEF FlushQueue, Goto
  <1>6. CASE FlushHarvest
    BY <1>6 DEF FlushHarvest, Harvest
  <1>7. CASE FlushWrite
    BY <1>7 DEF FlushWrite, Harvest, Return, Fail
  <1>8. CASE FlushLength
    BY <1>8 DEF FlushLength, Goto, Return, Fail
  <1>9. CASE FlushShare
    BY <1>9 DEF FlushShare, Goto
  <1>10. CASE FlushHash
    BY <1>10 DEF FlushHash, Goto, Return
  <1>11. CASE FlushSweep
    BY <1>11 DEF FlushSweep, Harvest
  <1>12. CASE FlushTail
    BY <1>12 DEF FlushTail, Return, AddTask
  <1>13. CASE OnAsyncHashComplete
    BY <1>13 DEF OnAsyncHashComplete, IsEvent, AddTask
  <1>14. CASE PartFileHashFinished
    BY <1>14 DEF PartFileHashFinished, IsEvent, CallFlush
  <1>15. CASE CompleteFileEnded
    BY <1>15 DEF CompleteFileEnded, IsEvent
  <1>16. CASE CompleteStopped
    BY <1>16 DEF CompleteStopped, CallFlush
  <1>17. CASE PerformFileComplete
    BY <1>17 DEF PerformFileComplete, AddTask, Goto
  <1>18. CASE UserPause
    BY <1>18 DEF UserPause, UserMay, PauseFile
  <1>19. CASE UserStop
    BY <1>19 DEF UserStop, UserMay, StopFile, PauseFile, CallFlush
  <1>20. CASE UserResume
    BY <1>20 DEF UserResume, UserMay, CallFlush
  <1>21. CASE UserDelete
    BY <1>21 DEF UserDelete, UserMay, StopFile, PauseFile, Goto
  <1>22. CASE DeleteFree
    BY <1>22 DEF DeleteFree, Goto
  <1>23. CASE WriteTake
    BY <1>23 DEF WriteTake, WriteUnchanged
  <1>24. CASE WriteFlushAt
    BY <1>24 DEF WriteFlushAt, WriteUnchanged, Fail
  <1>25. CASE WriteDecrement
    BY <1>25 DEF WriteDecrement, WriteUnchanged
  <1>26. CASE WriteMark
    BY <1>26 DEF WriteMark, WriteUnchanged
  <1>27. CASE HashTake
    BY <1>27 DEF HashTake, HashUnchanged
  <1>28. CASE HashSinglePart
    BY <1>28 DEF HashSinglePart, HashUnchanged, Fail
  <1>29. CASE HashPost
    BY <1>29 DEF HashPost, HashUnchanged
  <1>30. CASE HashDecrement
    BY <1>30 DEF HashDecrement, HashUnchanged
  <1>31. CASE HashingTaskPart
    BY <1>31 DEF HashingTaskPart, TaskUnchanged
  <1>32. CASE HashingTaskFails
    BY <1>32 DEF HashingTaskFails, TaskUnchanged, Fail
  <1>33. CASE HashingTaskEnds
    BY <1>33 DEF HashingTaskEnds, TaskUnchanged
  <1>34. CASE CompletionTask
    BY <1>34 DEF CompletionTask, TaskUnchanged, Fail
  <1>35. CASE ShutDown
    BY <1>35 DEF ShutDown, Goto
  <1>36. CASE EndHashThread
    BY <1>36 DEF EndHashThread, Goto
  <1>37. CASE EndWriteThread
    BY <1>37 DEF EndWriteThread, WriteThreadEnded, CallFlush, Goto
  <1>38. CASE SyncHashAndSave
    BY <1>38 DEF SyncHashAndSave, Fail, Goto
  <1>39. CASE UNCHANGED vars
    BY <1>39 DEF vars
  <1> HIDE DEF PlaceTypes, MainPCs, Statuses, fileVars, stateVars, bufferVars,
    mainVars, writeVars, hashVars, taskVars, threadVars, boundVars, histVars
  <1> QED BY <1>1, <1>2, <1>3, <1>4, <1>5, <1>6, <1>7, <1>8, <1>9, <1>10,
         <1>11, <1>12, <1>13, <1>14, <1>15, <1>16, <1>17, <1>18, <1>19, <1>20,
         <1>21, <1>22, <1>23, <1>24, <1>25, <1>26, <1>27, <1>28, <1>29, <1>30,
         <1>31, <1>32, <1>33, <1>34, <1>35, <1>36, <1>37, <1>38, <1>39
    DEF Next, FlushBuffer, Events, Completing, User, WriteThread, HashThread,
        Worker, Shutdown

\* ... the file, the items and the bounds ...
LEMMA DataStep ==
  ASSUME ThreadsInv, [Next]_vars
  PROVE  DataTypes'
  <1> USE PartFileConstants DEF DataTypes, fileVars, stateVars, bufferVars,
    mainVars, writeVars, hashVars, taskVars, threadVars, boundVars, histVars
  <1>0. FlagTypes /\ PlaceTypes /\ DataTypes /\ ListTypes
    BY TypeParts DEF ThreadsInv
  <1> USE <1>0
  <1>1. CASE SourceAccepts
    BY <1>1 DEF SourceAccepts, GetStatus
  <1>2. ASSUME NEW b \in Blocks, NEW d \in {"good", "bad"},
               WriteToBuffer(b, d)
        PROVE  DataTypes'
    <2> DEFINE i == received + 1
    <2>1. i \in Ids /\ received' \in 0..MaxReceives /\ bad' \in 0..MaxBad
      BY <1>2, PartFileConstants DEF WriteToBuffer, Ids
    <2>2. item' = [item EXCEPT ![i] = [blk |-> b, data |-> d, flushed |-> "PB_READY"]]
      BY <1>2 DEF WriteToBuffer
    <2>3. item' \in [Ids -> [blk : Blocks, data : {"good", "bad"}, flushed : Flags]]
      BY <2>1, <2>2 DEF Flags
    <2>4. gaps' \subseteq Blocks
      BY <1>2 DEF WriteToBuffer
    <2> QED BY <1>2, <2>1, <2>3, <2>4 DEF WriteToBuffer
  <1>3. CASE Process
    BY <1>3 DEF Process, CallFlush
  <1>4. CASE FlushNoSpace
    BY <1>4 DEF FlushNoSpace, Return, PauseFile, Fail
  <1>5. CASE FlushQueue
    <2>1. CASE m_bRun.write
      <3>1. item' \in [Ids -> [blk : Blocks, data : {"good", "bad"}, flushed : Flags]]
        BY <1>5, <2>1, QueueFacts
      <3> QED BY <1>5, <3>1 DEF FlushQueue, Goto
    <2>2. CASE ~m_bRun.write
      BY <1>5, <2>2 DEF FlushQueue, Goto
    <2> QED BY <2>1, <2>2
  <1>6. CASE FlushHarvest
    <2>1. /\ Here \in Ids
          /\ item[Here] \in [blk : Blocks, data : {"good", "bad"}, flushed : Flags]
      BY <1>6, HereFacts DEF FlushHarvest, PlaceTypes
    <2>2. Harvest => m_aChangedPart' \subseteq Parts
      BY <1>6, HarvestFacts DEF FlushHarvest, PlaceTypes
    <2>3. item' \in [Ids -> [blk : Blocks, data : {"good", "bad"}, flushed : Flags]]
      BY <1>6, <2>1 DEF FlushHarvest, Flags
    <2> QED BY <1>6, <2>2, <2>3 DEF FlushHarvest
  <1>7. CASE FlushWrite
    <2>1. /\ item[Here].blk \in Blocks /\ item[Here].data \in {"good", "bad"}
          /\ PartOf[item[Here].blk] \in Parts
      BY <1>7, HereFacts DEF FlushWrite, PlaceTypes
    <2>2. m_aChangedPart' \subseteq Parts
      BY <1>7, <2>1 DEF FlushWrite, Harvest
    <2>3. disk' \in [Blocks -> {"none", "good", "bad"}]
      BY <1>7, <2>1 DEF FlushWrite
    <2>4. errors' \in 0..MaxErrors
      BY <1>7 DEF FlushWrite, Fail
    <2> QED BY <1>7, <2>2, <2>3, <2>4 DEF FlushWrite
  <1>8. CASE FlushLength
    BY <1>8 DEF FlushLength, Goto, Return, Fail
  <1>9. CASE FlushShare
    BY <1>9 DEF FlushShare, Goto
  <1>10. CASE FlushHash
    BY <1>10 DEF FlushHash, Goto, Return
  <1>11. CASE FlushSweep
    <2>1. Harvest => m_aChangedPart' \subseteq Parts
      BY <1>11, HarvestFacts DEF FlushSweep, PlaceTypes
    <2> QED BY <1>11, <2>1 DEF FlushSweep
  <1>12. CASE FlushTail
    BY <1>12 DEF FlushTail, Return, AddTask
  <1>13. CASE OnAsyncHashComplete
    <2>1. Head(events) \in Event /\ Head(events).kind = "part"
      BY <1>13 DEF OnAsyncHashComplete, IsEvent, ListTypes
    <2>2. Head(events).part \in Parts
      BY <2>1 DEF Event
    <2>3. BlocksOf(Head(events).part) \subseteq Blocks
      BY DEF BlocksOf
    <2>4. gaps' \subseteq Blocks
      BY <1>13, <2>3 DEF OnAsyncHashComplete
    <2>5. m_corrupted_list' \subseteq Parts
      BY <1>13, <2>2 DEF OnAsyncHashComplete
    <2> QED BY <1>13, <2>4, <2>5 DEF OnAsyncHashComplete
  <1>14. CASE PartFileHashFinished
    <2>1. \A p : BlocksOf(p) \subseteq Blocks
      BY DEF BlocksOf
    <2>2. Mismatched(Head(events).matches) \subseteq Parts
      BY DEF Mismatched
    <2>3. gaps' \subseteq Blocks /\ m_corrupted_list' \subseteq Parts
      BY <1>14, <2>1, <2>2 DEF PartFileHashFinished
    <2> QED BY <1>14, <2>3 DEF PartFileHashFinished
  <1>15. CASE CompleteFileEnded
    BY <1>15 DEF CompleteFileEnded, IsEvent
  <1>16. CASE CompleteStopped
    BY <1>16 DEF CompleteStopped, CallFlush
  <1>17. CASE PerformFileComplete
    BY <1>17 DEF PerformFileComplete, AddTask, Goto
  <1>18. CASE UserPause
    BY <1>18 DEF UserPause, UserMay, PauseFile
  <1>19. CASE UserStop
    BY <1>19 DEF UserStop, UserMay, StopFile, PauseFile, CallFlush
  <1>20. CASE UserResume
    BY <1>20 DEF UserResume, UserMay, CallFlush
  <1>21. CASE UserDelete
    BY <1>21 DEF UserDelete, UserMay, StopFile, PauseFile, Goto
  <1>22. CASE DeleteFree
    BY <1>22 DEF DeleteFree, Goto
  <1>23. CASE WriteTake
    BY <1>23 DEF WriteTake, WriteUnchanged
  <1>24. CASE WriteFlushAt
    <2>1. Head(wWork) \in Ids
      BY <1>24 DEF WriteFlushAt, ThreadsInv, WriterInv, ListTypes
    <2>2. /\ item[Head(wWork)].blk \in Blocks
          /\ item[Head(wWork)].data \in {"good", "bad"}
      BY <2>1
    <2>3. disk' \in [Blocks -> {"none", "good", "bad"}] /\ errors' \in 0..MaxErrors
      BY <1>24, <2>2 DEF WriteFlushAt, Fail
    <2> QED BY <1>24, <2>3 DEF WriteFlushAt, WriteUnchanged
  <1>25. CASE WriteDecrement
    BY <1>25 DEF WriteDecrement, WriteUnchanged
  <1>26. CASE WriteMark
    <2> DEFINE flag == IF wOk THEN "PB_WRITTEN" ELSE "PB_ERROR"
    <2>1. wpc = "mark"
      BY <1>26 DEF WriteMark
    <2>2. Head(wWork) \in Ids
      BY <2>1 DEF ThreadsInv, WriterInv, ListTypes
    <2>3. item' = [item EXCEPT ![Head(wWork)].flushed = flag]
      BY <1>26 DEF WriteMark
    <2>4. flag \in Flags
      BY DEF Flags
    <2> HIDE DEF flag
    <2>5. item' \in [Ids -> [blk : Blocks, data : {"good", "bad"}, flushed : Flags]]
      BY <2>2, <2>3, <2>4
    <2> QED BY <1>26, <2>5 DEF WriteMark, WriteUnchanged
  <1>27. CASE HashTake
    BY <1>27 DEF HashTake, HashUnchanged
  <1>28. CASE HashSinglePart
    BY <1>28 DEF HashSinglePart, HashUnchanged, Fail
  <1>29. CASE HashPost
    BY <1>29 DEF HashPost, HashUnchanged
  <1>30. CASE HashDecrement
    BY <1>30 DEF HashDecrement, HashUnchanged
  <1>31. CASE HashingTaskPart
    <2> DEFINE p == CHOOSE q \in Parts \ scanned : \A r \in Parts \ scanned : q <= r
    <2>1. Parts \ scanned \in SUBSET Nat /\ Parts \ scanned # {}
      <3>1. Parts \subseteq Nat
        BY DEF Parts
      <3>2. scanned # Parts
        BY <1>31 DEF HashingTaskPart
      <3> QED BY <3>1, <3>2
    <2>2. p \in Parts \ scanned
      BY <2>1, LeastNat
    <2>3. scanned' = scanned \cup {p} /\ matches' \subseteq matches \cup {p}
      BY <1>31 DEF HashingTaskPart
    <2> HIDE DEF p
    <2> QED BY <1>31, <2>2, <2>3 DEF HashingTaskPart, TaskUnchanged
  <1>32. CASE HashingTaskFails
    BY <1>32 DEF HashingTaskFails, TaskUnchanged, Fail
  <1>33. CASE HashingTaskEnds
    BY <1>33 DEF HashingTaskEnds, TaskUnchanged
  <1>34. CASE CompletionTask
    BY <1>34 DEF CompletionTask, TaskUnchanged, Fail
  <1>35. CASE ShutDown
    BY <1>35 DEF ShutDown, Goto
  <1>36. CASE EndHashThread
    BY <1>36 DEF EndHashThread, Goto
  <1>37. CASE EndWriteThread
    BY <1>37 DEF EndWriteThread, WriteThreadEnded, CallFlush, Goto
  <1>38. CASE SyncHashAndSave
    <2>1. \A p : BlocksOf(p) \subseteq Blocks
      BY DEF BlocksOf
    <2>2. SyncHashed \subseteq Parts
      BY DEF SyncHashed
    <2>3. gaps' \subseteq Blocks /\ m_corrupted_list' \subseteq Parts
      BY <1>38, <2>1, <2>2 DEF SyncHashAndSave
    <2>4. errors' \in 0..MaxErrors /\ m_aChangedPart' \subseteq Parts
      BY <1>38 DEF SyncHashAndSave, Fail
    <2> QED BY <1>38, <2>3, <2>4 DEF SyncHashAndSave
  <1>39. CASE UNCHANGED vars
    BY <1>39 DEF vars
  <1> HIDE DEF DataTypes, fileVars, stateVars, bufferVars, mainVars,
    writeVars, hashVars, taskVars, threadVars, boundVars, histVars
  <1> QED BY <1>1, <1>2, <1>3, <1>4, <1>5, <1>6, <1>7, <1>8, <1>9, <1>10,
         <1>11, <1>12, <1>13, <1>14, <1>15, <1>16, <1>17, <1>18, <1>19, <1>20,
         <1>21, <1>22, <1>23, <1>24, <1>25, <1>26, <1>27, <1>28, <1>29, <1>30,
         <1>31, <1>32, <1>33, <1>34, <1>35, <1>36, <1>37, <1>38, <1>39
    DEF Next, FlushBuffer, Events, Completing, User, WriteThread, HashThread,
        Worker, Shutdown

\* ... and the lists and counters.
LEMMA ListStep ==
  ASSUME ThreadsInv, [Next]_vars
  PROVE  ListTypes'
  <1> USE PartFileConstants DEF ListTypes, fileVars, stateVars, bufferVars,
    mainVars, writeVars, hashVars, taskVars, threadVars, boundVars, histVars
  <1>0. FlagTypes /\ PlaceTypes /\ DataTypes /\ ListTypes
    BY TypeParts DEF ThreadsInv
  <1> USE <1>0
  <1>1. CASE SourceAccepts
    BY <1>1 DEF SourceAccepts, GetStatus
  <1>2. ASSUME NEW b \in Blocks, NEW d \in {"good", "bad"},
               WriteToBuffer(b, d)
        PROVE  ListTypes'
    <2>1. received + 1 \in Ids
      BY <1>2 DEF WriteToBuffer, DataTypes, Ids
    <2>2. m_BufferedData_list' \in Seq(Ids)
      BY <1>2, <2>1, InsertFacts DEF WriteToBuffer
    <2> QED BY <1>2, <2>2 DEF WriteToBuffer
  <1>3. CASE Process
    BY <1>3 DEF Process, CallFlush
  <1>4. CASE FlushNoSpace
    BY <1>4 DEF FlushNoSpace, Return, PauseFile, Fail
  <1>5. CASE FlushQueue
    <2>1. CASE m_bRun.write
      <3>1. m_flushList' \in Seq(Ids) /\ m_iWrites' \in Nat
        BY <1>5, <2>1, QueueFacts
      <3> QED BY <1>5, <3>1 DEF FlushQueue, Goto
    <2>2. CASE ~m_bRun.write
      BY <1>5, <2>2 DEF FlushQueue, Goto
    <2> QED BY <2>1, <2>2
  <1>6. CASE FlushHarvest
    <2>1. Harvest => m_BufferedData_list' \in Seq(Ids)
      BY <1>6, HarvestFacts DEF FlushHarvest, PlaceTypes
    <2>2. m_BufferedData_list' \in Seq(Ids)
      BY <1>6, <2>1 DEF FlushHarvest
    <2> QED BY <1>6, <2>2 DEF FlushHarvest
  <1>7. CASE FlushWrite
    <2>1. Harvest => m_BufferedData_list' \in Seq(Ids)
      BY <1>7, HarvestFacts DEF FlushWrite, PlaceTypes
    <2>2. m_BufferedData_list' \in Seq(Ids)
      BY <1>7, <2>1, EmptySeq DEF FlushWrite
    <2>3. m_iWrites' \in Nat
      BY <1>7 DEF FlushWrite
    <2> QED BY <1>7, <2>2, <2>3 DEF FlushWrite
  <1>8. CASE FlushLength
    BY <1>8 DEF FlushLength, Goto, Return, Fail
  <1>9. CASE FlushShare
    <2>1. m_jobList' \in Seq(Parts) /\ m_pendingHashes' \in Nat
      BY <1>9, ShareFacts DEF FlushShare
    <2> QED BY <1>9, <2>1 DEF FlushShare
  <1>10. CASE FlushHash
    <2>1. {p \in m_aChangedPart : IsComplete(p)} \in SUBSET Parts
      BY DEF DataTypes
    <2>2. m_jobList' \in Seq(Parts) /\ m_pendingHashes' \in Nat
      BY <1>10, <2>1, EnqueueTypes DEF FlushHash
    <2> QED BY <1>10, <2>2 DEF FlushHash
  <1>11. CASE FlushSweep
    <2>1. Harvest => m_BufferedData_list' \in Seq(Ids)
      BY <1>11, HarvestFacts DEF FlushSweep, PlaceTypes
    <2> QED BY <1>11, <2>1 DEF FlushSweep
  <1>12. CASE FlushTail
    <2>1. tasks' \in Seq({"hash", "complete"})
      BY <1>12, AddTaskType DEF FlushTail
    <2> QED BY <1>12, <2>1 DEF FlushTail
  <1>13. CASE OnAsyncHashComplete
    <2>1. tasks' \in Seq({"hash", "complete"})
      BY <1>13, AddTaskType DEF OnAsyncHashComplete
    <2>2. events' \in Seq(Event)
      BY <1>13 DEF OnAsyncHashComplete, IsEvent
    <2> QED BY <1>13, <2>1, <2>2 DEF OnAsyncHashComplete
  <1>14. CASE PartFileHashFinished
    BY <1>14 DEF PartFileHashFinished, IsEvent, CallFlush
  <1>15. CASE CompleteFileEnded
    BY <1>15 DEF CompleteFileEnded, IsEvent
  <1>16. CASE CompleteStopped
    BY <1>16 DEF CompleteStopped, CallFlush
  <1>17. CASE PerformFileComplete
    BY <1>17 DEF PerformFileComplete, AddTask, Goto
  <1>18. CASE UserPause
    BY <1>18 DEF UserPause, UserMay, PauseFile
  <1>19. CASE UserStop
    BY <1>19 DEF UserStop, UserMay, StopFile, PauseFile, CallFlush
  <1>20. CASE UserResume
    BY <1>20 DEF UserResume, UserMay, CallFlush
  <1>21. CASE UserDelete
    BY <1>21 DEF UserDelete, UserMay, StopFile, PauseFile, Goto
  <1>22. CASE DeleteFree
    BY <1>22 DEF DeleteFree, Goto
  <1>23. CASE WriteTake
    BY <1>23 DEF WriteTake, WriteUnchanged
  <1>24. CASE WriteFlushAt
    BY <1>24 DEF WriteFlushAt, WriteUnchanged, Fail
  <1>25. CASE WriteDecrement
    <2>1. m_iWrites >= Len(m_flushList) + Len(wWork) /\ wWork # <<>>
      BY <1>25 DEF WriteDecrement, ThreadsInv, WriterInv
    <2>2. m_iWrites - 1 \in Nat
      BY <2>1, ToSetBasics
    <2> QED BY <1>25, <2>2 DEF WriteDecrement, WriteUnchanged
  <1>26. CASE WriteMark
    <2>1. wWork # <<>>
      BY <1>26 DEF WriteMark, ThreadsInv, WriterInv
    <2> QED BY <1>26, <2>1 DEF WriteMark, WriteUnchanged
  <1>27. CASE HashTake
    BY <1>27 DEF HashTake, HashUnchanged
  <1>28. CASE HashSinglePart
    BY <1>28 DEF HashSinglePart, HashUnchanged, Fail
  <1>29. CASE HashPost
    <2>1. hWork # <<>>
      BY <1>29 DEF HashPost, ThreadsInv, HasherInv
    <2>2. [kind |-> "part", part |-> Head(hWork), ok |-> hOk] \in Event
      BY <2>1 DEF Event, FlagTypes
    <2>3. events' \in Seq(Event)
      BY <1>29, <2>2 DEF HashPost
    <2> QED BY <1>29, <2>3 DEF HashPost, HashUnchanged
  <1>30. CASE HashDecrement
    <2>1. m_pendingHashes = Len(m_jobList) + Len(hWork) /\ hWork # <<>>
      BY <1>30 DEF HashDecrement, ThreadsInv, HasherInv
    <2>2. m_pendingHashes - 1 \in Nat
      BY <2>1, ToSetBasics
    <2> QED BY <1>30, <2>1, <2>2 DEF HashDecrement, HashUnchanged
  <1>31. CASE HashingTaskPart
    BY <1>31 DEF HashingTaskPart, TaskUnchanged
  <1>32. CASE HashingTaskFails
    <2>1. tasks' \in Seq({"hash", "complete"})
      BY <1>32 DEF HashingTaskFails, Running
    <2> QED BY <1>32, <2>1 DEF HashingTaskFails, TaskUnchanged
  <1>33. CASE HashingTaskEnds
    <2>1. tasks' \in Seq({"hash", "complete"})
      BY <1>33 DEF HashingTaskEnds, Running
    <2>2. [kind |-> "hashed", matches |-> matches] \in Event
      BY DEF Event, DataTypes
    <2>3. events' \in Seq(Event)
      BY <1>33, <2>2 DEF HashingTaskEnds
    <2> QED BY <1>33, <2>1, <2>3 DEF HashingTaskEnds, TaskUnchanged
  <1>34. CASE CompletionTask
    <2>1. tasks' \in Seq({"hash", "complete"})
      BY <1>34 DEF CompletionTask, Running
    <2>2. \A ok \in BOOLEAN : [kind |-> "completed", ok |-> ok] \in Event
      BY DEF Event
    <2>3. \A e \in Event : Append(events, e) \in Seq(Event)
      OBVIOUS
    <2>4. events' \in Seq(Event)
      BY <1>34, <2>2, <2>3 DEF CompletionTask
    <2> QED BY <1>34, <2>1, <2>4 DEF CompletionTask, TaskUnchanged
  <1>35. CASE ShutDown
    BY <1>35 DEF ShutDown, Goto
  <1>36. CASE EndHashThread
    BY <1>36 DEF EndHashThread, Goto
  <1>37. CASE EndWriteThread
    BY <1>37 DEF EndWriteThread, WriteThreadEnded, CallFlush, Goto
  <1>38. CASE SyncHashAndSave
    BY <1>38 DEF SyncHashAndSave, Fail, Goto
  <1>39. CASE UNCHANGED vars
    BY <1>39 DEF vars
  <1> HIDE DEF ListTypes, fileVars, stateVars, bufferVars, mainVars,
    writeVars, hashVars, taskVars, threadVars, boundVars, histVars
  <1> QED BY <1>1, <1>2, <1>3, <1>4, <1>5, <1>6, <1>7, <1>8, <1>9, <1>10,
         <1>11, <1>12, <1>13, <1>14, <1>15, <1>16, <1>17, <1>18, <1>19, <1>20,
         <1>21, <1>22, <1>23, <1>24, <1>25, <1>26, <1>27, <1>28, <1>29, <1>30,
         <1>31, <1>32, <1>33, <1>34, <1>35, <1>36, <1>37, <1>38, <1>39
    DEF Next, FlushBuffer, Events, Completing, User, WriteThread, HashThread,
        Worker, Shutdown

\* MainInv, step by step: shutdown ends one thread after the other.
LEMMA MainStep ==
  ASSUME ThreadsInv, [Next]_vars
  PROVE  MainInv'
  <1> USE PartFileConstants DEF MainInv, Flushing, IsRunning, PlaceTypes,
    FlagTypes, MainPCs, fileVars, stateVars, bufferVars, mainVars, writeVars,
    hashVars, taskVars, threadVars, boundVars, histVars
  <1>0. /\ FlagTypes /\ PlaceTypes /\ DataTypes /\ ListTypes
        /\ MainInv /\ WriterInv /\ HasherInv /\ BufferInv /\ HarvestInv
    BY TypeParts DEF ThreadsInv
  <1> USE <1>0
  <1>1. CASE SourceAccepts
    BY <1>1 DEF SourceAccepts, GetStatus
  <1>2. ASSUME NEW b \in Blocks, NEW d \in {"good", "bad"},
               WriteToBuffer(b, d)
        PROVE  MainInv'
    BY <1>2 DEF WriteToBuffer
  <1>3. CASE Process
    BY <1>3 DEF Process, CallFlush
  <1>4. CASE FlushNoSpace
    BY <1>4 DEF FlushNoSpace, Return, PauseFile, Fail
  <1>5. CASE FlushQueue
    BY <1>5 DEF FlushQueue, Goto
  <1>6. CASE FlushHarvest
    BY <1>6 DEF FlushHarvest, Harvest
  <1>7. CASE FlushWrite
    BY <1>7 DEF FlushWrite, Harvest, Return, Fail
  <1>8. CASE FlushLength
    BY <1>8 DEF FlushLength, Goto, Return, Fail
  <1>9. CASE FlushShare
    BY <1>9 DEF FlushShare, Goto
  <1>10. CASE FlushHash
    BY <1>10 DEF FlushHash, Goto, Return
  <1>11. CASE FlushSweep
    BY <1>11 DEF FlushSweep, Harvest
  <1>12. CASE FlushTail
    BY <1>12 DEF FlushTail, Return, AddTask
  <1>13. CASE OnAsyncHashComplete
    BY <1>13 DEF OnAsyncHashComplete, IsEvent, AddTask
  <1>14. CASE PartFileHashFinished
    BY <1>14 DEF PartFileHashFinished, IsEvent, CallFlush
  <1>15. CASE CompleteFileEnded
    BY <1>15 DEF CompleteFileEnded, IsEvent
  <1>16. CASE CompleteStopped
    BY <1>16 DEF CompleteStopped, CallFlush
  <1>17. CASE PerformFileComplete
    BY <1>17 DEF PerformFileComplete, AddTask, Goto
  <1>18. CASE UserPause
    BY <1>18 DEF UserPause, UserMay, PauseFile
  <1>19. CASE UserStop
    BY <1>19 DEF UserStop, UserMay, StopFile, PauseFile, CallFlush
  <1>20. CASE UserResume
    BY <1>20 DEF UserResume, UserMay, CallFlush
  <1>21. CASE UserDelete
    BY <1>21 DEF UserDelete, UserMay, StopFile, PauseFile, Goto
  <1>22. CASE DeleteFree
    BY <1>22 DEF DeleteFree, Goto
  <1>23. CASE WriteTake
    BY <1>23 DEF WriteTake, WriteUnchanged
  <1>24. CASE WriteFlushAt
    BY <1>24 DEF WriteFlushAt, WriteUnchanged, Fail
  <1>25. CASE WriteDecrement
    BY <1>25 DEF WriteDecrement, WriteUnchanged
  <1>26. CASE WriteMark
    BY <1>26 DEF WriteMark, WriteUnchanged
  <1>27. CASE HashTake
    BY <1>27 DEF HashTake, HashUnchanged
  <1>28. CASE HashSinglePart
    BY <1>28 DEF HashSinglePart, HashUnchanged, Fail
  <1>29. CASE HashPost
    BY <1>29 DEF HashPost, HashUnchanged
  <1>30. CASE HashDecrement
    BY <1>30 DEF HashDecrement, HashUnchanged
  <1>31. CASE HashingTaskPart
    BY <1>31 DEF HashingTaskPart, TaskUnchanged
  <1>32. CASE HashingTaskFails
    BY <1>32 DEF HashingTaskFails, TaskUnchanged, Fail
  <1>33. CASE HashingTaskEnds
    BY <1>33 DEF HashingTaskEnds, TaskUnchanged
  <1>34. CASE CompletionTask
    BY <1>34 DEF CompletionTask, TaskUnchanged, Fail
  <1>35. CASE ShutDown
    BY <1>35 DEF ShutDown, Goto
  <1>36. CASE EndHashThread
    BY <1>36 DEF EndHashThread, Goto
  <1>37. CASE EndWriteThread
    BY <1>37 DEF EndWriteThread, WriteThreadEnded, CallFlush, Goto, WriterInv
  <1>38. CASE SyncHashAndSave
    BY <1>38 DEF SyncHashAndSave, Fail, Goto
  <1>39. CASE UNCHANGED vars
    BY <1>39 DEF vars
  <1> HIDE DEF MainInv, Flushing, IsRunning, PlaceTypes, FlagTypes, MainPCs,
    fileVars, stateVars, bufferVars, mainVars, writeVars, hashVars, taskVars,
    threadVars, boundVars, histVars
  <1> QED BY <1>1, <1>2, <1>3, <1>4, <1>5, <1>6, <1>7, <1>8, <1>9, <1>10,
         <1>11, <1>12, <1>13, <1>14, <1>15, <1>16, <1>17, <1>18, <1>19, <1>20,
         <1>21, <1>22, <1>23, <1>24, <1>25, <1>26, <1>27, <1>28, <1>29, <1>30,
         <1>31, <1>32, <1>33, <1>34, <1>35, <1>36, <1>37, <1>38, <1>39
    DEF Next, FlushBuffer, Events, Completing, User, WriteThread, HashThread,
        Worker, Shutdown

\* HasherInv: m_pendingHashes is raised before a job is seen, lowered after.
LEMMA HasherStep ==
  ASSUME ThreadsInv, [Next]_vars
  PROVE  HasherInv'
  <1> USE PartFileConstants DEF HasherInv, PlaceTypes, ListTypes, FlagTypes,
    MainPCs, fileVars, stateVars, bufferVars, mainVars, writeVars, hashVars,
    taskVars, threadVars, boundVars, histVars
  <1>0. /\ FlagTypes /\ PlaceTypes /\ DataTypes /\ ListTypes
        /\ MainInv /\ WriterInv /\ HasherInv /\ BufferInv /\ HarvestInv
    BY TypeParts DEF ThreadsInv
  <1> USE <1>0
  <1>1. CASE SourceAccepts
    BY <1>1 DEF SourceAccepts, GetStatus
  <1>2. ASSUME NEW b \in Blocks, NEW d \in {"good", "bad"},
               WriteToBuffer(b, d)
        PROVE  HasherInv'
    BY <1>2 DEF WriteToBuffer
  <1>3. CASE Process
    BY <1>3 DEF Process, CallFlush
  <1>4. CASE FlushNoSpace
    BY <1>4 DEF FlushNoSpace, Return, PauseFile, Fail
  <1>5. CASE FlushQueue
    BY <1>5 DEF FlushQueue, Goto
  <1>6. CASE FlushHarvest
    BY <1>6 DEF FlushHarvest, Harvest
  <1>7. CASE FlushWrite
    BY <1>7 DEF FlushWrite, Harvest, Return, Fail
  <1>8. CASE FlushLength
    BY <1>8 DEF FlushLength, Goto, Return, Fail
  <1>9. CASE FlushShare
    <2>1. Len(hWork) \in Nat
      BY LenProperties
    <2>2. m_pendingHashes' = Len(m_jobList') + Len(hWork)
      BY <1>9, <2>1, ShareFacts
    <2>3. mpc = "share" /\ m_bRun.hash /\ hpc # "exited" /\ hKeep
      BY <1>9 DEF FlushShare, MainInv, IsRunning
    <2> QED BY <1>9, <2>2, <2>3 DEF FlushShare, Goto
  <1>10. CASE FlushHash
    <2>1. {p \in m_aChangedPart : IsComplete(p)} \in SUBSET Parts
      BY DEF DataTypes
    <2>2. Len(hWork) \in Nat
      BY LenProperties
    <2>3. \/ UNCHANGED <<m_jobList, m_pendingHashes>>
          \/ m_pendingHashes' = Len(m_jobList') + Len(hWork)
      BY <1>10, <2>1, <2>2, EnqueueTypes DEF FlushHash
    <2>4. mpc = "gate" /\ m_bRun.hash /\ hpc # "exited" /\ hKeep
      BY <1>10 DEF FlushHash, MainInv, IsRunning
    <2> QED BY <1>10, <2>3, <2>4 DEF FlushHash, Goto, Return
  <1>11. CASE FlushSweep
    BY <1>11 DEF FlushSweep, Harvest
  <1>12. CASE FlushTail
    BY <1>12 DEF FlushTail, Return, AddTask
  <1>13. CASE OnAsyncHashComplete
    BY <1>13 DEF OnAsyncHashComplete, IsEvent, AddTask
  <1>14. CASE PartFileHashFinished
    BY <1>14 DEF PartFileHashFinished, IsEvent, CallFlush
  <1>15. CASE CompleteFileEnded
    BY <1>15 DEF CompleteFileEnded, IsEvent
  <1>16. CASE CompleteStopped
    BY <1>16 DEF CompleteStopped, CallFlush
  <1>17. CASE PerformFileComplete
    BY <1>17 DEF PerformFileComplete, AddTask, Goto
  <1>18. CASE UserPause
    BY <1>18 DEF UserPause, UserMay, PauseFile
  <1>19. CASE UserStop
    BY <1>19 DEF UserStop, UserMay, StopFile, PauseFile, CallFlush
  <1>20. CASE UserResume
    BY <1>20 DEF UserResume, UserMay, CallFlush
  <1>21. CASE UserDelete
    BY <1>21 DEF UserDelete, UserMay, StopFile, PauseFile, Goto
  <1>22. CASE DeleteFree
    BY <1>22 DEF DeleteFree, Goto, HashJobsDone
  <1>23. CASE WriteTake
    BY <1>23 DEF WriteTake, WriteUnchanged
  <1>24. CASE WriteFlushAt
    BY <1>24 DEF WriteFlushAt, WriteUnchanged, Fail
  <1>25. CASE WriteDecrement
    BY <1>25 DEF WriteDecrement, WriteUnchanged
  <1>26. CASE WriteMark
    BY <1>26 DEF WriteMark, WriteUnchanged
  <1>27. CASE HashTake
    BY <1>27 DEF HashTake, HashUnchanged
  <1>28. CASE HashSinglePart
    BY <1>28 DEF HashSinglePart, HashUnchanged, Fail
  <1>29. CASE HashPost
    BY <1>29 DEF HashPost, HashUnchanged
  <1>30. CASE HashDecrement
    BY <1>30 DEF HashDecrement, HashUnchanged
  <1>31. CASE HashingTaskPart
    BY <1>31 DEF HashingTaskPart, TaskUnchanged
  <1>32. CASE HashingTaskFails
    BY <1>32 DEF HashingTaskFails, TaskUnchanged, Fail
  <1>33. CASE HashingTaskEnds
    BY <1>33 DEF HashingTaskEnds, TaskUnchanged
  <1>34. CASE CompletionTask
    BY <1>34 DEF CompletionTask, TaskUnchanged, Fail
  <1>35. CASE ShutDown
    BY <1>35 DEF ShutDown, Goto
  <1>36. CASE EndHashThread
    BY <1>36 DEF EndHashThread, Goto
  <1>37. CASE EndWriteThread
    BY <1>37 DEF EndWriteThread, WriteThreadEnded, CallFlush, Goto
  <1>38. CASE SyncHashAndSave
    BY <1>38 DEF SyncHashAndSave, Fail, Goto
  <1>39. CASE UNCHANGED vars
    BY <1>39 DEF vars
  <1> HIDE DEF HasherInv, PlaceTypes, ListTypes, FlagTypes, MainPCs, fileVars,
    stateVars, bufferVars, mainVars, writeVars, hashVars, taskVars,
    threadVars, boundVars, histVars
  <1> QED BY <1>1, <1>2, <1>3, <1>4, <1>5, <1>6, <1>7, <1>8, <1>9, <1>10,
         <1>11, <1>12, <1>13, <1>14, <1>15, <1>16, <1>17, <1>18, <1>19, <1>20,
         <1>21, <1>22, <1>23, <1>24, <1>25, <1>26, <1>27, <1>28, <1>29, <1>30,
         <1>31, <1>32, <1>33, <1>34, <1>35, <1>36, <1>37, <1>38, <1>39
    DEF Next, FlushBuffer, Events, Completing, User, WriteThread, HashThread,
        Worker, Shutdown

\* WriterInv: m_iWrites against the lists of the write thread.
LEMMA WriterStep ==
  ASSUME ThreadsInv, [Next]_vars
  PROVE  WriterInv'
  <1> USE PartFileConstants DEF WriterInv, Gone, PlaceTypes, ListTypes,
    FlagTypes, MainPCs, fileVars, stateVars, bufferVars, mainVars, writeVars,
    hashVars, taskVars, threadVars, boundVars, histVars
  <1>0. /\ FlagTypes /\ PlaceTypes /\ DataTypes /\ ListTypes
        /\ MainInv /\ WriterInv /\ HasherInv /\ BufferInv /\ HarvestInv
    BY TypeParts DEF ThreadsInv
  <1> USE <1>0
  <1>1. CASE SourceAccepts
    BY <1>1 DEF SourceAccepts, GetStatus
  <1>2. ASSUME NEW b \in Blocks, NEW d \in {"good", "bad"},
               WriteToBuffer(b, d)
        PROVE  WriterInv'
    BY <1>2 DEF WriteToBuffer
  <1>3. CASE Process
    BY <1>3 DEF Process, CallFlush
  <1>4. CASE FlushNoSpace
    BY <1>4 DEF FlushNoSpace, Return, PauseFile, Fail
  <1>5. CASE FlushQueue
    <2>1. CASE m_bRun.write
      <3> DEFINE ready == WithFlag("PB_READY")
      <3>1. /\ m_iWrites' = m_iWrites + Len(ready) /\ Len(ready) \in Nat
            /\ Len(m_flushList') = Len(m_flushList) + Len(ready)
        BY <1>5, <2>1, QueueFacts
      <3>2. mpc = "flush" /\ mpc' = "harvest" /\ UNCHANGED <<wWork, wpc, wKeep, m_bRun>>
        BY <1>5 DEF FlushQueue, Goto
      <3>3. Len(m_flushList) \in Nat /\ Len(wWork) \in Nat
        BY LenProperties
      <3> HIDE DEF ready
      <3>4. wpc # "exited" /\ wKeep /\ ~Gone /\ ~Gone'
        BY <2>1, <3>2
      <3> DEFINE left == IF wpc = "mark" THEN 1 ELSE 0
      <3>5. m_iWrites = Len(m_flushList) + Len(wWork) - left /\ left \in Int
        BY <3>4
      <3> HIDE DEF left
      <3>6. m_iWrites' = Len(m_flushList') + Len(wWork) - left
        BY <3>1, <3>3, <3>5
      <3> QED BY <3>2, <3>4, <3>6 DEF left
    <2>2. CASE ~m_bRun.write
      BY <1>5, <2>2 DEF FlushQueue, Goto
    <2> QED BY <2>1, <2>2
  <1>6. CASE FlushHarvest
    BY <1>6 DEF FlushHarvest, Harvest
  <1>7. CASE FlushWrite
    <2>1. mpc = "harvest" /\ ~m_bRun.write
      BY <1>7, FlushWriteAlone DEF FlushWrite
    <2>2. wpc = "exited" /\ wWork = <<>> /\ m_flushList = <<>>
      BY <2>1 DEF MainInv, IsRunning, Flushing
    <2>3. m_iWrites' \in {m_iWrites, 0} /\ mpc' \in {"harvest", ret}
      BY <1>7 DEF FlushWrite, Return
    <2>4. UNCHANGED <<wWork, wpc, wKeep, m_flushList, m_bRun>>
      BY <1>7 DEF FlushWrite
    <2> QED BY <2>1, <2>2, <2>3, <2>4
  <1>8. CASE FlushLength
    BY <1>8 DEF FlushLength, Goto, Return, Fail
  <1>9. CASE FlushShare
    BY <1>9 DEF FlushShare, Goto
  <1>10. CASE FlushHash
    BY <1>10 DEF FlushHash, Goto, Return
  <1>11. CASE FlushSweep
    BY <1>11 DEF FlushSweep, Harvest
  <1>12. CASE FlushTail
    BY <1>12 DEF FlushTail, Return, AddTask
  <1>13. CASE OnAsyncHashComplete
    BY <1>13 DEF OnAsyncHashComplete, IsEvent, AddTask
  <1>14. CASE PartFileHashFinished
    BY <1>14 DEF PartFileHashFinished, IsEvent, CallFlush
  <1>15. CASE CompleteFileEnded
    BY <1>15 DEF CompleteFileEnded, IsEvent
  <1>16. CASE CompleteStopped
    BY <1>16 DEF CompleteStopped, CallFlush
  <1>17. CASE PerformFileComplete
    BY <1>17 DEF PerformFileComplete, AddTask, Goto
  <1>18. CASE UserPause
    BY <1>18 DEF UserPause, UserMay, PauseFile
  <1>19. CASE UserStop
    BY <1>19 DEF UserStop, UserMay, StopFile, PauseFile, CallFlush
  <1>20. CASE UserResume
    BY <1>20 DEF UserResume, UserMay, CallFlush
  <1>21. CASE UserDelete
    BY <1>21 DEF UserDelete, UserMay, StopFile, PauseFile, Goto
  <1>22. CASE DeleteFree
    BY <1>22 DEF DeleteFree, Goto
  <1>23. CASE WriteTake
    BY <1>23 DEF WriteTake, WriteUnchanged
  <1>24. CASE WriteFlushAt
    BY <1>24 DEF WriteFlushAt, WriteUnchanged, Fail
  <1>25. CASE WriteDecrement
    <2>1. wWork # <<>> /\ Len(wWork) \in Nat /\ Len(m_flushList) \in Nat
      BY <1>25, LenProperties DEF WriteDecrement
    <2> QED BY <1>25, <2>1 DEF WriteDecrement, WriteUnchanged
  <1>26. CASE WriteMark
    <2>1. /\ wpc = "mark" /\ wWork # <<>> /\ wWork' = Tail(wWork)
          /\ wpc' = IF Tail(wWork) # <<>> THEN "write"
                    ELSE IF wKeep THEN "take" ELSE "exited"
          /\ UNCHANGED <<m_flushList, m_iWrites, wKeep, m_bRun, mpc>>
      BY <1>26 DEF WriteMark, WriteUnchanged
    <2>2. Len(Tail(wWork)) = Len(wWork) - 1 /\ Len(wWork) \in Nat
      BY <2>1, HeadTailProperties, LenProperties
    <2>3. wpc' \in {"write", "dec", "mark"} <=> wWork' # <<>>
      BY <2>1
    <2>4. wpc' = "exited" \/ ~wKeep' => ~m_bRun'.write /\ m_flushList' = <<>>
      BY <2>1
    <2>5. wpc' # "mark" /\ Len(m_flushList) + Len(wWork) - 1 = Len(m_flushList') + Len(wWork')
      BY <2>1, <2>2, LenProperties
    <2> QED BY <2>1, <2>3, <2>4, <2>5
  <1>27. CASE HashTake
    BY <1>27 DEF HashTake, HashUnchanged
  <1>28. CASE HashSinglePart
    BY <1>28 DEF HashSinglePart, HashUnchanged, Fail
  <1>29. CASE HashPost
    BY <1>29 DEF HashPost, HashUnchanged
  <1>30. CASE HashDecrement
    BY <1>30 DEF HashDecrement, HashUnchanged
  <1>31. CASE HashingTaskPart
    BY <1>31 DEF HashingTaskPart, TaskUnchanged
  <1>32. CASE HashingTaskFails
    BY <1>32 DEF HashingTaskFails, TaskUnchanged, Fail
  <1>33. CASE HashingTaskEnds
    BY <1>33 DEF HashingTaskEnds, TaskUnchanged
  <1>34. CASE CompletionTask
    BY <1>34 DEF CompletionTask, TaskUnchanged, Fail
  <1>35. CASE ShutDown
    BY <1>35 DEF ShutDown, Goto
  <1>36. CASE EndHashThread
    BY <1>36 DEF EndHashThread, Goto
  <1>37. CASE EndWriteThread
    BY <1>37 DEF EndWriteThread, WriteThreadEnded, CallFlush, Goto, WriterInv
  <1>38. CASE SyncHashAndSave
    <2>1. mpc = "dtor" /\ mpc' = "closed"
      BY <1>38 DEF SyncHashAndSave, Goto
    <2>2. wpc = "exited" /\ wWork = <<>> /\ m_flushList = <<>>
      BY <2>1 DEF MainInv
    <2>3. UNCHANGED <<wWork, wpc, wKeep, m_flushList, m_bRun, m_iWrites>>
      BY <1>38 DEF SyncHashAndSave
    <2> QED BY <2>1, <2>2, <2>3
  <1>39. CASE UNCHANGED vars
    BY <1>39 DEF vars
  <1> HIDE DEF WriterInv, Gone, PlaceTypes, ListTypes, FlagTypes, MainPCs,
    fileVars, stateVars, bufferVars, mainVars, writeVars, hashVars, taskVars,
    threadVars, boundVars, histVars
  <1> QED BY <1>1, <1>2, <1>3, <1>4, <1>5, <1>6, <1>7, <1>8, <1>9, <1>10,
         <1>11, <1>12, <1>13, <1>14, <1>15, <1>16, <1>17, <1>18, <1>19, <1>20,
         <1>21, <1>22, <1>23, <1>24, <1>25, <1>26, <1>27, <1>28, <1>29, <1>30,
         <1>31, <1>32, <1>33, <1>34, <1>35, <1>36, <1>37, <1>38, <1>39
    DEF Next, FlushBuffer, Events, Completing, User, WriteThread, HashThread,
        Worker, Shutdown

\* BufferInv: the buffer and the write thread share the PB_PENDING items.
LEMMA BufferStep ==
  ASSUME ThreadsInv, [Next]_vars
  PROVE  BufferInv'
  <1> USE PartFileConstants DEF BufferInv, Gone, fileVars, stateVars,
    bufferVars, mainVars, writeVars, hashVars, taskVars, threadVars,
    boundVars, histVars
  <1>0. /\ FlagTypes /\ PlaceTypes /\ DataTypes /\ ListTypes
        /\ MainInv /\ WriterInv /\ HasherInv /\ BufferInv /\ HarvestInv
    BY TypeParts DEF ThreadsInv
  <1> USE <1>0
  <1>1. CASE SourceAccepts
    BY <1>1 DEF SourceAccepts, GetStatus
  <1>2. ASSUME NEW b \in Blocks, NEW d \in {"good", "bad"},
               WriteToBuffer(b, d)
        PROVE  BufferInv'
    <2> DEFINE i == received + 1
    <2>1. i \in Ids /\ received' = i /\ ~Gone /\ ~Gone'
      BY <1>2 DEF WriteToBuffer, Ids, DataTypes
    <2>2. /\ UNCHANGED <<m_flushList, wWork>>
          /\ item' = [item EXCEPT ![i] = [blk |-> b, data |-> d, flushed |-> "PB_READY"]]
      BY <1>2 DEF WriteToBuffer
    <2>3. /\ i \notin ToSet(m_BufferedData_list) /\ i \notin ToSet(m_flushList)
          /\ i \notin ToSet(wWork)
      BY DEF DataTypes
    <2>4. /\ ToSet(m_BufferedData_list') = ToSet(m_BufferedData_list) \cup {i}
          /\ IsInjective(m_BufferedData_list')
      BY <1>2, <2>1, <2>3, InsertFacts DEF WriteToBuffer
    <2>5. \A j \in Ids : j # i => item'[j] = item[j]
      BY <2>2 DEF DataTypes
    <2>6. item'[i].flushed = "PB_READY"
      BY <2>1, <2>2 DEF DataTypes
    <2>7. /\ ToSet(m_BufferedData_list) \subseteq Ids /\ ToSet(m_flushList) \subseteq Ids
          /\ ToSet(wWork) \subseteq Ids
      BY ToSetBasics DEF ListTypes
    <2>8. \A j \in Ids : j <= received => j <= received'
      BY <2>1 DEF Ids, DataTypes
    <2>9. \A j \in ToSet(m_BufferedData_list') \cup ToSet(m_flushList') \cup ToSet(wWork') :
            j <= received'
      BY <2>1, <2>2, <2>4, <2>7, <2>8 DEF Ids
    <2>10. \A j \in Ids :
             j \in ToSet(m_BufferedData_list') /\ item'[j].flushed = "PB_PENDING"
               <=> j \in ToSet(m_flushList') \cup ToSet(wWork')
      BY <2>1, <2>2, <2>3, <2>4, <2>5, <2>6
    <2> QED BY <2>2, <2>4, <2>9, <2>10
  <1>3. CASE Process
    BY <1>3 DEF Process, CallFlush
  <1>4. CASE FlushNoSpace
    BY <1>4 DEF FlushNoSpace, Return, PauseFile, Fail
  <1>5. CASE FlushQueue
    <2>1. CASE m_bRun.write
      <3> DEFINE ready == WithFlag("PB_READY")
      <3>1. /\ ready \in Seq(Ids) /\ m_flushList' = m_flushList \o ready
            /\ \A i \in Ids : i \in ToSet(ready) <=>
                 i \in ToSet(m_BufferedData_list) /\ item[i].flushed = "PB_READY"
            /\ IsInjective(ready)
            /\ \A i \in Ids : item'[i].flushed =
                 IF i \in ToSet(ready) THEN "PB_PENDING" ELSE item[i].flushed
        BY <1>5, <2>1, QueueFacts
      <3> HIDE DEF ready
      <3>2. mpc = "flush" /\ mpc' = "harvest" /\ UNCHANGED <<wWork,
                                                             m_BufferedData_list,
                                                             received>>
        BY <1>5 DEF FlushQueue, Goto
      <3>3. /\ ToSet(m_BufferedData_list) \subseteq Ids /\ ToSet(m_flushList) \subseteq Ids
            /\ ToSet(wWork) \subseteq Ids /\ ToSet(ready) \subseteq Ids
        BY <3>1, ToSetBasics DEF ListTypes
      <3>4. ToSet(ready) \cap (ToSet(m_flushList) \cup ToSet(wWork)) = {}
        BY <3>1, <3>2, <3>3
      <3>5. ToSet(m_flushList') = ToSet(m_flushList) \cup ToSet(ready)
        BY <3>1, ToSetConcat DEF ListTypes
      <3>6. IsInjective(m_flushList')
        <4>1. ToSet(m_flushList) \cap ToSet(ready) = {}
          BY <3>4
        <4> QED BY <3>1, <4>1, ToSetConcat DEF ListTypes
      <3> QED BY <3>1, <3>2, <3>3, <3>4, <3>5, <3>6
    <2>2. CASE ~m_bRun.write
      BY <1>5, <2>2 DEF FlushQueue, Goto
    <2> QED BY <2>1, <2>2
  <1>6. CASE FlushHarvest
    <2>1. Here \in Ids /\ Here \in ToSet(m_BufferedData_list) /\ ~Gone /\ ~Gone'
      BY <1>6, HereFacts DEF FlushHarvest, PlaceTypes
    <2>2. UNCHANGED <<m_flushList, wWork, received>>
      BY <1>6 DEF FlushHarvest
    <2>3. CASE UNCHANGED bufferVars
      BY <2>1, <2>2, <2>3
    <2>4. CASE /\ item[Here].flushed = "PB_ERROR"
               /\ item' = [item EXCEPT ![Here].flushed = "PB_READY"]
               /\ UNCHANGED m_BufferedData_list
      <3>1. \A i \in Ids : item'[i].flushed = "PB_PENDING" <=> item[i].flushed = "PB_PENDING"
        BY <2>1, <2>4 DEF DataTypes
      <3> QED BY <2>1, <2>2, <2>4, <3>1
    <2>5. CASE Written(Here) /\ Harvest /\ UNCHANGED item
      BY <1>6, <2>1, <2>2, <2>5, HarvestFacts DEF FlushHarvest, PlaceTypes, Written
    <2> QED BY <1>6, <2>3, <2>4, <2>5 DEF FlushHarvest
  <1>7. CASE FlushWrite
    <2>1. wWork = <<>> /\ m_flushList = <<>> /\ mpc = "harvest" /\ ret = "dtor"
      BY <1>7, FlushWriteAlone DEF FlushWrite
    <2>2. UNCHANGED <<m_flushList, wWork, item, received>>
      BY <1>7 DEF FlushWrite
    <2>3. ~Gone /\ ~Gone'
      BY <1>7, <2>1 DEF FlushWrite, Return
    <2>4. Here \in ToSet(m_BufferedData_list) /\ Here \in Ids
      BY <1>7, HereFacts DEF FlushWrite, PlaceTypes
    <2>5. CASE Harvest
      <3>1. /\ ToSet(m_BufferedData_list) = ToSet(m_BufferedData_list') \cup {Here}
            /\ IsInjective(m_BufferedData_list')
        BY <1>7, <2>5, HarvestFacts DEF FlushWrite, PlaceTypes
      <3> QED BY <2>1, <2>2, <2>3, <3>1
    <2>6. CASE m_BufferedData_list' = <<>>
      <3>1. ToSet(wWork) = {} /\ ToSet(m_flushList) = {}
        BY <2>1, EmptyList
      <3>2. ToSet(m_BufferedData_list') = {} /\ IsInjective(m_BufferedData_list')
        BY <2>6, EmptyList
      <3> QED BY <2>2, <2>3, <3>1, <3>2
    <2> QED BY <1>7, <2>5, <2>6 DEF FlushWrite
  <1>8. CASE FlushLength
    BY <1>8 DEF FlushLength, Goto, Return, Fail
  <1>9. CASE FlushShare
    BY <1>9 DEF FlushShare, Goto
  <1>10. CASE FlushHash
    BY <1>10 DEF FlushHash, Goto, Return
  <1>11. CASE FlushSweep
    <2>1. Here \in ToSet(m_BufferedData_list) /\ Here \in Ids
      BY <1>11, HereFacts DEF FlushSweep, PlaceTypes
    <2>2. UNCHANGED <<m_flushList, wWork, item, received, mpc>>
      BY <1>11 DEF FlushSweep
    <2>3. CASE Written(Here) /\ Harvest
      BY <1>11, <2>1, <2>2, <2>3, HarvestFacts DEF FlushSweep, PlaceTypes, Written
    <2> QED BY <1>11, <2>2, <2>3 DEF FlushSweep
  <1>12. CASE FlushTail
    BY <1>12 DEF FlushTail, Return, AddTask
  <1>13. CASE OnAsyncHashComplete
    BY <1>13 DEF OnAsyncHashComplete, IsEvent, AddTask
  <1>14. CASE PartFileHashFinished
    BY <1>14 DEF PartFileHashFinished, IsEvent, CallFlush
  <1>15. CASE CompleteFileEnded
    BY <1>15 DEF CompleteFileEnded, IsEvent
  <1>16. CASE CompleteStopped
    BY <1>16 DEF CompleteStopped, CallFlush
  <1>17. CASE PerformFileComplete
    BY <1>17 DEF PerformFileComplete, AddTask, Goto
  <1>18. CASE UserPause
    BY <1>18 DEF UserPause, UserMay, PauseFile
  <1>19. CASE UserStop
    BY <1>19 DEF UserStop, UserMay, StopFile, PauseFile, CallFlush
  <1>20. CASE UserResume
    BY <1>20 DEF UserResume, UserMay, CallFlush
  <1>21. CASE UserDelete
    <2>1. m_flushList' = <<>> /\ Gone' /\ UNCHANGED <<m_BufferedData_list, wWork, received>>
      BY <1>21 DEF UserDelete, Goto
    <2> QED BY <2>1, EmptyList
  <1>22. CASE DeleteFree
    <2>1. /\ m_BufferedData_list' = <<>> /\ Gone'
          /\ UNCHANGED <<m_flushList, wWork, received>>
      BY <1>22 DEF DeleteFree, Goto
    <2> QED BY <2>1, EmptyList
  <1>23. CASE WriteTake
    <2>1. /\ wWork = <<>> /\ wWork' = m_flushList /\ m_flushList' = <<>>
          /\ UNCHANGED <<m_BufferedData_list, item, received, mpc>>
      BY <1>23 DEF WriteTake, WriteUnchanged, WriterInv
    <2>2. ToSet(wWork) = {} /\ ToSet(m_flushList') = {} /\ IsInjective(m_flushList')
      BY <2>1, EmptyList
    <2> QED BY <2>1, <2>2
  <1>24. CASE WriteFlushAt
    BY <1>24 DEF WriteFlushAt, WriteUnchanged, Fail
  <1>25. CASE WriteDecrement
    BY <1>25 DEF WriteDecrement, WriteUnchanged
  <1>26. CASE WriteMark
    <2>1. /\ wWork # <<>> /\ wWork' = Tail(wWork)
          /\ UNCHANGED <<m_BufferedData_list, m_flushList, received, mpc>>
      BY <1>26 DEF WriteMark, WriteUnchanged, WriterInv
    <2>2. /\ Head(wWork) \in ToSet(wWork) /\ Head(wWork) \notin ToSet(Tail(wWork))
          /\ ToSet(wWork) = ToSet(Tail(wWork)) \cup {Head(wWork)}
          /\ IsInjective(Tail(wWork)) /\ ToSet(wWork) \subseteq Ids
      BY <2>1, ToSetTail, ToSetBasics DEF ListTypes
    <2> DEFINE h == Head(wWork)
               flag == IF wOk THEN "PB_WRITTEN" ELSE "PB_ERROR"
    <2>3. item' = [item EXCEPT ![h].flushed = flag] /\ flag # "PB_PENDING"
      BY <1>26 DEF WriteMark
    <2> HIDE DEF flag
    <2>4. /\ item'[h].flushed # "PB_PENDING"
          /\ \A j \in Ids : j # h => item'[j] = item[j]
      BY <2>2, <2>3 DEF DataTypes
    <2>5. h \notin ToSet(m_flushList)
      BY <2>2
    <2> HIDE DEF h
    <2>6. /\ ToSet(wWork') \subseteq ToSet(wWork) /\ IsInjective(wWork')
          /\ \A j \in ToSet(wWork) : j # h => j \in ToSet(wWork')
          /\ h \notin ToSet(wWork') /\ h \in ToSet(wWork)
      BY <2>1, <2>2 DEF h
    <2> QED BY <2>1, <2>4, <2>5, <2>6
  <1>27. CASE HashTake
    BY <1>27 DEF HashTake, HashUnchanged
  <1>28. CASE HashSinglePart
    BY <1>28 DEF HashSinglePart, HashUnchanged, Fail
  <1>29. CASE HashPost
    BY <1>29 DEF HashPost, HashUnchanged
  <1>30. CASE HashDecrement
    BY <1>30 DEF HashDecrement, HashUnchanged
  <1>31. CASE HashingTaskPart
    BY <1>31 DEF HashingTaskPart, TaskUnchanged
  <1>32. CASE HashingTaskFails
    BY <1>32 DEF HashingTaskFails, TaskUnchanged, Fail
  <1>33. CASE HashingTaskEnds
    BY <1>33 DEF HashingTaskEnds, TaskUnchanged
  <1>34. CASE CompletionTask
    BY <1>34 DEF CompletionTask, TaskUnchanged, Fail
  <1>35. CASE ShutDown
    BY <1>35 DEF ShutDown, Goto
  <1>36. CASE EndHashThread
    BY <1>36 DEF EndHashThread, Goto
  <1>37. CASE EndWriteThread
    BY <1>37 DEF EndWriteThread, WriteThreadEnded, CallFlush, Goto
  <1>38. CASE SyncHashAndSave
    <2>1. /\ m_BufferedData_list' = <<>> /\ Gone'
          /\ UNCHANGED <<m_flushList, wWork, received>>
      BY <1>38 DEF SyncHashAndSave, Goto
    <2> QED BY <2>1, EmptyList
  <1>39. CASE UNCHANGED vars
    BY <1>39 DEF vars
  <1> HIDE DEF BufferInv, Gone, fileVars, stateVars, bufferVars, mainVars,
    writeVars, hashVars, taskVars, threadVars, boundVars, histVars
  <1> QED BY <1>1, <1>2, <1>3, <1>4, <1>5, <1>6, <1>7, <1>8, <1>9, <1>10,
         <1>11, <1>12, <1>13, <1>14, <1>15, <1>16, <1>17, <1>18, <1>19, <1>20,
         <1>21, <1>22, <1>23, <1>24, <1>25, <1>26, <1>27, <1>28, <1>29, <1>30,
         <1>31, <1>32, <1>33, <1>34, <1>35, <1>36, <1>37, <1>38, <1>39
    DEF Next, FlushBuffer, Events, Completing, User, WriteThread, HashThread,
        Worker, Shutdown

\* HarvestInv: phase 1 of FlushBuffer leaves no PB_READY item to phase 2.
LEMMA HarvestStep ==
  ASSUME ThreadsInv, [Next]_vars
  PROVE  HarvestInv'
  <1> USE PartFileConstants DEF HarvestInv, fileVars, stateVars, bufferVars,
    mainVars, writeVars, hashVars, taskVars, threadVars, boundVars, histVars
  <1>0. /\ FlagTypes /\ PlaceTypes /\ DataTypes /\ ListTypes
        /\ MainInv /\ WriterInv /\ HasherInv /\ BufferInv /\ HarvestInv
    BY TypeParts DEF ThreadsInv
  <1> USE <1>0
  <1>1. CASE SourceAccepts
    BY <1>1 DEF SourceAccepts, GetStatus
  <1>2. ASSUME NEW b \in Blocks, NEW d \in {"good", "bad"},
               WriteToBuffer(b, d)
        PROVE  HarvestInv'
    BY <1>2 DEF WriteToBuffer
  <1>3. CASE Process
    BY <1>3 DEF Process, CallFlush
  <1>4. CASE FlushNoSpace
    BY <1>4 DEF FlushNoSpace, Return, PauseFile, Fail, PlaceTypes
  <1>5. CASE FlushQueue
    <2>1. CASE m_bRun.write
      <3>1. \A i \in ToSet(m_BufferedData_list) : item'[i].flushed # "PB_READY"
        <4>1. ToSet(m_BufferedData_list) \subseteq Ids
          BY ToSetBasics DEF ListTypes
        <4> QED BY <1>5, <2>1, <4>1, QueueFacts
      <3>2. UNCHANGED m_BufferedData_list
        BY <1>5 DEF FlushQueue
      <3>3. \A k \in DOMAIN m_BufferedData_list :
              m_BufferedData_list[k] \in ToSet(m_BufferedData_list)
        BY DEF ToSet
      <3> QED BY <3>1, <3>2, <3>3
    <2>2. CASE ~m_bRun.write
      BY <1>5, <2>2 DEF FlushQueue
    <2> QED BY <2>1, <2>2
  <1>6. CASE FlushHarvest
    <2> SUFFICES ASSUME m_bRun.write, mpc = "harvest",
                        NEW k \in DOMAIN m_BufferedData_list', k >= at'
                 PROVE  item'[m_BufferedData_list'[k]].flushed # "PB_READY"
      BY <1>6 DEF FlushHarvest
    <2> DEFINE list == m_BufferedData_list
    <2>1. /\ at \in Nat \ {0} /\ at <= Len(list) /\ Here = list[at]
          /\ Here \in Ids /\ Len(list) \in Nat /\ DOMAIN list = 1..Len(list)
          /\ \A l \in 1..Len(list) : list[l] \in Ids
      BY <1>6, HereFacts, LenProperties, ElementOfSeq
         DEF FlushHarvest, PlaceTypes, ListTypes, Here
    <2>2. CASE item[Here].flushed = "PB_PENDING" /\ at' = at + 1 /\ UNCHANGED bufferVars
      BY <2>1, <2>2
    <2>3. CASE /\ item' = [item EXCEPT ![Here].flushed = "PB_READY"]
               /\ at' = at + 1 /\ UNCHANGED m_BufferedData_list
      <3>1. k \in 1..Len(list) /\ k > at /\ list[k] # list[at] /\ list[k] \in Ids
        BY <2>1, <2>3 DEF BufferInv, IsInjective
      <3>2. item'[list[k]] = item[list[k]]
        BY <2>1, <2>3, <3>1 DEF DataTypes
      <3> QED BY <2>1, <2>3, <3>1, <3>2
    <2>4. CASE Harvest /\ UNCHANGED <<item, at>>
      <3>1. /\ m_BufferedData_list' \in Seq(Ids)
            /\ Len(m_BufferedData_list') = Len(list) - 1
            /\ \A l \in 1..(Len(list) - 1) :
                 m_BufferedData_list'[l] = IF l < at THEN list[l] ELSE list[l + 1]
        BY <2>1, <2>4, HarvestFacts
      <3>2. k \in 1..(Len(list) - 1)
        BY <2>1, <3>1, LenProperties
      <3>3. m_BufferedData_list'[k] = list[k + 1] /\ k + 1 \in DOMAIN list /\ k + 1 >= at
        BY <2>1, <2>4, <3>1, <3>2
      <3> QED BY <2>4, <3>3
    <2> QED BY <1>6, <2>2, <2>3, <2>4 DEF FlushHarvest
  <1>7. CASE FlushWrite
    <2>1. ~m_bRun.write
      BY <1>7, FlushWriteAlone
    <2> QED BY <1>7, <2>1 DEF FlushWrite
  <1>8. CASE FlushLength
    BY <1>8 DEF FlushLength, Goto, Return, Fail, PlaceTypes
  <1>9. CASE FlushShare
    BY <1>9 DEF FlushShare, Goto
  <1>10. CASE FlushHash
    BY <1>10 DEF FlushHash, Goto, Return, PlaceTypes
  <1>11. CASE FlushSweep
    BY <1>11 DEF FlushSweep, Harvest
  <1>12. CASE FlushTail
    BY <1>12 DEF FlushTail, Return, AddTask, PlaceTypes
  <1>13. CASE OnAsyncHashComplete
    BY <1>13 DEF OnAsyncHashComplete, IsEvent, AddTask
  <1>14. CASE PartFileHashFinished
    BY <1>14 DEF PartFileHashFinished, IsEvent, CallFlush
  <1>15. CASE CompleteFileEnded
    BY <1>15 DEF CompleteFileEnded, IsEvent
  <1>16. CASE CompleteStopped
    BY <1>16 DEF CompleteStopped, CallFlush
  <1>17. CASE PerformFileComplete
    BY <1>17 DEF PerformFileComplete, AddTask, Goto
  <1>18. CASE UserPause
    BY <1>18 DEF UserPause, UserMay, PauseFile
  <1>19. CASE UserStop
    BY <1>19 DEF UserStop, UserMay, StopFile, PauseFile, CallFlush
  <1>20. CASE UserResume
    BY <1>20 DEF UserResume, UserMay, CallFlush
  <1>21. CASE UserDelete
    BY <1>21 DEF UserDelete, UserMay, StopFile, PauseFile, Goto
  <1>22. CASE DeleteFree
    BY <1>22 DEF DeleteFree, Goto
  <1>23. CASE WriteTake
    BY <1>23 DEF WriteTake, WriteUnchanged
  <1>24. CASE WriteFlushAt
    BY <1>24 DEF WriteFlushAt, WriteUnchanged, Fail
  <1>25. CASE WriteDecrement
    BY <1>25 DEF WriteDecrement, WriteUnchanged
  <1>26. CASE WriteMark
    BY <1>26 DEF WriteMark, WriteUnchanged
  <1>27. CASE HashTake
    BY <1>27 DEF HashTake, HashUnchanged
  <1>28. CASE HashSinglePart
    BY <1>28 DEF HashSinglePart, HashUnchanged, Fail
  <1>29. CASE HashPost
    BY <1>29 DEF HashPost, HashUnchanged
  <1>30. CASE HashDecrement
    BY <1>30 DEF HashDecrement, HashUnchanged
  <1>31. CASE HashingTaskPart
    BY <1>31 DEF HashingTaskPart, TaskUnchanged
  <1>32. CASE HashingTaskFails
    BY <1>32 DEF HashingTaskFails, TaskUnchanged, Fail
  <1>33. CASE HashingTaskEnds
    BY <1>33 DEF HashingTaskEnds, TaskUnchanged
  <1>34. CASE CompletionTask
    BY <1>34 DEF CompletionTask, TaskUnchanged, Fail
  <1>35. CASE ShutDown
    BY <1>35 DEF ShutDown, Goto
  <1>36. CASE EndHashThread
    BY <1>36 DEF EndHashThread, Goto
  <1>37. CASE EndWriteThread
    BY <1>37 DEF EndWriteThread, WriteThreadEnded, CallFlush, Goto
  <1>38. CASE SyncHashAndSave
    BY <1>38 DEF SyncHashAndSave, Fail, Goto
  <1>39. CASE UNCHANGED vars
    BY <1>39 DEF vars
  <1> HIDE DEF HarvestInv, fileVars, stateVars, bufferVars, mainVars,
    writeVars, hashVars, taskVars, threadVars, boundVars, histVars
  <1> QED BY <1>1, <1>2, <1>3, <1>4, <1>5, <1>6, <1>7, <1>8, <1>9, <1>10,
         <1>11, <1>12, <1>13, <1>14, <1>15, <1>16, <1>17, <1>18, <1>19, <1>20,
         <1>21, <1>22, <1>23, <1>24, <1>25, <1>26, <1>27, <1>28, <1>29, <1>30,
         <1>31, <1>32, <1>33, <1>34, <1>35, <1>36, <1>37, <1>38, <1>39
    DEF Next, FlushBuffer, Events, Completing, User, WriteThread, HashThread,
        Worker, Shutdown

\* ThreadsInv is inductive.
LEMMA ThreadsStep ==
  ASSUME ThreadsInv, [Next]_vars
  PROVE  ThreadsInv'
  <1>1. FlagTypes' /\ PlaceTypes' /\ DataTypes' /\ ListTypes'
    <2>1. FlagTypes /\ PlaceTypes
      BY TypeParts DEF ThreadsInv
    <2> QED BY <2>1, FlagStep, PlaceStep, DataStep, ListStep
  <1>2. TypeOK'
    BY <1>1 DEF TypeOK, FlagTypes, PlaceTypes, DataTypes, ListTypes
  <1> QED BY <1>2, MainStep, WriterStep, HasherStep, BufferStep, HarvestStep
          DEF ThreadsInv

\* The initial states satisfy it.
LEMMA ThreadsInit == Init => ThreadsInv
  <1> SUFFICES ASSUME Init PROVE ThreadsInv
    OBVIOUS
  <1>1. TypeOK
    BY InitTypes
  <1>2. MainInv /\ WriterInv /\ HasherInv
    BY DEF Init, MainInv, IsRunning, Flushing, WriterInv, HasherInv, Gone
  <1>3. BufferInv
    BY EmptyList DEF Init, BufferInv
  <1>4. HarvestInv
    BY DEF Init, HarvestInv
  <1> QED BY <1>1, <1>2, <1>3, <1>4 DEF ThreadsInv

\* ThreadsInv is an inductive invariant, for every file and every bound.
THEOREM ThreadsInvariant == Spec => []ThreadsInv
  BY ThreadsInit, ThreadsStep, PTL DEF Spec

\* Every reachable state of the download is well typed.
THEOREM TypeCorrect == Spec => []TypeOK
  <1>1. ThreadsInv => TypeOK
    BY DEF ThreadsInv
  <1> QED BY <1>1, ThreadsInvariant, PTL

(***************************************************************************)
(* m_iWrites and m_pendingHashes are exact in every state of every         *)
(* instance, whatever fails and whatever the user does.                    *)
(***************************************************************************)
THEOREM CountersAreExact == Spec => []CountersExact
  <1>1. ThreadsInv => CountersExact
    <2> SUFFICES ASSUME ThreadsInv, ~Gone
                 PROVE  /\ m_iWrites = Len(m_flushList) + Len(wWork)
                                         - (IF wpc = "mark" THEN 1 ELSE 0)
                        /\ ToSet(WithFlag("PB_PENDING")) =
                             ToSet(m_flushList) \cup ToSet(wWork)
                        /\ m_pendingHashes = Len(m_jobList) + Len(hWork)
      BY DEF CountersExact
    <2>1. ListTypes /\ WriterInv /\ HasherInv /\ BufferInv
      BY TypeParts DEF ThreadsInv
    <2>2. /\ ToSet(m_BufferedData_list) \subseteq Ids
          /\ ToSet(m_flushList) \subseteq Ids /\ ToSet(wWork) \subseteq Ids
      BY <2>1, ToSetBasics DEF ListTypes
    <2>3. ToSet(WithFlag("PB_PENDING")) = ToSet(m_flushList) \cup ToSet(wWork)
      BY <2>1, <2>2, WithFlagFacts DEF BufferInv
    <2> QED BY <2>1, <2>3 DEF WriterInv, HasherInv
  <1> QED BY <1>1, ThreadsInvariant, PTL

(***************************************************************************)
(* When Delete() has freed the CPartFile, neither the write thread's queue *)
(* nor the hash thread refers to it.                                       *)
(***************************************************************************)
THEOREM DeletedStaysForgotten == Spec => []DeletedIsForgotten
  <1>1. ThreadsInv => DeletedIsForgotten
    <2> SUFFICES ASSUME ThreadsInv, mpc = "deleted"
                 PROVE  m_flushList = <<>> /\ m_jobList = <<>> /\ hWork = <<>> /\ hpc # "post"
      BY DEF DeletedIsForgotten
    <2>1. ListTypes /\ WriterInv /\ HasherInv
      BY TypeParts DEF ThreadsInv
    <2>2. m_jobList \in Seq(Parts) /\ hWork \in Seq(Parts)
      BY <2>1 DEF ListTypes
    <2>3. Len(m_jobList) + Len(hWork) = 0
      BY <2>1 DEF HasherInv
    <2>4. m_jobList = <<>> /\ hWork = <<>>
      BY <2>2, <2>3, ToSetBasics
    <2> QED BY <2>1, <2>4 DEF WriterInv, HasherInv, Gone
  <1> QED BY <1>1, ThreadsInvariant, PTL
==============================================================================
