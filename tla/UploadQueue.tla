----------------------------- MODULE UploadQueue -----------------------------
(***************************************************************************)
(* CUploadQueue (src/src/UploadQueue.cpp): the clients that wait for an    *)
(* upload slot and those that have one, with CUploadDiskIOThread, which    *)
(* walks the second list to read the blocks the clients asked for and      *)
(* hands them to their sockets, and with what a client's connection does   *)
(* to both (Disconnected, Safe_Delete, TryToContact and                    *)
(* ConnectionEstablished of src/src/BaseClient.cpp).                       *)
(*                                                                         *)
(* A handler of the main thread is one step, except CUploadQueue::Process, *)
(* whose loop takes a step per client, and a disconnection that deletes    *)
(* the client, where the main thread gives the disk thread time while it   *)
(* waits for m_uploadingListMutex.  A handler is written as an operator    *)
(* from a record of the state to the next such record; its field lock says *)
(* whether the handler took that mutex, which it can only while the disk   *)
(* thread does not hold it.                                                *)
(*                                                                         *)
(* Scores are abstracted to the order they put the clients in, times to    *)
(* whether a limit has passed.  New uploads are throttled (one a second,   *)
(* and none with TooManySockets()): they may be at any time.  A client     *)
(* asks for one file all along, and no two clients share a user hash or an *)
(* address.                                                                *)
(***************************************************************************)
EXTENDS ListOps, FiniteSets

CONSTANTS
  Clients,
  LowID,         \* clients that cannot be connected to
  Sources,       \* clients we also download from
  Chat,          \* chat partners, whom Disconnected never deletes
  Files, FileOf, \* the shared files, and the one each client asks for
  MaxSlots,      \* GetMaxSlots()
  QueueSize,     \* thePrefs::GetQueueSize()
  MaxBlocks,     \* bound: blocks a client asks for at a time
  MaxUpsets,     \* bound: lost connections, bans, disk errors, changed files ...
  End            \* the iterator past the end of m_uploadinglist

ASSUME UploadConstants ==
  /\ LowID \subseteq Clients /\ Sources \subseteq Clients /\ Chat \subseteq Clients
  /\ FileOf \in [Clients -> Files]
  /\ MaxSlots \in Nat \ {0} /\ QueueSize \in Nat
  /\ MaxBlocks \in Nat /\ MaxUpsets \in Nat
  /\ End \notin Clients

VARIABLES
  m_waitinglist, m_uploadinglist,
  cl,                \* every client: see Fresh
  banned,            \* CClientList's record of banned addresses
  lastupslotHighID,
  shared,            \* theApp->sharedfiles
  suspended,         \* suspendedUploadsSet
  mpc, it,           \* main thread: where it is ("kick" is in Process with
                     \* m_allowKicking), the iterator of Process or the
                     \* client being deleted
  dpc, dtodo,        \* disk thread: where it is, what is left of its walk
  m_listFinishedIO,  \* blocks read and not yet sent, by client
  dclient, dsock,    \* the client it works on, and what became of the socket
                     \* whose address it has fetched
  upsets,            \* what MaxUpsets counts
  bannedInSlot,      \* history: clients banned while they had a slot
  reattached         \* history: clients whose open socket was replaced

queueVars == <<m_waitinglist, m_uploadinglist, cl, banned, lastupslotHighID>>
fileVars  == <<shared, suspended>>
mainVars  == <<mpc, it>>
diskVars  == <<dpc, dtodo, m_listFinishedIO, dclient>>
histVars  == <<bannedInSlot, reattached>>
vars == <<queueVars, fileVars, mainVars, diskVars, dsock, upsets, histVars>>

\* A client before there is an object for it.
Fresh(c) ==
  [us |-> "US_NONE", sock |-> "none",
   ds |-> IF c \in Sources THEN "DS_ONQUEUE" ELSE "DS_NONE",
   addNext |-> FALSE, old |-> FALSE, ioError |-> FALSE, blocks |-> 0]

Init ==
  /\ m_waitinglist = <<>> /\ m_uploadinglist = <<>>
  /\ cl = [c \in Clients |-> Fresh(c)]
  /\ banned = {}
  /\ lastupslotHighID = TRUE
  /\ shared = Files /\ suspended = {}
  /\ mpc = "idle" /\ it = End
  /\ dpc = "idle" /\ dtodo = <<>> /\ m_listFinishedIO = <<>>
  /\ dclient = End /\ dsock = "none"
  /\ upsets = 0
  /\ bannedInSlot = {} /\ reattached = {}

------------------------------------------------------------------------------
(***************************************************************************)
(* The state a handler works on, and the end of a handler.                 *)
(***************************************************************************)
Now == [w |-> m_waitinglist, u |-> m_uploadinglist, cl |-> cl,
        banned |-> banned, high |-> lastupslotHighID,
        dsock |-> dsock, lock |-> FALSE]

\* Mutant: the mutex is given back before the packets are sent.
LockedToLookUp == dpc \in {"walk", "read"}

\* The disk thread holds m_uploadingListMutex.
Locked == dpc \in {"walk", "read", "send"}

Commit(S) ==
  /\ S.lock => ~Locked
  /\ m_waitinglist' = S.w /\ m_uploadinglist' = S.u /\ cl' = S.cl
  /\ banned' = S.banned /\ lastupslotHighID' = S.high /\ dsock' = S.dsock

IsDownloading(S, c) == c \in ToSet(S.u)
IsConnected(S, c) == S.cl[c].sock = "up"
IsBanned(S, c) == c \in S.banned /\ S.cl[c].ds # "DS_DOWNLOADING"

\* Entering US_UPLOADING forgets the I/O error of an earlier upload.
SetUploadState(S, c, us) ==
  IF us = "US_UPLOADING" /\ S.cl[c].us # us
    THEN [S EXCEPT !.cl[c].us = us, !.cl[c].ioError = FALSE]
    ELSE [S EXCEPT !.cl[c].us = us]

\* The client lets go of its socket.  The object is freed by an event of its
\* own, FreeSocket.
DropSocket(S, c) ==
  [S EXCEPT !.cl[c].sock = "none",
            !.dsock = IF dclient = c /\ @ = "live" /\ S.cl[c].sock # "none"
                        THEN "destroyed" ELSE @]

RemoveFromUploadQueue(S, c) ==
  IF c \in ToSet(S.u)
    THEN [SetUploadState(S, c, "US_NONE") EXCEPT
            !.u = RemoveFirst(@, c), !.cl[c].blocks = 0, !.lock = TRUE]
    ELSE [S EXCEPT !.lock = TRUE]

\* A banned client is unbanned when it leaves the waiting list.
RemoveFromWaitingQueue(S, c) ==
  IF c \in ToSet(S.w)
    THEN [S EXCEPT !.w = RemoveFirst(@, c),
                   !.banned = IF IsBanned(S, c) THEN @ \ {c} ELSE @,
                   !.cl[c].us = "US_NONE"]
    ELSE S

------------------------------------------------------------------------------
(***************************************************************************)
(* What a lost connection does to a client.                                *)
(***************************************************************************)

Disconnected(S, c) ==
  LET freed == IF S.cl[c].us = "US_UPLOADING"
                 THEN RemoveFromUploadQueue(S, c) ELSE S
      asked == IF freed.cl[c].ds = "DS_DOWNLOADING"
                 THEN [freed EXCEPT !.cl[c].ds = "DS_ONQUEUE"] ELSE freed
  IN DropSocket(asked, c)

\* Is the client kept after Disconnected?
Kept(S, c) ==
  \/ c \in Chat
  \/ S.cl[c].us # "US_CONNECTING"
       /\ (S.cl[c].us = "US_ONUPLOADQUEUE" \/ S.cl[c].ds = "DS_ONQUEUE")

Safe_Delete(S, c) ==
  LET gone == RemoveFromWaitingQueue(
                RemoveFromUploadQueue(DropSocket(S, c), c), c)
  IN [gone EXCEPT !.cl[c] = Fresh(c)]

\* Disconnected, and Safe_Delete when it says so.
DropClient(S, c) ==
  LET D == Disconnected(S, c) IN IF Kept(D, c) THEN D ELSE Safe_Delete(D, c)

------------------------------------------------------------------------------
(***************************************************************************)
(* SortGetBestClient.                                                      *)
(***************************************************************************)
Purged(S, c) == S.cl[c].old \/ FileOf[c] \notin shared

PurgeClient(S, c) ==
  IF Purged(S, c)
    THEN LET R == RemoveFromWaitingQueue(S, c)
         IN IF R.cl[c].sock = "none" THEN DropClient(R, c) ELSE R
    ELSE S

\* Every order in which scores may put some of the clients; the others have
\* score 0.
Orders(S) ==
  {o \in BoundedSeq(ToSet(S.w), Len(S.w)) :
     \A i, j \in DOMAIN o : i # j => o[i] # o[j]}

\* Banned clients and those of a suspended file have score 0; a client moves
\* up past every smaller score.
Ranked(S, order) ==
  LET scored == {c \in ToSet(S.w) : ~IsBanned(S, c) /\ FileOf[c] \notin suspended}
                  \cap ToSet(order)
  IN Filter(order, scored) \o Filter(S.w, Clients \ scored)

PurgeAll(S) ==
  LET turn[k \in 0..Len(S.w)] ==
        IF k = 0 THEN S ELSE PurgeClient(turn[k - 1], S.w[k])
  IN turn[Len(S.w)]

\* First pass: purge and sort.
Sorts(S) ==
  LET P == PurgeAll(S)
  IN {[P EXCEPT !.w = Ranked(P, order)] : order \in Orders(P)}

\* The first client that can be contacted, End if there is none.
BestClient(S) ==
  LET fit == Filter(S.w, {c \in Clients : c \notin LowID \/ IsConnected(S, c)})
  IN IF fit = <<>> THEN End ELSE Head(fit)

\* Second pass: the LowID clients ahead of it start once they connect.
Marked(S) ==
  LET best == BestClient(S)
      ahead == {c \in ToSet(S.w) :
                  best = End \/ Position(S.w, c) < Position(S.w, best)}
  IN [S EXCEPT !.cl = [c \in Clients |->
        IF c \in ToSet(S.w) THEN [S.cl[c] EXCEPT !.addNext = c \in ahead]
                            ELSE S.cl[c]]]

\* The possible results.
SortGetBestClient(S) == {Marked(R) : R \in Sorts(S)}

------------------------------------------------------------------------------
(***************************************************************************)
(* AddUpNextClient.  A client that is not connected is connected to, which *)
(* settings or the IP filter may refuse.                                   *)
(***************************************************************************)
PushBack(S, c) == [S EXCEPT !.u = Append(@, c), !.lock = TRUE]

StartUpload(S, c, refused) ==
  IF IsDownloading(S, c) THEN S
  ELSE IF IsConnected(S, c) THEN PushBack(SetUploadState(S, c, "US_UPLOADING"), c)
  ELSE LET C == SetUploadState(S, c, "US_CONNECTING")
           D == DropSocket(C, c)
       IN IF ~refused /\ c \notin LowID
            THEN PushBack([D EXCEPT !.cl[c].sock = "connecting"], c)
          ELSE IF Kept(Disconnected(C, c), c)
            THEN PushBack(Disconnected(C, c), c)
            ELSE Safe_Delete(Disconnected(C, c), c)

\* Mutant: the best client of the queue is refused like a direct one.
TakeBestOrDrop(S, refused) ==
  LET c == BestClient(S)
      R == [RemoveFromWaitingQueue(S, c) EXCEPT !.high = TRUE]
  IN IF c = End THEN S
     ELSE IF FileOf[c] \in suspended THEN R
     ELSE StartUpload(R, c, refused)

\* AddUpNextClient(), after the sort.
TakeBest(S, refused) ==
  LET c == BestClient(S)
      R == [RemoveFromWaitingQueue(S, c) EXCEPT !.high = TRUE]
  IN IF c = End THEN S ELSE StartUpload(R, c, refused)

\* AddUpNextClient(client).
DirectAdd(S, c, refused) ==
  IF FileOf[c] \in suspended \/ FileOf[c] \notin shared
    THEN S ELSE StartUpload(S, c, refused)

------------------------------------------------------------------------------
(***************************************************************************)
(* AddClientToQueue: the set of its possible results.                      *)
(***************************************************************************)

\* A LowID client whose turn has come may take one slot above the limit.
ExtraSlotFree(S) == Len(S.u) < MaxSlots + (IF S.high THEN 1 ELSE 0)

\* Mutant: a second request of a client that has a slot is not recognised.
NotRecognised(S, c) == FALSE

\* client->IsDownloading(): by its state.
HasSlot(S, c) == S.cl[c].us = "US_UPLOADING"

\* Mutant: the next LowID client may have an extra slot as well.
TakesAgain(S, c, refused) ==
  LET R == RemoveFromWaitingQueue([S EXCEPT !.cl[c].addNext = FALSE], c)
  IN DirectAdd(R, c, refused)

\* A client gets a slot, keeps what it has or joins the waiting list.
Takes(S, c, refused) ==
  LET R == RemoveFromWaitingQueue([S EXCEPT !.cl[c].addNext = FALSE], c)
  IN [DirectAdd(R, c, refused) EXCEPT !.high = FALSE]

Joins(S, c) ==
  {SetUploadState(R, c, "US_ONUPLOADQUEUE") :
     R \in SortGetBestClient([S EXCEPT !.w = Append(@, c)])}

AddClientToQueue(S0, c) ==
  LET S == [S0 EXCEPT !.cl[c].old = FALSE] IN
  IF IsBanned(S0, c) THEN {S0}
  ELSE IF c \in ToSet(S.w) THEN
    IF S.cl[c].addNext /\ ExtraSlotFree(S)
      THEN {Takes(S, c, refused) : refused \in BOOLEAN}
      ELSE {S}
  ELSE IF HasSlot(S, c) \/ Len(S.w) >= QueueSize THEN {S}
  ELSE IF S.w = <<>> /\ Len(S.u) < MaxSlots
    THEN {DirectAdd(S, c, refused) : refused \in BOOLEAN}
           \cup Joins(S, c)   \* throttled
  ELSE Joins(S, c)

------------------------------------------------------------------------------
(***************************************************************************)
(* The main thread.                                                        *)
(***************************************************************************)
Idle == mpc = "idle"

Upset == upsets < MaxUpsets /\ upsets' = upsets + 1

\* A handler that runs to its end.
Handler(S) ==
  Idle /\ Commit(S) /\ UNCHANGED <<mainVars, diskVars>>

\* OP_STARTUPLOADREQ.
StartUploadReq(c) ==
  /\ IsConnected(Now, c) /\ ~IsBanned(Now, c) /\ FileOf[c] \in shared
  /\ \E S \in AddClientToQueue(Now, c) : Handler(S)
  /\ UNCHANGED <<fileVars, upsets, histVars>>

\* OP_CANCELTRANSFER and OP_END_OF_DOWNLOAD.
CancelTransfer(c) ==
  /\ IsConnected(Now, c)
  /\ Handler(RemoveFromUploadQueue(Now, c))
  /\ UNCHANGED <<fileVars, upsets, histVars>>

\* OP_REQUESTPARTS: AddReqBlock.
AddReqBlock(c) ==
  /\ IsConnected(Now, c)
  /\ cl[c].us = "US_UPLOADING" /\ FileOf[c] \in shared
  /\ IsDownloading(Now, c) /\ ~cl[c].ioError
  /\ cl[c].blocks < MaxBlocks
  /\ Handler([Now EXCEPT !.cl[c].blocks = @ + 1])
  /\ UNCHANGED <<fileVars, upsets, histVars>>

ConnectionEstablished(S, c) ==
  IF S.cl[c].us = "US_CONNECTING" /\ IsDownloading(S, c)
    THEN SetUploadState(S, c, "US_UPLOADING") ELSE S

\* A connection of the peer is accepted, or ours to it is made.
PeerConnects(c) ==
  /\ \/ cl[c].sock = "none" /\ c \notin banned
     \/ cl[c].sock = "connecting"
  /\ Handler(ConnectionEstablished([Now EXCEPT !.cl[c].sock = "up"], c))
  /\ UNCHANGED <<fileVars, upsets, histVars>>

\* AttachToAlreadyKnown: the peer connects again from the same address while
\* its old socket is still open, which is destroyed.
PeerReconnects(c) ==
  /\ cl[c].sock = "up" /\ c \notin banned
  /\ Upset
  /\ reattached' = reattached \cup {c}
  /\ Handler(ConnectionEstablished([DropSocket(Now, c) EXCEPT !.cl[c].sock = "up"], c))
  /\ UNCHANGED <<fileVars, bannedInSlot>>

\* The socket closes, fails or times out.  A client that is not uploading
\* loses the socket first; Safe_Delete then waits for the mutex.
SocketCloses(c) ==
  /\ Idle
  /\ cl[c].sock # "none"
  /\ Upset
  /\ LET D == Disconnected(Now, c) IN
       /\ Commit(D)
       /\ IF Kept(D, c) THEN UNCHANGED mainVars ELSE mpc' = "delete" /\ it' = c
  /\ UNCHANGED <<diskVars, fileVars, histVars>>

DeleteClient ==
  /\ mpc = "delete"
  /\ Commit(Safe_Delete(Now, it))
  /\ mpc' = "idle" /\ it' = End
  /\ UNCHANGED <<diskVars, fileVars, upsets, histVars>>

\* CoreNotify_LibSocketDestroy: the socket object is freed.
FreeSocket ==
  /\ Idle
  /\ dsock = "destroyed" /\ dsock' = "freed"
  /\ UNCHANGED <<queueVars, fileVars, mainVars, diskVars, upsets, histVars>>

\* Ban() by CheckForAggressive, the corruption black box and others.
Ban(c) ==
  /\ IsConnected(Now, c) /\ ~IsBanned(Now, c) /\ cl[c].ds # "DS_DOWNLOADING"
  /\ Upset
  /\ Handler([SetUploadState(Now, c, "US_BANNED") EXCEPT !.banned = @ \cup {c}])
  /\ bannedInSlot' = IF IsDownloading(Now, c) THEN bannedInSlot \cup {c}
                                              ELSE bannedInSlot
  /\ UNCHANGED <<fileVars, reattached>>

\* A source starts or stops sending to us.
SourceStarts(c) ==
  /\ IsConnected(Now, c) /\ cl[c].ds = "DS_ONQUEUE"
  /\ Upset
  /\ Handler([Now EXCEPT !.cl[c].ds = "DS_DOWNLOADING"])
  /\ UNCHANGED <<fileVars, histVars>>

SourceStops(c) ==
  /\ cl[c].ds = "DS_DOWNLOADING"
  /\ Handler([Now EXCEPT !.cl[c].ds = "DS_ONQUEUE"])
  /\ UNCHANGED <<fileVars, upsets, histVars>>

\* MAX_PURGEQUEUETIME passes without a request of a waiting client.
Ages(c) ==
  /\ c \in ToSet(m_waitinglist) /\ ~cl[c].old
  /\ Upset
  /\ Handler([Now EXCEPT !.cl[c].old = TRUE])
  /\ UNCHANGED <<fileVars, histVars>>

------------------------------------------------------------------------------
(***************************************************************************)
(* SuspendUpload and ResumeUpload, called when a download completes, has   *)
(* been moved and is deleted.                                              *)
(***************************************************************************)
SuspendClient(S, c, terminate) ==
  LET R == RemoveFromUploadQueue(S, c)
  IN IF terminate THEN SetUploadState(R, c, "US_NONE")
     ELSE [SetUploadState(R, c, "US_ONUPLOADQUEUE") EXCEPT !.w = Append(@, c)]

UploadsOf(f) == Filter(m_uploadinglist, {c \in Clients : FileOf[c] = f})

SuspendAll(S, list, terminate) ==
  LET turn[k \in 0..Len(list)] ==
        IF k = 0 THEN S ELSE SuspendClient(turn[k - 1], list[k], terminate)
  IN turn[Len(list)]

SuspendUpload(f) ==
  /\ f \in shared \ suspended
  /\ Upset
  /\ Handler(SuspendAll(Now, UploadsOf(f), FALSE))
  /\ suspended' = suspended \cup {f}
  /\ UNCHANGED <<shared, histVars>>

ResumeUpload(f) ==
  /\ f \in suspended
  /\ Handler(Now)
  /\ suspended' = suspended \ {f}
  /\ UNCHANGED <<shared, upsets, histVars>>

TerminateUpload(f) ==
  /\ f \in shared \ suspended
  /\ Upset
  /\ Handler(SuspendAll(Now, UploadsOf(f), TRUE))
  /\ shared' = shared \ {f}
  /\ UNCHANGED <<suspended, histVars>>

------------------------------------------------------------------------------
(***************************************************************************)
(* CUploadQueue::Process.                                                  *)
(***************************************************************************)
Begin(u) == IF u = <<>> THEN End ELSE Head(u)

\* Mutant: the iterator is not moved before the client is dealt with.
StayOn(u, c) == c

Successor(u, c) ==
  LET k == Position(u, c) IN IF k = Len(u) THEN End ELSE u[k + 1]

\* A slot is filled, or a client may be kicked to free one, unless nobody
\* waits or new uploads are throttled.
ProcessBegin ==
  /\ Idle
  /\ \/ /\ Commit(Now)
        /\ mpc' = "process" /\ it' = Begin(m_uploadinglist)
     \/ /\ m_waitinglist # <<>> /\ Len(m_uploadinglist) < MaxSlots
        /\ \E R \in SortGetBestClient(Now), refused \in BOOLEAN :
             LET S == TakeBest(R, refused) IN Commit(S) /\ it' = Begin(S.u)
        /\ mpc' = "process"
     \/ /\ m_waitinglist # <<>> /\ Len(m_uploadinglist) >= MaxSlots
        /\ Commit(Now)
        /\ mpc' = "kick" /\ it' = Begin(m_uploadinglist)
  /\ UNCHANGED <<fileVars, diskVars, upsets, histVars>>

\* CheckForTimeOver may find that the client had its share: it goes back to
\* the waiting list, and no other is kicked in this round.
TimeOver(S, c) == AddClientToQueue(RemoveFromUploadQueue(S, c), c)

InProcess == mpc \in {"process", "kick"}

ProcessClient ==
  /\ InProcess /\ it # End
  /\ \/ /\ cl[it].sock = "none"
        /\ Commit(DropClient(RemoveFromUploadQueue(Now, it), it))
        /\ UNCHANGED mpc
     \/ /\ cl[it].sock # "none" /\ cl[it].ioError
        /\ Commit(RemoveFromUploadQueue(Now, it))
        /\ UNCHANGED mpc
     \/ /\ cl[it].sock # "none" /\ ~cl[it].ioError
        /\ Commit(Now)
        /\ UNCHANGED mpc
     \/ /\ cl[it].sock = "up" /\ ~cl[it].ioError /\ mpc = "kick"
        /\ \E S \in TimeOver(Now, it) : Commit(S)
        /\ mpc' = "process"
  /\ it' = Successor(m_uploadinglist, it)
  /\ UNCHANGED <<fileVars, diskVars, upsets, histVars>>

\* The periodic sort ends the call.
ProcessEnd ==
  /\ InProcess /\ it = End
  /\ \/ Commit(Now)
     \/ \E S \in SortGetBestClient(Now) : Commit(S)
  /\ mpc' = "idle"
  /\ UNCHANGED <<it, fileVars, diskVars, upsets, histVars>>

------------------------------------------------------------------------------
(***************************************************************************)
(* CUploadDiskIOThread::Entry.  A walk of an empty list is not a step.     *)
(***************************************************************************)
DiskUnchanged ==
  UNCHANGED <<m_waitinglist, m_uploadinglist, banned, lastupslotHighID,
              suspended, mainVars, upsets, histVars>>

DiskLock ==
  /\ dpc = "idle" /\ m_uploadinglist # <<>>
  /\ dpc' = "walk" /\ dtodo' = m_uploadinglist
  /\ DiskUnchanged
  /\ UNCHANGED <<cl, shared, m_listFinishedIO, dclient, dsock>>

\* The next client of the walk; its socket is fetched if it has one.
DiskEnter ==
  /\ dpc = "walk" /\ dtodo # <<>>
  /\ dtodo' = Tail(dtodo)
  /\ IF IsConnected(Now, Head(dtodo))
       THEN dpc' = "read" /\ dclient' = Head(dtodo) /\ dsock' = "live"
       ELSE UNCHANGED <<dpc, dclient, dsock>>
  /\ DiskUnchanged
  /\ UNCHANGED <<cl, shared, m_listFinishedIO>>

\* How many blocks may be read in one go.
Readable(c) == 0..cl[c].blocks

\* StartCreateNextBlockPackage reads blocks until it has read enough, the
\* main thread must act first, or a block cannot be read.  A complete file
\* that cannot be opened is no longer shared.
DiskRead ==
  /\ dpc = "read"
  /\ \E n \in Readable(dclient), fails, unshare \in BOOLEAN :
       /\ n > 0 => FileOf[dclient] \in shared
       /\ fails => n < cl[dclient].blocks
       /\ unshare => fails /\ FileOf[dclient] \in shared
       /\ FileOf[dclient] \notin shared /\ cl[dclient].blocks > 0 => fails
       /\ IF fails /\ FileOf[dclient] \in shared THEN Upset ELSE UNCHANGED upsets
       /\ cl' = [cl EXCEPT ![dclient].blocks = @ - n,
                           ![dclient].ioError = @ \/ fails]
       /\ shared' = IF unshare THEN shared \ {FileOf[dclient]} ELSE shared
       /\ m_listFinishedIO' = m_listFinishedIO \o [k \in 1..n |-> dclient]
  /\ dpc' = "walk" /\ dclient' = End /\ dsock' = "none"
  /\ UNCHANGED <<m_waitinglist, m_uploadinglist, banned, lastupslotHighID,
                 suspended, mainVars, histVars, dtodo>>

\* Finished reads are sent before the thread sleeps and walks again.
NextDisk(reads) == IF reads = <<>> THEN "idle" ELSE "drain"

DiskUnlock ==
  /\ dpc = "walk" /\ dtodo = <<>>
  /\ dpc' = NextDisk(m_listFinishedIO)
  /\ DiskUnchanged
  /\ UNCHANGED <<cl, shared, dtodo, m_listFinishedIO, dclient, dsock>>

\* ReadCompletionRoutine: under the mutex, the client must still be listed
\* and connected.
DiskFind ==
  /\ dpc = "drain" /\ m_listFinishedIO # <<>>
  /\ m_listFinishedIO' = Tail(m_listFinishedIO)
  /\ LET c == Head(m_listFinishedIO) IN
       \/ /\ ~IsDownloading(Now, c)
          /\ dpc' = NextDisk(m_listFinishedIO')
          /\ UNCHANGED <<cl, dclient, dsock>>
       \/ /\ IsDownloading(Now, c) /\ ~IsConnected(Now, c)
          /\ cl' = [cl EXCEPT ![c].ioError = TRUE]
          /\ dpc' = NextDisk(m_listFinishedIO')
          /\ UNCHANGED <<dclient, dsock>>
       \/ /\ IsDownloading(Now, c) /\ IsConnected(Now, c)
          /\ dpc' = "send" /\ dclient' = c /\ dsock' = "live"
          /\ UNCHANGED cl
  /\ DiskUnchanged
  /\ UNCHANGED <<shared, dtodo>>

\* The packets are handed to the socket and the mutex is released.
DiskSend ==
  /\ dpc = "send"
  /\ dpc' = NextDisk(m_listFinishedIO) /\ dclient' = End /\ dsock' = "none"
  /\ DiskUnchanged
  /\ UNCHANGED <<cl, shared, dtodo, m_listFinishedIO>>

Disk == DiskLock \/ DiskEnter \/ DiskRead \/ DiskUnlock \/ DiskFind \/ DiskSend

------------------------------------------------------------------------------
Connection ==
  \/ \E c \in Clients : PeerConnects(c) \/ PeerReconnects(c) \/ SocketCloses(c)
  \/ DeleteClient \/ FreeSocket

Peer ==
  \E c \in Clients : StartUploadReq(c) \/ CancelTransfer(c) \/ AddReqBlock(c)
                       \/ Ban(c) \/ SourceStarts(c) \/ SourceStops(c)
                       \/ Ages(c)

FileChange ==
  \E f \in Files : SuspendUpload(f) \/ ResumeUpload(f) \/ TerminateUpload(f)

Process == ProcessBegin \/ ProcessClient \/ ProcessEnd

Next == Connection \/ Peer \/ FileChange \/ Process \/ Disk

Spec == Init /\ [][Next]_vars

------------------------------------------------------------------------------
UploadStates == {"US_NONE", "US_ONUPLOADQUEUE", "US_UPLOADING", "US_CONNECTING",
                 "US_BANNED"}

ClientStates ==
  [us : UploadStates, sock : {"none", "connecting", "up"},
   ds : {"DS_NONE", "DS_ONQUEUE", "DS_DOWNLOADING"}, addNext : BOOLEAN,
   old : BOOLEAN, ioError : BOOLEAN, blocks : 0..MaxBlocks]

SocketFates == {"none", "live", "destroyed", "freed"}

\* The type of every variable; a client never has more blocks outstanding than
\* AddReqBlock queued for it, also after the disk thread took some.
TypeOK ==
  /\ m_waitinglist \in Seq(Clients) /\ m_uploadinglist \in Seq(Clients)
  /\ cl \in [Clients -> ClientStates]
  /\ banned \subseteq Clients
  /\ lastupslotHighID \in BOOLEAN
  /\ shared \subseteq Files /\ suspended \subseteq Files
  /\ mpc \in {"idle", "process", "kick", "delete"}
  /\ it \in Clients \cup {End}
  /\ dpc \in {"idle", "walk", "read", "drain", "send"}
  /\ dtodo \in Seq(Clients) /\ m_listFinishedIO \in Seq(Clients)
  /\ dclient \in Clients \cup {End}
  /\ dsock \in SocketFates
  /\ upsets \in 0..MaxUpsets
  /\ bannedInSlot \subseteq Clients /\ reattached \subseteq Clients

Waiting == ToSet(m_waitinglist)
Uploading == ToSet(m_uploadinglist)

(***************************************************************************)
(* What the two lists, the state of a client and its block queue say of it *)
(* agree, although each is changed by another part of the program: a       *)
(* client is in one list at most and there once, it is uploading only with *)
(* a slot and a connection, and blocks wait only for a client with a slot. *)
(* Ban() of a client with a slot changes the state alone and is the        *)
(* exception.                                                              *)
(***************************************************************************)
ListsAgree ==
  \A c \in Clients \ bannedInSlot :
    /\ Cardinality({k \in DOMAIN m_waitinglist : m_waitinglist[k] = c})
         + Cardinality({k \in DOMAIN m_uploadinglist : m_uploadinglist[k] = c}) <= 1
    /\ c \in Waiting => cl[c].us \in {"US_ONUPLOADQUEUE", "US_BANNED"}
    /\ c \in Uploading => cl[c].us \in {"US_UPLOADING", "US_CONNECTING"}
    /\ cl[c].us = "US_UPLOADING" => c \in Uploading /\ cl[c].sock = "up"
    /\ cl[c].blocks > 0 => c \in Uploading

\* There is at most one slot above the limit, and that one was given to a
\* LowID client after the last HighID client had its turn.
OneExtraSlot ==
  /\ Len(m_uploadinglist) <= MaxSlots + 1
  /\ Len(m_uploadinglist) > MaxSlots => ~lastupslotHighID

\* The iterator of the loop in Process, moved on before the client is dealt
\* with, stays valid through kicks, purges and deletions.
IteratorValid ==
  InProcess /\ it # End => it \in Uploading

\* "hold uploadLock through SendPacket so a concurrent disconnect cannot free
\* the socket": the disk thread's client keeps its slot and its socket is not
\* freed.  A client banned in its slot or connected again is the exception:
\* Disconnected and AttachToAlreadyKnown do not take the lock for it.
SocketOutlivesUse ==
  dclient # End /\ dclient \notin bannedInSlot \cup reattached =>
    dclient \in Uploading /\ dsock # "freed"

(***************************************************************************)
(* The inductive invariant, as a predicate of the record a handler works   *)
(* on.  Agree is what ListsAgree says of one client; while AddClientToQueue *)
(* has listed a client x but not yet set its state, x is an exception.     *)
(***************************************************************************)
States ==
  [w : Seq(Clients), u : Seq(Clients), cl : [Clients -> ClientStates],
   banned : SUBSET Clients, high : BOOLEAN, dsock : SocketFates, lock : BOOLEAN]

Agree(S, c, x) ==
  /\ Once(S.w, c)
  /\ c \in ToSet(S.w) =>
       /\ c \notin ToSet(S.u)
       /\ S.cl[c].us \in {"US_ONUPLOADQUEUE", "US_BANNED"} \/ c = x
  /\ c \in ToSet(S.u) => S.cl[c].us \in {"US_UPLOADING", "US_CONNECTING"}
  /\ S.cl[c].us = "US_UPLOADING" => c \in ToSet(S.u) /\ S.cl[c].sock = "up"
  /\ S.cl[c].blocks > 0 => c \in ToSet(S.u)

\* A client that is no source is in one list at most even when it was banned
\* in its slot: it stays banned as long as it has the slot.
PlainAgree(S, c) ==
  /\ S.cl[c].ds = "DS_NONE"
  /\ Once(S.w, c)
  /\ c \in ToSet(S.u) =>
       /\ c \notin ToSet(S.w)
       /\ S.cl[c].us \in {"US_UPLOADING", "US_CONNECTING"} \/ c \in S.banned

At(S, c, x) ==
  /\ c \notin bannedInSlot => Agree(S, c, x)
  /\ IF c \in Sources THEN S.cl[c].ds # "DS_NONE" ELSE PlainAgree(S, c)
  /\ c \in ToSet(S.u) /\ S.cl[c].us = "US_CONNECTING" => S.cl[c].sock # "up"

Sound(S, x) ==
  S \in States /\ IsInjective(S.u) /\ \A c \in Clients : At(S, c, x)

\* The client the disk thread works on, unless it is one of the exceptions.
Guarded == dclient # End /\ dclient \notin bannedInSlot \cup reattached

\* A handler that did not take the mutex left the list and the guarded
\* client's socket as they were.
Held(S) ==
  S.lock \/ /\ S.u = m_uploadinglist
            /\ Guarded => /\ dclient \in ToSet(S.u)
                          /\ S.cl[dclient].sock = "up" /\ S.dsock = "live"

\* OneExtraSlot of the record.
SlotsKept(S) ==
  /\ Len(S.u) <= MaxSlots + 1
  /\ Len(S.u) > MaxSlots => ~S.high

DiskInv ==
  /\ dclient # End <=> dpc \in {"read", "send"}
  /\ dpc \in {"walk", "read"} => ToSet(dtodo) \subseteq Uploading
  /\ Guarded => /\ dclient \in Uploading
                /\ cl[dclient].sock = "up" /\ dsock = "live"

UploadInv ==
  /\ TypeOK
  /\ mpc = "delete" => it # End
  /\ Sound(Now, End)
  /\ OneExtraSlot
  /\ IteratorValid
  /\ DiskInv

\* A waiting client leaves the list only for a slot, or because its object is
\* deleted, its file is gone or it stopped asking.  A LowID client of a
\* suspended file is the exception: it is removed before AddUpNextClient
\* refuses it.
KeepsItsPlace ==
  [][\A c \in Waiting \ Waiting' :
       \/ c \in Uploading'
       \/ cl'[c] = Fresh(c)
       \/ FileOf[c] \notin shared \/ cl[c].old
       \/ c \in LowID /\ FileOf[c] \in suspended]_vars
==============================================================================
