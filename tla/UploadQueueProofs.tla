-------------------------- MODULE UploadQueueProofs --------------------------
(***************************************************************************)
(* That UploadInv is an invariant of UploadQueue, and the safety           *)
(* properties that follow.  A handler is an operator from a record of the  *)
(* state to another, so there is a lemma for each of those operators; then *)
(* come the actions, and at the end the action property KeepsItsPlace.     *)
(***************************************************************************)
EXTENDS UploadQueue, ListLemmas, FiniteSetTheorems

\* From S to R only client c changed, as far as Sound goes.
Only(S, R, c) ==
  /\ R \in States /\ IsInjective(R.u)
  /\ \A d \in Clients \ {c} :
       /\ R.cl[d] = S.cl[d]
       /\ d \in ToSet(R.w) <=> d \in ToSet(S.w)
       /\ Once(S.w, d) => Once(R.w, d)
       /\ d \in ToSet(R.u) <=> d \in ToSet(S.u)
       /\ d \in S.banned => d \in R.banned

\* The lists, the bans and the mutex are as they were.
SameLists(S, R) ==
  /\ R.w = S.w /\ R.u = S.u /\ R.banned = S.banned
  /\ R.high = S.high /\ R.lock = S.lock

\* The client's claims are as they were: whether its turn has come, and
\* whether it asked long ago.
SameClaims(S, R, c) ==
  R.cl[c].addNext = S.cl[c].addNext /\ R.cl[c].old = S.cl[c].old

\* The client has no claim that it did not have.
NoNewClaim(S, R, c) ==
  /\ R.cl[c].addNext => S.cl[c].addNext
  /\ R.cl[c].old => S.cl[c].old

\* Only a LowID client's turn comes before it is there.
NextLow(S) == \A c \in Clients : S.cl[c].addNext => c \in LowID

\* Why a handler may have taken c off the waiting list.
Excused(S, R, c) ==
  \/ c \in ToSet(R.u)
  \/ R.cl[c] = Fresh(c)
  \/ FileOf[c] \notin shared \/ S.cl[c].old
  \/ c \in LowID /\ FileOf[c] \in suspended

\* A handler of c gave it a slot, or deleted it, and changed nobody else.
Started(S, R, c) ==
  /\ Only(S, R, c) /\ NoNewClaim(S, R, c) /\ R.high = S.high
  /\ c \in ToSet(R.u) \/ R.cl[c] = Fresh(c)

\* A sort gives and takes no slot, and removes only those it purges.
OnlyPurged(S, R) ==
  /\ R.u = S.u /\ R.high = S.high
  /\ \A d \in Clients : R.cl[d].old => S.cl[d].old
  /\ NextLow(S) => NextLow(R)
  /\ \A d \in ToSet(S.w) : d \in ToSet(R.w) \/ Purged(S, d)

\* Nobody left the waiting list, and nobody's turn came.
WaitersStay(S, R) ==
  /\ ToSet(S.w) \subseteq ToSet(R.w)
  /\ \A d \in Clients : R.cl[d].addNext => S.cl[d].addNext

\* Whoever left the waiting list had a reason to.
PlacesKept(S, R) == \A c \in ToSet(S.w) \ ToSet(R.w) : Excused(S, R, c)

\* A handler that changed one client has only that one to answer for.
LEMMA SoundStep ==
  ASSUME NEW S, NEW R, NEW c, NEW x, Sound(S, x), Only(S, R, c), At(R, c, x)
  PROVE  Sound(R, x)
  <1> SUFFICES ASSUME NEW d \in Clients \ {c} PROVE At(R, d, x)
    BY DEF Sound, Only
  <1>1. At(S, d, x) BY DEF Sound
  <1>2. /\ R.cl[d] = S.cl[d]
        /\ d \in ToSet(R.w) => d \in ToSet(S.w)
        /\ Once(S.w, d) => Once(R.w, d)
        /\ d \in ToSet(R.u) <=> d \in ToSet(S.u)
        /\ d \in S.banned => d \in R.banned
    BY DEF Only
  <1> QED BY <1>1, <1>2 DEF At, Agree, PlainAgree

\* The fields of a record of the state, and that Seq(Clients) types its lists.
LEMMA StatesFields ==
  ASSUME NEW S \in States
  PROVE  /\ S.w \in Seq(Clients) /\ S.u \in Seq(Clients)
         /\ S.cl \in [Clients -> ClientStates]
         /\ S.banned \subseteq Clients
         /\ ToSet(S.w) \subseteq Clients /\ ToSet(S.u) \subseteq Clients
  <1>1. S.w \in Seq(Clients) /\ S.u \in Seq(Clients) BY DEF States
  <1> QED BY <1>1, ToSetBasics DEF States

\* Replacing the record of one client.
Put(S, c, k) == [S EXCEPT !.cl = [S.cl EXCEPT ![c] = k]]

\* Putting a record in the place of a client's leaves every other client,
\* the lists and the disk thread's socket as they were.
LEMMA PutClient ==
  ASSUME NEW S \in States, NEW c \in Clients, NEW k \in ClientStates,
         NEW R, R = Put(S, c, k)
  PROVE  /\ R \in States /\ SameLists(S, R) /\ R.dsock = S.dsock
         /\ \A d \in Clients \ {c} : R.cl[d] = S.cl[d]
         /\ R.cl[c] = k
  <1> DEFINE f == [S.cl EXCEPT ![c] = k]
  <1>1. S.cl \in [Clients -> ClientStates] BY StatesFields
  <1>2. f \in [Clients -> ClientStates] BY <1>1
  <1>3. f[c] = k /\ \A d \in Clients \ {c} : f[d] = S.cl[d] BY <1>1
  <1> HIDE DEF f
  <1>4. R = [S EXCEPT !.cl = f] BY DEF f, Put
  <1>5. R \in States /\ R.cl = f /\ SameLists(S, R) /\ R.dsock = S.dsock
    BY <1>2, <1>4 DEF States, SameLists
  <1> QED BY <1>3, <1>5

\* CUpDownClient::SetUploadState changes the state of one client, and at most
\* its I/O error beside it.
LEMMA SetUploadStateIs ==
  ASSUME NEW S \in States, NEW c \in Clients, NEW us \in UploadStates,
         NEW R, R = SetUploadState(S, c, us)
  PROVE  /\ R \in States /\ SameLists(S, R) /\ R.dsock = S.dsock
         /\ \A d \in Clients \ {c} : R.cl[d] = S.cl[d]
         /\ R.cl[c].us = us /\ R.cl[c].sock = S.cl[c].sock
         /\ R.cl[c].ds = S.cl[c].ds /\ R.cl[c].blocks = S.cl[c].blocks
         /\ SameClaims(S, R, c)
  <1>1. S.cl[c] \in ClientStates BY StatesFields
  <1>2. CASE us = "US_UPLOADING" /\ S.cl[c].us # us
    <2> DEFINE k == [S.cl[c] EXCEPT !.us = us, !.ioError = FALSE]
    <2>1. k \in ClientStates BY <1>1 DEF ClientStates
    <2>2. R = [S EXCEPT !.cl[c].us = us, !.cl[c].ioError = FALSE]
      BY <1>2 DEF SetUploadState
    <2>3. R = Put(S, c, k)
      BY <2>2 DEF States, Put
    <2>4. /\ k.us = us /\ k.sock = S.cl[c].sock
          /\ k.ds = S.cl[c].ds /\ k.blocks = S.cl[c].blocks
          /\ k.addNext = S.cl[c].addNext /\ k.old = S.cl[c].old
      BY <1>1 DEF ClientStates
    <2> HIDE DEF k
    <2> QED BY <2>1, <2>3, <2>4, PutClient DEF SameClaims
  <1>3. CASE ~(us = "US_UPLOADING" /\ S.cl[c].us # us)
    <2> DEFINE k == [S.cl[c] EXCEPT !.us = us]
    <2>1. k \in ClientStates BY <1>1 DEF ClientStates
    <2>2. R = Put(S, c, k)
      BY <1>3 DEF SetUploadState, Put
    <2>3. /\ k.us = us /\ k.sock = S.cl[c].sock
          /\ k.ds = S.cl[c].ds /\ k.blocks = S.cl[c].blocks
          /\ k.addNext = S.cl[c].addNext /\ k.old = S.cl[c].old
      BY <1>1 DEF ClientStates
    <2> HIDE DEF k
    <2> QED BY <2>1, <2>2, <2>3, PutClient DEF SameClaims
  <1> QED BY <1>2, <1>3

\* Letting go of a socket changes the client's socket and, when the disk
\* thread has fetched that one, what became of it.
LEMMA DropSocketIs ==
  ASSUME NEW S \in States, NEW c \in Clients, NEW R, R = DropSocket(S, c)
  PROVE  /\ R \in States /\ SameLists(S, R)
         /\ dclient # c => R.dsock = S.dsock
         /\ \A d \in Clients \ {c} : R.cl[d] = S.cl[d]
         /\ R.cl[c].us = S.cl[c].us /\ R.cl[c].sock = "none"
         /\ R.cl[c].ds = S.cl[c].ds /\ R.cl[c].blocks = S.cl[c].blocks
         /\ SameClaims(S, R, c)
  <1>1. S.cl[c] \in ClientStates BY StatesFields
  <1> DEFINE k == [S.cl[c] EXCEPT !.sock = "none"]
             fate == IF dclient = c /\ S.dsock = "live" /\ S.cl[c].sock # "none"
                       THEN "destroyed" ELSE S.dsock
             M == Put(S, c, k)
  <1>2. k \in ClientStates BY <1>1 DEF ClientStates
  <1>3. R = [M EXCEPT !.dsock = fate] BY DEF DropSocket, States, Put
  <1>4. /\ M \in States /\ SameLists(S, M) /\ M.dsock = S.dsock
        /\ \A d \in Clients \ {c} : M.cl[d] = S.cl[d]
        /\ M.cl[c] = k
    <2> HIDE DEF k
    <2> QED BY <1>2, PutClient
  <1>5. fate \in SocketFates BY DEF States, SocketFates
  <1>6. dclient # c => fate = S.dsock OBVIOUS
  <1> HIDE DEF M, fate
  <1>7. R \in States /\ SameLists(M, R) /\ R.dsock = fate /\ R.cl = M.cl
    BY <1>3, <1>4, <1>5 DEF States, SameLists
  <1> QED BY <1>1, <1>4, <1>6, <1>7 DEF SameLists, ClientStates, SameClaims

\* A handler that leaves both lists alone and unbans nobody changed only c.
LEMMA OnlyListsKept ==
  ASSUME NEW S \in States, NEW R \in States, NEW c, IsInjective(S.u),
         R.w = S.w, R.u = S.u, S.banned \subseteq R.banned,
         \A d \in Clients \ {c} : R.cl[d] = S.cl[d]
  PROVE  Only(S, R, c)
  BY DEF Only

\* Leaving the list of uploads.
LEMMA RemoveFromUploadQueueIs ==
  ASSUME NEW S \in States, NEW c \in Clients, IsInjective(S.u),
         NEW R, R = RemoveFromUploadQueue(S, c)
  PROVE  /\ Only(S, R, c) /\ R.lock
         /\ R.w = S.w /\ R.banned = S.banned /\ R.high = S.high /\ R.dsock = S.dsock
         /\ c \notin ToSet(R.u)
         /\ Len(R.u) <= Len(S.u)
         /\ c \in ToSet(S.u) => R.cl[c].us = "US_NONE" /\ R.cl[c].blocks = 0
         /\ c \notin ToSet(S.u) =>
              /\ R.u = S.u
              /\ R.cl[c].us = S.cl[c].us /\ R.cl[c].blocks = S.cl[c].blocks
         /\ R.cl[c].sock = S.cl[c].sock /\ R.cl[c].ds = S.cl[c].ds
         /\ SameClaims(S, R, c)
  <1>0. S.u \in Seq(Clients) /\ Len(S.u) \in Nat BY StatesFields, LenProperties
  <1>1. CASE c \notin ToSet(S.u)
    <2>1. R = [S EXCEPT !.lock = TRUE] BY <1>1 DEF RemoveFromUploadQueue
    <2>2. /\ R \in States /\ R.w = S.w /\ R.u = S.u /\ R.cl = S.cl /\ R.lock
          /\ R.banned = S.banned /\ R.high = S.high /\ R.dsock = S.dsock
      BY <2>1 DEF States
    <2>3. Only(S, R, c) BY <2>2, OnlyListsKept
    <2> QED BY <1>0, <1>1, <2>2, <2>3 DEF SameClaims
  <1>2. CASE c \in ToSet(S.u)
    <2> DEFINE M == SetUploadState(S, c, "US_NONE")
               k == [M.cl[c] EXCEPT !.blocks = 0]
               P == Put(M, c, k)
               u == RemoveFirst(S.u, c)
    <2>1. /\ M \in States /\ SameLists(S, M) /\ M.dsock = S.dsock
          /\ \A d \in Clients \ {c} : M.cl[d] = S.cl[d]
          /\ M.cl[c].us = "US_NONE" /\ M.cl[c].sock = S.cl[c].sock
          /\ M.cl[c].ds = S.cl[c].ds /\ SameClaims(S, M, c)
      <3>1. "US_NONE" \in UploadStates BY DEF UploadStates
      <3> HIDE DEF M
      <3> QED BY <3>1, SetUploadStateIs DEF M
    <2>2. R = [M EXCEPT !.u = RemoveFirst(M.u, c), !.cl[c].blocks = 0, !.lock = TRUE]
      BY <1>2 DEF RemoveFromUploadQueue
    <2> HIDE DEF M
    <2>3. M.u = S.u BY <2>1 DEF SameLists
    <2>4. R = [P EXCEPT !.u = u, !.lock = TRUE]
      BY <2>1, <2>2, <2>3 DEF States, Put
    <2>5. M.cl[c] \in ClientStates BY <2>1, StatesFields
    <2>6. /\ k \in ClientStates /\ k.blocks = 0 /\ k.us = M.cl[c].us
          /\ k.sock = M.cl[c].sock /\ k.ds = M.cl[c].ds
          /\ k.addNext = M.cl[c].addNext /\ k.old = M.cl[c].old
      BY <2>5, UploadConstants DEF ClientStates
    <2> HIDE DEF k
    <2>7. /\ P \in States /\ SameLists(M, P) /\ P.dsock = M.dsock
          /\ \A d \in Clients \ {c} : P.cl[d] = M.cl[d]
          /\ P.cl[c] = k
      BY <2>1, <2>6, PutClient
    <2>8. /\ u \in Seq(Clients) /\ Len(u) <= Len(S.u)
          /\ ToSet(u) \subseteq ToSet(S.u) /\ ToSet(S.u) \ {c} \subseteq ToSet(u)
          /\ c \notin ToSet(u) /\ IsInjective(u)
      BY <1>0, InjectiveOnce, RemoveFirstProperties
    <2> HIDE DEF P, u
    <2>9. /\ R \in States /\ R.u = u /\ R.lock /\ R.cl = P.cl
          /\ R.w = P.w /\ R.banned = P.banned /\ R.high = P.high /\ R.dsock = P.dsock
      BY <2>4, <2>7, <2>8 DEF States
    <2>10. /\ R.w = S.w /\ R.banned = S.banned /\ R.high = S.high /\ R.dsock = S.dsock
           /\ \A d \in Clients \ {c} : R.cl[d] = S.cl[d]
      BY <2>1, <2>7, <2>9 DEF SameLists
    <2>11. Only(S, R, c) BY <2>8, <2>9, <2>10 DEF Only
    <2> QED BY <1>2, <2>1, <2>6, <2>7, <2>8, <2>9, <2>10, <2>11 DEF SameClaims
  <1> QED BY <1>1, <1>2

\* Leaving the waiting list.
LEMMA RemoveFromWaitingQueueIs ==
  ASSUME NEW S \in States, NEW c \in Clients, IsInjective(S.u),
         NEW R, R = RemoveFromWaitingQueue(S, c)
  PROVE  /\ Only(S, R, c)
         /\ R.u = S.u /\ R.high = S.high /\ R.dsock = S.dsock /\ R.lock = S.lock
         /\ ToSet(R.w) \subseteq ToSet(S.w)
         /\ \A d : Once(S.w, d) => Once(R.w, d)
         /\ Once(S.w, c) => c \notin ToSet(R.w)
         /\ c \in ToSet(S.w) => R.cl[c].us = "US_NONE"
         /\ c \notin ToSet(S.w) => R = S
         /\ R.cl[c].sock = S.cl[c].sock /\ R.cl[c].ds = S.cl[c].ds
         /\ R.cl[c].blocks = S.cl[c].blocks /\ SameClaims(S, R, c)
  <1>0. S.w \in Seq(Clients) BY StatesFields
  <1>1. CASE c \notin ToSet(S.w)
    <2>1. R = S BY <1>1 DEF RemoveFromWaitingQueue
    <2> QED BY <1>1, <2>1, OnlyListsKept DEF SameClaims
  <1>2. CASE c \in ToSet(S.w)
    <2> DEFINE k == [S.cl[c] EXCEPT !.us = "US_NONE"]
               P == Put(S, c, k)
               w == RemoveFirst(S.w, c)
               b == IF IsBanned(S, c) THEN S.banned \ {c} ELSE S.banned
    <2>1. R = [P EXCEPT !.w = w, !.banned = b]
      BY <1>2 DEF RemoveFromWaitingQueue, States, Put
    <2>2. S.cl[c] \in ClientStates BY StatesFields
    <2>3. /\ k \in ClientStates /\ k.us = "US_NONE" /\ k.sock = S.cl[c].sock
          /\ k.ds = S.cl[c].ds /\ k.blocks = S.cl[c].blocks
          /\ k.addNext = S.cl[c].addNext /\ k.old = S.cl[c].old
      BY <2>2 DEF ClientStates, UploadStates
    <2>4. /\ b \subseteq Clients /\ \A d \in Clients \ {c} : d \in S.banned => d \in b
      BY StatesFields
    <2>5. /\ w \in Seq(Clients)
          /\ ToSet(w) \subseteq ToSet(S.w) /\ ToSet(S.w) \ {c} \subseteq ToSet(w)
          /\ \A d : Once(S.w, d) => Once(w, d)
          /\ Once(S.w, c) => c \notin ToSet(w)
      BY <1>0, RemoveFirstProperties
    <2> HIDE DEF k, w, b
    <2>6. /\ P \in States /\ SameLists(S, P) /\ P.dsock = S.dsock
          /\ \A d \in Clients \ {c} : P.cl[d] = S.cl[d]
          /\ P.cl[c] = k
      BY <2>3, PutClient
    <2> HIDE DEF P
    <2>7. /\ R \in States /\ R.w = w /\ R.banned = b /\ R.cl = P.cl
          /\ R.u = P.u /\ R.high = P.high /\ R.dsock = P.dsock /\ R.lock = P.lock
      BY <2>1, <2>4, <2>5, <2>6 DEF States
    <2>8. /\ R.u = S.u /\ R.high = S.high /\ R.dsock = S.dsock /\ R.lock = S.lock
          /\ \A d \in Clients \ {c} : R.cl[d] = S.cl[d]
      BY <2>6, <2>7 DEF SameLists
    <2>9. Only(S, R, c) BY <2>4, <2>5, <2>7, <2>8 DEF Only
    <2> QED BY <1>2, <2>3, <2>5, <2>6, <2>7, <2>8, <2>9 DEF SameClaims
  <1> QED BY <1>1, <1>2

\* Two handlers in a row that changed only c changed only c.
LEMMA OnlyTransitive ==
  ASSUME NEW S, NEW M, NEW R, NEW c, Only(S, M, c), Only(M, R, c)
  PROVE  Only(S, R, c)
  BY DEF Only

\* RemoveFromUploadQueue, called for any client, keeps the invariant.
LEMMA RemoveFromUploadQueueSound ==
  ASSUME NEW S, NEW c \in Clients, NEW x, Sound(S, x)
  PROVE  Sound(RemoveFromUploadQueue(S, c), x) /\ Held(RemoveFromUploadQueue(S, c))
  <1>0. PICK R : R = RemoveFromUploadQueue(S, c) OBVIOUS
  <1>1. S \in States /\ IsInjective(S.u) /\ At(S, c, x) BY DEF Sound
  <1>2. /\ Only(S, R, c) /\ R.lock
        /\ R.w = S.w
        /\ c \notin ToSet(R.u)
        /\ c \in ToSet(S.u) => R.cl[c].us = "US_NONE" /\ R.cl[c].blocks = 0
        /\ c \notin ToSet(S.u) =>
             R.cl[c].us = S.cl[c].us /\ R.cl[c].blocks = S.cl[c].blocks
        /\ R.cl[c].ds = S.cl[c].ds
    BY <1>0, <1>1, RemoveFromUploadQueueIs
  <1>3. At(R, c, x)
    <2>1. ASSUME c \notin bannedInSlot PROVE Agree(R, c, x)
      BY <1>1, <1>2, <2>1 DEF At, Agree
    <2>2. c \notin Sources => PlainAgree(R, c)
      BY <1>1, <1>2 DEF At, PlainAgree
    <2> QED BY <1>1, <1>2, <2>1, <2>2 DEF At
  <1>4. Sound(R, x) BY <1>2, <1>3, SoundStep
  <1> QED BY <1>0, <1>2, <1>4 DEF Held

\* So does RemoveFromWaitingQueue, which does not take the mutex.
LEMMA RemoveFromWaitingQueueSound ==
  ASSUME NEW S, NEW c \in Clients, NEW x, Sound(S, x)
  PROVE  /\ Sound(RemoveFromWaitingQueue(S, c), x)
         /\ Held(S) => Held(RemoveFromWaitingQueue(S, c))
         /\ c \notin bannedInSlot \/ c \notin Sources
              => c \notin ToSet(RemoveFromWaitingQueue(S, c).w)
  <1>0. PICK R : R = RemoveFromWaitingQueue(S, c) OBVIOUS
  <1>1. S \in States /\ IsInjective(S.u) /\ At(S, c, x) BY DEF Sound
  <1>2. /\ Only(S, R, c)
        /\ R.u = S.u /\ R.dsock = S.dsock /\ R.lock = S.lock
        /\ ToSet(R.w) \subseteq ToSet(S.w)
        /\ Once(S.w, c) => Once(R.w, c)
        /\ Once(S.w, c) => c \notin ToSet(R.w)
        /\ c \in ToSet(S.w) => R.cl[c].us = "US_NONE"
        /\ c \notin ToSet(S.w) => R = S
        /\ R.cl[c].sock = S.cl[c].sock /\ R.cl[c].ds = S.cl[c].ds
        /\ R.cl[c].blocks = S.cl[c].blocks
    BY <1>0, <1>1, RemoveFromWaitingQueueIs
  <1>3. At(R, c, x)
    <2>1. CASE c \notin ToSet(S.w) BY <1>1, <1>2, <2>1
    <2>2. CASE c \in ToSet(S.w)
      <3>1. ASSUME c \notin bannedInSlot PROVE Agree(R, c, x)
        BY <1>1, <1>2, <2>2, <3>1 DEF At, Agree
      <3>2. c \notin Sources => PlainAgree(R, c)
        BY <1>1, <1>2, <2>2 DEF At, PlainAgree
      <3> QED BY <1>1, <1>2, <2>2, <3>1, <3>2 DEF At
    <2> QED BY <2>1, <2>2
  <1>4. Sound(R, x) BY <1>2, <1>3, SoundStep
  <1>5. ASSUME Held(S) PROVE Held(R)
    <2>1. \A d \in Clients : R.cl[d].sock = S.cl[d].sock BY <1>2 DEF Only
    <2>2. ToSet(S.u) \subseteq Clients BY <1>1, StatesFields
    <2> QED BY <1>2, <1>5, <2>1, <2>2 DEF Held
  <1>6. c \notin bannedInSlot \/ c \notin Sources => Once(S.w, c)
    BY <1>1 DEF At, Agree, PlainAgree
  <1> QED BY <1>0, <1>2, <1>4, <1>5, <1>6

\* What a lost connection leaves of the client.
LEMMA DisconnectedIs ==
  ASSUME NEW S \in States, NEW c \in Clients, IsInjective(S.u),
         NEW R, R = Disconnected(S, c)
  PROVE  /\ Only(S, R, c)
         /\ R.w = S.w /\ R.banned = S.banned /\ R.high = S.high
         /\ Len(R.u) <= Len(S.u)
         /\ S.cl[c].us = "US_UPLOADING" =>
              R.lock /\ c \notin ToSet(R.u)
         /\ S.cl[c].us = "US_UPLOADING" /\ c \in ToSet(S.u) =>
              R.cl[c].us = "US_NONE" /\ R.cl[c].blocks = 0
         /\ S.cl[c].us # "US_UPLOADING" =>
              /\ R.lock = S.lock /\ R.u = S.u
              /\ R.cl[c].us = S.cl[c].us /\ R.cl[c].blocks = S.cl[c].blocks
         /\ c \notin ToSet(S.u) => R.u = S.u
         /\ c # dclient => R.dsock = S.dsock
         /\ R.cl[c].sock = "none" /\ SameClaims(S, R, c)
         /\ R.cl[c].ds = IF S.cl[c].ds = "DS_DOWNLOADING" THEN "DS_ONQUEUE" ELSE S.cl[c].ds
  <1> DEFINE F == IF S.cl[c].us = "US_UPLOADING"
                    THEN RemoveFromUploadQueue(S, c) ELSE S
             A == IF F.cl[c].ds = "DS_DOWNLOADING"
                    THEN [F EXCEPT !.cl[c].ds = "DS_ONQUEUE"] ELSE F
  <1>1. R = DropSocket(A, c) BY DEF Disconnected
  <1>2. /\ Only(S, F, c) /\ F \in States
        /\ F.w = S.w /\ F.banned = S.banned /\ F.high = S.high /\ F.dsock = S.dsock
        /\ Len(F.u) <= Len(S.u)
        /\ S.cl[c].us = "US_UPLOADING" => F.lock /\ c \notin ToSet(F.u)
        /\ S.cl[c].us = "US_UPLOADING" /\ c \in ToSet(S.u) =>
             F.cl[c].us = "US_NONE" /\ F.cl[c].blocks = 0
        /\ S.cl[c].us # "US_UPLOADING" => F = S
        /\ c \notin ToSet(S.u) => F.u = S.u
        /\ F.cl[c].ds = S.cl[c].ds /\ SameClaims(S, F, c)
    <2>1. CASE S.cl[c].us = "US_UPLOADING"
      <3>1. F = RemoveFromUploadQueue(S, c) BY <2>1
      <3> HIDE DEF F
      <3>2. /\ Only(S, F, c) /\ F.lock
            /\ F.w = S.w /\ F.banned = S.banned /\ F.high = S.high /\ F.dsock = S.dsock
            /\ c \notin ToSet(F.u)
            /\ Len(F.u) <= Len(S.u)
            /\ c \in ToSet(S.u) => F.cl[c].us = "US_NONE" /\ F.cl[c].blocks = 0
            /\ c \notin ToSet(S.u) => F.u = S.u
            /\ F.cl[c].ds = S.cl[c].ds /\ SameClaims(S, F, c)
        BY <3>1, RemoveFromUploadQueueIs
      <3>3. F \in States BY <3>2 DEF Only
      <3> QED BY <2>1, <3>2, <3>3
    <2>2. CASE S.cl[c].us # "US_UPLOADING"
      <3>1. F = S BY <2>2
      <3>2. Len(S.u) \in Nat BY StatesFields, LenProperties
      <3> HIDE DEF F
      <3> QED BY <2>2, <3>1, <3>2, OnlyListsKept DEF SameClaims
    <2> QED BY <2>1, <2>2
  <1> HIDE DEF F
  <1>3. /\ A \in States /\ SameLists(F, A) /\ A.dsock = F.dsock
        /\ \A d \in Clients \ {c} : A.cl[d] = F.cl[d]
        /\ A.cl[c].us = F.cl[c].us /\ A.cl[c].blocks = F.cl[c].blocks
        /\ SameClaims(F, A, c)
        /\ A.cl[c].ds = IF F.cl[c].ds = "DS_DOWNLOADING" THEN "DS_ONQUEUE" ELSE F.cl[c].ds
    <2>1. CASE F.cl[c].ds = "DS_DOWNLOADING"
      <3> DEFINE k == [F.cl[c] EXCEPT !.ds = "DS_ONQUEUE"]
      <3>1. F.cl[c] \in ClientStates BY <1>2, StatesFields
      <3>2. /\ k \in ClientStates /\ k.us = F.cl[c].us /\ k.blocks = F.cl[c].blocks
            /\ k.ds = "DS_ONQUEUE"
            /\ k.addNext = F.cl[c].addNext /\ k.old = F.cl[c].old
        BY <3>1 DEF ClientStates
      <3>3. A = Put(F, c, k) BY <2>1 DEF Put
      <3> HIDE DEF k, A
      <3> QED BY <1>2, <2>1, <3>2, <3>3, PutClient DEF SameClaims
    <2>2. CASE F.cl[c].ds # "DS_DOWNLOADING"
      <3>1. A = F BY <2>2
      <3> HIDE DEF A
      <3> QED BY <1>2, <2>2, <3>1 DEF SameLists, SameClaims
    <2> QED BY <2>1, <2>2
  <1> HIDE DEF A
  <1>4. /\ R \in States /\ SameLists(A, R)
        /\ dclient # c => R.dsock = A.dsock
        /\ \A d \in Clients \ {c} : R.cl[d] = A.cl[d]
        /\ R.cl[c].us = A.cl[c].us /\ R.cl[c].sock = "none"
        /\ R.cl[c].ds = A.cl[c].ds /\ R.cl[c].blocks = A.cl[c].blocks
        /\ SameClaims(A, R, c)
    BY <1>1, <1>3, DropSocketIs
  <1>5. /\ R.w = F.w /\ R.u = F.u /\ R.banned = F.banned
        /\ R.high = F.high /\ R.lock = F.lock
        /\ \A d \in Clients \ {c} : R.cl[d] = F.cl[d]
    BY <1>3, <1>4 DEF SameLists
  <1>6. Only(S, R, c) BY <1>2, <1>4, <1>5 DEF Only
  <1> QED BY <1>2, <1>3, <1>4, <1>5, <1>6 DEF SameClaims

\* Disconnected takes the mutex when the disk thread may be at the client.
LEMMA DisconnectedSound ==
  ASSUME NEW S, NEW c \in Clients, NEW x, Sound(S, x)
  PROVE  Sound(Disconnected(S, c), x) /\ (Held(S) => Held(Disconnected(S, c)))
  <1>0. PICK R : R = Disconnected(S, c) OBVIOUS
  <1>1. S \in States /\ IsInjective(S.u) /\ At(S, c, x) BY DEF Sound
  <1>2. /\ Only(S, R, c)
        /\ R.w = S.w /\ R.banned = S.banned /\ R.high = S.high
        /\ S.cl[c].us = "US_UPLOADING" =>
              R.lock /\ c \notin ToSet(R.u)
        /\ S.cl[c].us = "US_UPLOADING" /\ c \in ToSet(S.u) =>
              R.cl[c].us = "US_NONE" /\ R.cl[c].blocks = 0
        /\ S.cl[c].us # "US_UPLOADING" =>
              /\ R.lock = S.lock /\ R.u = S.u
              /\ R.cl[c].us = S.cl[c].us /\ R.cl[c].blocks = S.cl[c].blocks
        /\ c # dclient => R.dsock = S.dsock
        /\ R.cl[c].sock = "none"
        /\ R.cl[c].ds = IF S.cl[c].ds = "DS_DOWNLOADING" THEN "DS_ONQUEUE" ELSE S.cl[c].ds
    BY <1>0, <1>1, DisconnectedIs
  <1>3. At(R, c, x)
    <2>1. ASSUME c \notin bannedInSlot PROVE Agree(R, c, x)
      <3>1. CASE S.cl[c].us = "US_UPLOADING" BY <1>1, <1>2, <2>1, <3>1 DEF At, Agree
      <3>2. CASE S.cl[c].us # "US_UPLOADING" BY <1>1, <1>2, <2>1, <3>2 DEF At, Agree
      <3> QED BY <3>1, <3>2
    <2>2. c \notin Sources => PlainAgree(R, c)
      <3>1. CASE S.cl[c].us = "US_UPLOADING" BY <1>1, <1>2, <3>1 DEF At, PlainAgree
      <3>2. CASE S.cl[c].us # "US_UPLOADING" BY <1>1, <1>2, <3>2 DEF At, PlainAgree
      <3> QED BY <3>1, <3>2
    <2> QED BY <1>1, <1>2, <2>1, <2>2 DEF At
  <1>4. Sound(R, x) BY <1>2, <1>3, SoundStep
  <1>5. ASSUME Held(S) PROVE Held(R)
    <2>1. CASE S.cl[c].us = "US_UPLOADING" BY <1>2, <2>1 DEF Held
    <2>2. CASE S.cl[c].us # "US_UPLOADING" /\ S.lock BY <1>2, <2>2 DEF Held
    <2>3. CASE S.cl[c].us # "US_UPLOADING" /\ ~S.lock
      <3>1. ASSUME Guarded PROVE c # dclient
        <4> SUFFICES ASSUME c = dclient PROVE FALSE OBVIOUS
        <4>1. c \in ToSet(S.u) /\ S.cl[c].sock = "up" BY <1>5, <2>3, <3>1 DEF Held
        <4>2. c \notin bannedInSlot BY <3>1 DEF Guarded
        <4> QED BY <1>1, <2>3, <4>1, <4>2 DEF At, Agree
      <3>2. ASSUME Guarded PROVE R.cl[dclient].sock = "up" /\ R.dsock = "live"
        <4>1. dclient \in ToSet(S.u) /\ S.cl[dclient].sock = "up" /\ S.dsock = "live"
          BY <1>5, <2>3, <3>2 DEF Held
        <4>2. dclient \in Clients BY <1>1, <4>1, StatesFields
        <4>3. R.cl[dclient] = S.cl[dclient] BY <1>2, <3>1, <3>2, <4>2 DEF Only
        <4> QED BY <1>2, <3>1, <3>2, <4>1, <4>3
      <3> QED BY <1>2, <1>5, <2>3, <3>2 DEF Held
    <2> QED BY <2>1, <2>2, <2>3
  <1> QED BY <1>0, <1>4, <1>5

\* Safe_Delete leaves nothing of the client in the list of uploads.
LEMMA Safe_DeleteSound ==
  ASSUME NEW S, NEW c \in Clients, NEW x, Sound(S, x),
         NEW R, R = Safe_Delete(S, c)
  PROVE  /\ Sound(R, x) /\ Held(R)
         /\ Only(S, R, c) /\ c \notin ToSet(R.u)
         /\ R.cl[c] = Fresh(c)
         /\ c \notin ToSet(S.u) => R.u = S.u
         /\ R.high = S.high /\ Len(R.u) <= Len(S.u)
  <1>1. S \in States /\ IsInjective(S.u) /\ At(S, c, x) BY DEF Sound
  <1>2. PICK D : D = DropSocket(S, c) OBVIOUS
  <1>3. PICK U : U = RemoveFromUploadQueue(D, c) OBVIOUS
  <1>4. PICK W : W = RemoveFromWaitingQueue(U, c) OBVIOUS
  <1>5. R = [W EXCEPT !.cl[c] = Fresh(c)] BY <1>2, <1>3, <1>4 DEF Safe_Delete
  <1>6. /\ D \in States /\ SameLists(S, D)
        /\ \A d \in Clients \ {c} : D.cl[d] = S.cl[d]
    BY <1>1, <1>2, DropSocketIs
  <1>7. Only(S, D, c) /\ IsInjective(D.u) /\ D.w = S.w /\ D.u = S.u /\ D.high = S.high
    BY <1>1, <1>6, OnlyListsKept DEF SameLists
  <1>8. /\ Only(D, U, c) /\ U.lock /\ U.w = S.w /\ U.high = S.high
        /\ c \notin ToSet(U.u) /\ Len(U.u) <= Len(S.u)
        /\ c \notin ToSet(S.u) => U.u = S.u
    BY <1>3, <1>6, <1>7, RemoveFromUploadQueueIs
  <1>9. U \in States /\ IsInjective(U.u) BY <1>8 DEF Only
  <1>10. /\ Only(U, W, c) /\ W.u = U.u /\ W.high = U.high /\ W.lock = U.lock
         /\ ToSet(W.w) \subseteq ToSet(U.w)
         /\ Once(U.w, c) => Once(W.w, c)
         /\ Once(U.w, c) => c \notin ToSet(W.w)
    BY <1>4, <1>9, RemoveFromWaitingQueueIs
  <1>11. W \in States BY <1>10 DEF Only
  <1>12. Fresh(c) \in ClientStates
    BY UploadConstants DEF Fresh, ClientStates, UploadStates
  <1>13. R = Put(W, c, Fresh(c)) BY <1>5 DEF Put
  <1>14. /\ R \in States /\ SameLists(W, R)
         /\ \A d \in Clients \ {c} : R.cl[d] = W.cl[d]
         /\ R.cl[c] = Fresh(c)
    BY <1>11, <1>12, <1>13, PutClient
  <1>15. /\ R.w = W.w /\ R.u = U.u /\ R.banned = W.banned /\ R.high = S.high /\ R.lock
    BY <1>8, <1>10, <1>14 DEF SameLists
  <1>16. Only(W, R, c)
    <2>1. IsInjective(W.u) BY <1>10 DEF Only
    <2> QED BY <1>10, <1>11, <1>14, <1>15, <2>1, OnlyListsKept
  <1>17. Only(S, R, c) BY <1>7, <1>8, <1>10, <1>16, OnlyTransitive
  <1>18. /\ c \notin bannedInSlot => c \notin ToSet(R.w) /\ Once(R.w, c)
         /\ c \notin Sources => c \notin ToSet(R.w) /\ Once(R.w, c)
    BY <1>1, <1>8, <1>10, <1>15 DEF At, Agree, PlainAgree
  <1>19. At(R, c, x)
    <2>1. /\ R.cl[c].us = "US_NONE" /\ R.cl[c].blocks = 0
          /\ R.cl[c].ds = IF c \in Sources THEN "DS_ONQUEUE" ELSE "DS_NONE"
      BY <1>14 DEF Fresh
    <2>2. c \notin ToSet(R.u) BY <1>8, <1>15
    <2>3. c \notin bannedInSlot => Agree(R, c, x) BY <1>18, <2>1, <2>2 DEF Agree
    <2>4. c \notin Sources => PlainAgree(R, c) BY <1>18, <2>1, <2>2 DEF PlainAgree
    <2> QED BY <2>1, <2>3, <2>4 DEF At
  <1>20. Sound(R, x) BY <1>17, <1>19, SoundStep
  <1>21. Held(R) BY <1>15 DEF Held
  <1> QED BY <1>8, <1>14, <1>15, <1>17, <1>20, <1>21

\* Disconnected and the deletion that may follow keep the invariant, and
\* nobody else is touched.
LEMMA DropClientSound ==
  ASSUME NEW S, NEW c \in Clients, NEW x, Sound(S, x), Held(S),
         NEW R, R = DropClient(S, c)
  PROVE  /\ Sound(R, x) /\ Held(R) /\ Only(S, R, c) /\ NoNewClaim(S, R, c)
         /\ R.w = S.w \/ R.cl[c] = Fresh(c)
         /\ R.high = S.high /\ Len(R.u) <= Len(S.u)
  <1>1. S \in States /\ IsInjective(S.u) BY DEF Sound
  <1>2. PICK D : D = Disconnected(S, c) OBVIOUS
  <1>3. /\ Only(S, D, c) /\ D.high = S.high /\ Len(D.u) <= Len(S.u)
        /\ D.w = S.w /\ SameClaims(S, D, c)
    BY <1>1, <1>2, DisconnectedIs
  <1>4. Sound(D, x) /\ Held(D) BY <1>2, DisconnectedSound
  <1>5. CASE Kept(D, c)
    <2>1. R = D BY <1>2, <1>5 DEF DropClient
    <2> QED BY <1>3, <1>4, <2>1 DEF SameClaims, NoNewClaim
  <1>6. CASE ~Kept(D, c)
    <2>1. R = Safe_Delete(D, c) BY <1>2, <1>6 DEF DropClient
    <2>2. /\ Sound(R, x) /\ Held(R) /\ Only(D, R, c)
          /\ R.high = D.high /\ Len(R.u) <= Len(D.u)
          /\ R.cl[c] = Fresh(c)
      BY <1>4, <2>1, Safe_DeleteSound
    <2>3. Only(S, R, c) BY <1>3, <2>2, OnlyTransitive
    <2>4. Len(S.u) \in Nat /\ Len(D.u) \in Nat /\ Len(R.u) \in Nat
      BY <1>1, <1>3, <2>2, StatesFields, LenProperties DEF Only
    <2>5. Len(R.u) <= Len(S.u) BY <1>3, <2>2, <2>4
    <2>6. NoNewClaim(S, R, c) BY <2>2 DEF Fresh, NoNewClaim
    <2> QED BY <1>3, <2>2, <2>3, <2>5, <2>6
  <1> QED BY <1>5, <1>6

\* A client that the first pass of SortGetBestClient may still come to: it
\* has no slot that the pass would take away.
Removable(S, c) ==
  IF c \in Sources THEN c \in ToSet(S.w) \/ S.cl[c].us = "US_NONE"
                   ELSE c \notin ToSet(S.u)

\* Purging a client of the waiting list keeps the invariant and every slot.
LEMMA PurgeClientSound ==
  ASSUME NEW S, NEW c \in Clients, NEW x, Sound(S, x), Held(S), Removable(S, c),
         NEW R, R = PurgeClient(S, c)
  PROVE  /\ Sound(R, x) /\ Held(R) /\ Only(S, R, c) /\ Removable(R, c)
         /\ R.high = S.high /\ R.u = S.u
         /\ NoNewClaim(S, R, c) /\ (R = S \/ Purged(S, c))
  <1>1. S \in States /\ IsInjective(S.u) /\ At(S, c, x) BY DEF Sound
  <1>2. CASE ~Purged(S, c)
    <2>1. R = S BY <1>2 DEF PurgeClient
    <2> QED BY <1>1, <2>1, OnlyListsKept DEF NoNewClaim
  <1>3. CASE Purged(S, c)
    <2>1. PICK W : W = RemoveFromWaitingQueue(S, c) OBVIOUS
    <2>2. Sound(W, x) /\ Held(W) BY <2>1, RemoveFromWaitingQueueSound
    <2>3. /\ Only(S, W, c) /\ W.u = S.u /\ W.high = S.high
          /\ c \in ToSet(S.w) => W.cl[c].us = "US_NONE"
          /\ c \notin ToSet(S.w) => W = S
          /\ W.cl[c].ds = S.cl[c].ds /\ SameClaims(S, W, c)
      BY <1>1, <2>1, RemoveFromWaitingQueueIs
    <2>4. c \in Sources => W.cl[c].us = "US_NONE" BY <2>3 DEF Removable
    <2>5. c \notin Sources => c \notin ToSet(W.u) BY <2>3 DEF Removable
    <2>6. CASE W.cl[c].sock # "none"
      <3>1. R = W BY <1>3, <2>1, <2>6 DEF PurgeClient
      <3> QED BY <1>3, <2>2, <2>3, <2>4, <2>5, <3>1 DEF Removable, SameClaims, NoNewClaim
    <2>7. CASE W.cl[c].sock = "none"
      <3>1. R = DropClient(W, c) BY <1>3, <2>1, <2>7 DEF PurgeClient
      <3>2. /\ Sound(R, x) /\ Held(R) /\ Only(W, R, c) /\ R.high = W.high
            /\ NoNewClaim(W, R, c)
        BY <2>2, <3>1, DropClientSound
      <3>c. NoNewClaim(S, R, c) BY <2>3, <3>2 DEF SameClaims, NoNewClaim
      <3>3. Only(S, R, c) BY <2>3, <3>2, OnlyTransitive
      <3>4. PICK D : D = Disconnected(W, c) OBVIOUS
      <3>5. W \in States /\ IsInjective(W.u) BY <2>2 DEF Sound
      <3>6. /\ W.cl[c].us # "US_UPLOADING" =>
                 D.u = W.u /\ D.cl[c].us = W.cl[c].us
            /\ c \notin ToSet(W.u) => D.u = W.u
            /\ D.cl[c].ds = IF W.cl[c].ds = "DS_DOWNLOADING" THEN "DS_ONQUEUE" ELSE W.cl[c].ds
        BY <3>4, <3>5, DisconnectedIs
      <3>7. CASE c \in Sources
        <4>1. D.u = W.u /\ D.cl[c].us = "US_NONE" BY <2>4, <3>6, <3>7
        <4>2. W.cl[c].ds \in {"DS_ONQUEUE", "DS_DOWNLOADING"}
          <5>1. W.cl[c] \in ClientStates BY <3>5, StatesFields
          <5>2. W.cl[c].ds # "DS_NONE" BY <2>2, <3>7 DEF Sound, At
          <5> QED BY <5>1, <5>2 DEF ClientStates
        <4>3. D.cl[c].ds = "DS_ONQUEUE" BY <3>6, <4>2
        <4>4. Kept(D, c) BY <4>1, <4>3 DEF Kept
        <4>5. R = D BY <3>1, <3>4, <4>4 DEF DropClient
        <4> QED BY <1>3, <2>3, <3>2, <3>c, <3>3, <3>7, <4>1, <4>5 DEF Removable
      <3>8. CASE c \notin Sources
        <4>1. D.u = W.u BY <2>5, <3>6, <3>8
        <4>2. Sound(D, x) BY <2>2, <3>4, DisconnectedSound
        <4>3. R.u = W.u
          <5>1. CASE Kept(D, c)
            <6>1. R = D BY <3>1, <3>4, <5>1 DEF DropClient
            <6> QED BY <4>1, <6>1
          <5>2. CASE ~Kept(D, c)
            <6>1. R = Safe_Delete(D, c) BY <3>1, <3>4, <5>2 DEF DropClient
            <6>2. c \notin ToSet(D.u) => R.u = D.u BY <4>2, <6>1, Safe_DeleteSound
            <6> QED BY <2>5, <3>8, <4>1, <6>2
          <5> QED BY <5>1, <5>2
        <4> QED BY <1>3, <2>3, <2>5, <3>2, <3>c, <3>3, <3>8, <4>3 DEF Removable
      <3> QED BY <3>7, <3>8
    <2> QED BY <2>6, <2>7
  <1> QED BY <1>2, <1>3

PurgeStep(S, g, n) ==
  g[0] = S /\ \A k \in 1..n : g[k] = PurgeClient(g[k - 1], S.w[k])

\* The loop over a copy of the waiting list is well defined ...
LEMMA PurgeExists ==
  ASSUME NEW S, NEW n \in Nat
  PROVE  \E g : PurgeStep(S, g, n)
  <1> DEFINE T == {m \in Nat : ~\E g : PurgeStep(S, g, m)}
  <1> SUFFICES ASSUME T # {} PROVE FALSE OBVIOUS
  <1>1. PICK m \in T : \A k \in T : m <= k
    <2>1. T \in SUBSET Nat OBVIOUS
    <2> HIDE DEF T
    <2> QED BY <2>1, LeastNat
  <1>2. m # 0
    <2>1. PurgeStep(S, [k \in 0..0 |-> S], 0) BY DEF PurgeStep
    <2> QED BY <2>1
  <1>3. m \in Nat /\ m - 1 \in Nat /\ m - 1 \notin T
    <2>1. m \in Nat /\ m - 1 \in Nat /\ ~(m <= m - 1) BY <1>2
    <2> HIDE DEF T
    <2> QED BY <1>1, <2>1
  <1>4. PICK g : PurgeStep(S, g, m - 1) BY <1>3
  <1> DEFINE h == [k \in 0..m |-> IF k = m THEN PurgeClient(g[m - 1], S.w[m]) ELSE g[k]]
  <1>5. PurgeStep(S, h, m)
    <2>1. h[0] = S BY <1>2, <1>3, <1>4 DEF PurgeStep
    <2>2. ASSUME NEW k \in 1..m PROVE h[k] = PurgeClient(h[k - 1], S.w[k])
      <3>1. CASE k = m
        <4>1. h[m - 1] = g[m - 1] /\ h[m] = PurgeClient(g[m - 1], S.w[m]) BY <1>2, <1>3
        <4> HIDE DEF h
        <4> QED BY <3>1, <4>1
      <3>2. CASE k # m
        <4>1. k \in 1..(m - 1) /\ h[k] = g[k] /\ h[k - 1] = g[k - 1] BY <3>2, <1>3
        <4> HIDE DEF h
        <4> QED BY <4>1, <1>4 DEF PurgeStep
      <3> QED BY <3>1, <3>2
    <2> HIDE DEF h
    <2> QED BY <2>1, <2>2 DEF PurgeStep
  <1> QED BY <1>1, <1>5

\* ... so it purges one client after the other.
LEMMA PurgeDef ==
  ASSUME NEW S \in States
  PROVE  \E g : PurgeAll(S) = g[Len(S.w)] /\ PurgeStep(S, g, Len(S.w))
  <1> DEFINE n == Len(S.w)
             body(g, k) == IF k = 0 THEN S ELSE PurgeClient(g[k - 1], S.w[k])
             turn == CHOOSE g : g = [k \in 0..n |-> body(g, k)]
  <1>0. n \in Nat BY StatesFields, LenProperties
  <1>1. PICK g : PurgeStep(S, g, n)
    <2> HIDE DEF body, turn, n
    <2> QED BY <1>0, PurgeExists
  <1> DEFINE h == [k \in 0..n |-> g[k]]
  <1>2. h = [k \in 0..n |-> body(h, k)]
    <2>1. ASSUME NEW k \in 0..n PROVE h[k] = body(h, k)
      <3>1. CASE k = 0 BY <3>1, <1>1 DEF PurgeStep
      <3>2. CASE k # 0
        <4>1. k \in 1..n /\ k - 1 \in 0..n BY <3>2, <1>0
        <4>2. g[k] = PurgeClient(g[k - 1], S.w[k])
          <5> HIDE DEF n, h, body
          <5> QED BY <4>1, <1>1 DEF PurgeStep
        <4>3. h[k] = g[k] /\ h[k - 1] = g[k - 1] BY <4>1
        <4> HIDE DEF h, n
        <4> QED BY <3>2, <4>2, <4>3
      <3> QED BY <3>1, <3>2
    <2> HIDE DEF body, n
    <2> QED BY <2>1
  <1>3. turn = [k \in 0..n |-> body(turn, k)] BY <1>2, Zenon
  <1>4. PurgeAll(S) = turn[n] BY Zenon DEF PurgeAll
  <1> HIDE DEF turn
  <1>5. PurgeStep(S, turn, n)
    <2>1. \A k \in 0..n : turn[k] = body(turn, k)
      <3> HIDE DEF body, n
      <3> QED BY <1>3
    <2> HIDE DEF n
    <2>2. turn[0] = S BY <2>1, <1>0
    <2>3. ASSUME NEW k \in 1..n PROVE turn[k] = PurgeClient(turn[k - 1], S.w[k])
      <3>1. k \in 0..n /\ k # 0 BY <1>0
      <3> QED BY <3>1, <2>1
    <2> QED BY <2>2, <2>3 DEF PurgeStep
  <1> QED BY <1>4, <1>5

\* Purging takes no slot from anybody.
LEMMA PurgeAllSound ==
  ASSUME NEW S, NEW x, Sound(S, x), Held(S), NEW P, P = PurgeAll(S)
  PROVE  /\ Sound(P, x) /\ Held(P) /\ P.u = S.u /\ P.high = S.high
         /\ \A d \in Clients : NoNewClaim(S, P, d)
         /\ \A d \in ToSet(S.w) : d \in ToSet(P.w) \/ Purged(S, d)
  <1>0. S \in States BY DEF Sound
  <1>1. PICK g : PurgeAll(S) = g[Len(S.w)] /\ PurgeStep(S, g, Len(S.w))
    BY <1>0, PurgeDef
  <1>2. /\ Len(S.w) \in Nat /\ \A k \in 1..Len(S.w) : S.w[k] \in ToSet(S.w)
        /\ ToSet(S.w) \subseteq Clients
    BY <1>0, StatesFields, LenProperties, ToSetBasics
  <1> DEFINE Good(k) == /\ Sound(g[k], x) /\ Held(g[k])
                        /\ g[k].u = S.u /\ g[k].high = S.high
                        /\ \A c \in ToSet(S.w) : Removable(g[k], c)
                        /\ \A d \in Clients : NoNewClaim(S, g[k], d)
                        /\ \A d \in ToSet(S.w) : d \in ToSet(g[k].w) \/ Purged(S, d)
             T == {k \in 0..Len(S.w) : ~Good(k)}
  <1>3. Good(0)
    <2>1. g[0] = S BY <1>1 DEF PurgeStep
    <2>2. ASSUME NEW c \in ToSet(S.w) PROVE Removable(S, c)
      BY <1>2 DEF Removable, Sound, At, PlainAgree
    <2> QED BY <2>1, <2>2 DEF NoNewClaim
  <1>4. ASSUME NEW m \in 1..Len(S.w), Good(m - 1) PROVE Good(m)
    <2>1. PICK c : c = S.w[m] OBVIOUS
    <2>2. c \in ToSet(S.w) /\ c \in Clients BY <1>2, <2>1
    <2>3. g[m] = PurgeClient(g[m - 1], c) BY <1>1, <2>1 DEF PurgeStep
    <2>4. /\ Sound(g[m], x) /\ Held(g[m]) /\ Only(g[m - 1], g[m], c)
          /\ Removable(g[m], c)
          /\ g[m].high = g[m - 1].high /\ g[m].u = g[m - 1].u
          /\ NoNewClaim(g[m - 1], g[m], c)
          /\ g[m] = g[m - 1] \/ Purged(g[m - 1], c)
      BY <1>4, <2>2, <2>3, PurgeClientSound
    <2>5. ASSUME NEW d \in ToSet(S.w), d # c PROVE Removable(g[m], d)
      <3>1. Removable(g[m - 1], d) /\ d \in Clients BY <1>2, <1>4
      <3> QED BY <2>4, <2>5, <3>1 DEF Only, Removable
    <2>6. ASSUME NEW d \in Clients PROVE NoNewClaim(S, g[m], d)
      <3>1. NoNewClaim(S, g[m - 1], d) BY <1>4
      <3>2. d # c => g[m].cl[d] = g[m - 1].cl[d] BY <2>4 DEF Only
      <3> QED BY <2>4, <3>1, <3>2 DEF NoNewClaim
    <2>7. ASSUME NEW d \in ToSet(S.w) PROVE d \in ToSet(g[m].w) \/ Purged(S, d)
      <3>1. d \in ToSet(g[m - 1].w) \/ Purged(S, d) BY <1>4
      <3>2. d # c => (d \in ToSet(g[m - 1].w) => d \in ToSet(g[m].w))
        BY <1>2, <2>4 DEF Only
      <3>3. Purged(g[m - 1], c) => Purged(S, c)
        <4>1. NoNewClaim(S, g[m - 1], c) BY <1>4, <2>2
        <4> QED BY <4>1 DEF Purged, NoNewClaim
      <3> QED BY <2>4, <3>1, <3>2, <3>3
    <2> QED BY <1>4, <2>4, <2>5, <2>6, <2>7
  <1> HIDE DEF Good
  <1>5. T = {}
    <2> SUFFICES ASSUME T # {} PROVE FALSE OBVIOUS
    <2>1. PICK m \in T : \A k \in T : m <= k
      <3>1. T \in SUBSET Nat BY <1>2
      <3> HIDE DEF T
      <3> QED BY <3>1, LeastNat
    <2>2. m \in 1..Len(S.w) BY <1>2, <1>3, <2>1
    <2>3. m - 1 \in 0..Len(S.w) /\ ~(m <= m - 1) BY <1>2, <2>2
    <2>4. m - 1 \notin T
      <3> HIDE DEF T
      <3> QED BY <2>1, <2>3
    <2> QED BY <1>4, <2>1, <2>2, <2>3, <2>4
  <1>6. Good(Len(S.w)) BY <1>2, <1>5
  <1> QED BY <1>1, <1>6 DEF Good

\* A waiting list with no client that was not there, and none twice that was
\* there once.
LEMMA ReorderSound ==
  ASSUME NEW S, NEW x, Sound(S, x), Held(S), NEW w \in Seq(Clients),
         ToSet(w) \subseteq ToSet(S.w), \A c : Once(S.w, c) => Once(w, c),
         NEW R, R = [S EXCEPT !.w = w]
  PROVE  Sound(R, x) /\ Held(R) /\ R.u = S.u /\ R.high = S.high /\ R.w = w /\ R.cl = S.cl
  <1>1. S \in States /\ IsInjective(S.u) BY DEF Sound
  <1>2. /\ R \in States /\ R.w = w /\ R.u = S.u /\ R.cl = S.cl /\ R.lock = S.lock
        /\ R.banned = S.banned /\ R.high = S.high /\ R.dsock = S.dsock
    BY <1>1 DEF States
  <1>3. ASSUME NEW c \in Clients PROVE At(R, c, x)
    <2>1. At(S, c, x) BY DEF Sound
    <2>2. /\ Once(S.w, c) => Once(R.w, c)
          /\ c \in ToSet(R.w) => c \in ToSet(S.w)
      BY <1>2
    <2> QED BY <1>2, <2>1, <2>2 DEF At, Agree, PlainAgree
  <1>4. Sound(R, x) BY <1>1, <1>2, <1>3 DEF Sound
  <1>5. Held(R) BY <1>2 DEF Held
  <1> QED BY <1>2, <1>4, <1>5

\* Sorting invents no client, loses none and doubles none.
LEMMA RankedIs ==
  ASSUME NEW S \in States, NEW order \in Orders(S)
  PROVE  /\ Ranked(S, order) \in Seq(Clients)
         /\ ToSet(Ranked(S, order)) = ToSet(S.w)
         /\ \A c : Once(S.w, c) => Once(Ranked(S, order), c)
  <1>1. S.w \in Seq(Clients) /\ ToSet(S.w) \subseteq Clients BY StatesFields
  <1>2. order \in Seq(ToSet(S.w)) /\ IsInjective(order)
    <2>1. order \in UNION {[1..m -> ToSet(S.w)] : m \in 0..Len(S.w)}
      BY DEF Orders, BoundedSeq, SeqOf
    <2>2. PICK m \in 0..Len(S.w) : order \in [1..m -> ToSet(S.w)] BY <2>1
    <2>3. m \in Nat BY <1>1, LenProperties
    <2>4. order \in Seq(ToSet(S.w)) BY <2>2, <2>3, IsASeq
    <2>5. \A i, j \in DOMAIN order : i # j => order[i] # order[j] BY DEF Orders
    <2> QED BY <2>4, <2>5 DEF IsInjective
  <1>3. order \in Seq(Clients) /\ ToSet(order) \subseteq ToSet(S.w)
    <2>1. ToSet(order) \subseteq ToSet(S.w) BY <1>2, ToSetBasics
    <2>2. order \in [1..Len(order) -> ToSet(S.w)] /\ Len(order) \in Nat
      BY <1>2, LenProperties
    <2>3. order \in [1..Len(order) -> Clients] BY <1>1, <2>2
    <2> QED BY <2>1, <2>2, <2>3, IsASeq
  <1> DEFINE scored == {c \in ToSet(S.w) : ~IsBanned(S, c) /\ FileOf[c] \notin suspended}
                         \cap ToSet(order)
             a == Filter(order, scored)
             b == Filter(S.w, Clients \ scored)
  <1>4. Ranked(S, order) = a \o b BY DEF Ranked
  <1>s. scored \subseteq ToSet(order) /\ scored \subseteq ToSet(S.w) OBVIOUS
  <1> HIDE DEF scored
  <1>5. a \in Seq(Clients) /\ ToSet(a) = ToSet(order) \cap scored /\ IsInjective(a)
    BY <1>2, <1>3, FilterProperties
  <1>6. b \in Seq(Clients) /\ ToSet(b) = ToSet(S.w) \cap (Clients \ scored)
    BY <1>1, FilterProperties
  <1>7. ASSUME NEW c, Once(S.w, c) PROVE Once(a, c) /\ Once(b, c)
    <2>1. Once(b, c) BY <1>1, <1>7, FilterOnce
    <2> HIDE DEF a
    <2> QED BY <1>5, <2>1, InjectiveOnce
  <1> HIDE DEF a, b
  <1>8. a \o b \in Seq(Clients) /\ ToSet(a \o b) = ToSet(a) \cup ToSet(b)
    BY <1>5, <1>6, ConcatProperties, ToSetConcat
  <1>9. ASSUME NEW c, Once(S.w, c) PROVE Once(a \o b, c)
    <2>1. c \notin ToSet(a) \cap ToSet(b) BY <1>5, <1>6
    <2> QED BY <1>5, <1>6, <1>7, <1>9, <2>1, ConcatOnce
  <1>10. ToSet(a) \cup ToSet(b) = ToSet(S.w) BY <1>1, <1>s, <1>5, <1>6
  <1> QED BY <1>4, <1>8, <1>9, <1>10

\* The clients ahead of the best one cannot be contacted.
LEMMA AheadIsLow ==
  ASSUME NEW S \in States, NEW c \in ToSet(S.w),
         \/ BestClient(S) = End
         \/ Position(S.w, c) < Position(S.w, BestClient(S))
  PROVE  c \in LowID
  <1> DEFINE F == {d \in Clients : d \notin LowID \/ IsConnected(S, d)}
             fit == Filter(S.w, F)
  <1> SUFFICES ASSUME c \notin LowID PROVE FALSE OBVIOUS
  <1>1. S.w \in Seq(Clients) /\ ToSet(S.w) \subseteq Clients BY StatesFields
  <1>2. c \in F BY <1>1
  <1>3. BestClient(S) = IF fit = <<>> THEN End ELSE Head(fit) BY DEF BestClient
  <1> HIDE DEF F
  <1>4. fit \in Seq(Clients) /\ ToSet(fit) = ToSet(S.w) \cap F BY <1>1, FilterProperties
  <1>5. fit # <<>>
    <2> HIDE DEF fit
    <2> QED BY <1>2, <1>4, ToSetBasics
  <1>6. PICK k \in 1..Len(S.w) : /\ Head(fit) = S.w[k] /\ S.w[k] \in F
                                 /\ \A j \in 1..(k - 1) : S.w[j] \notin F
    BY <1>1, <1>5, FilterHead
  <1> HIDE DEF fit
  <1>7. BestClient(S) = S.w[k] BY <1>3, <1>5, <1>6
  <1>8. S.w[k] \in ToSet(S.w) BY <1>1, ToSetBasics
  <1>9. S.w[k] # End BY <1>1, <1>8, UploadConstants
  <1>10. Position(S.w, c) < Position(S.w, S.w[k]) BY <1>7, <1>9
  <1>11. /\ Position(S.w, c) \in 1..Len(S.w) /\ S.w[Position(S.w, c)] = c
         /\ Position(S.w, S.w[k]) \in 1..Len(S.w) /\ Position(S.w, S.w[k]) <= k
    BY <1>1, <1>8, PositionIs
  <1>12. Len(S.w) \in Nat BY <1>1, LenProperties
  <1>13. Position(S.w, c) \in 1..(k - 1) BY <1>10, <1>11, <1>12
  <1> QED BY <1>2, <1>6, <1>11, <1>13

\* The second pass of SortGetBestClient only sets flags.
LEMMA MarkedSound ==
  ASSUME NEW S, NEW x, Sound(S, x), Held(S), NEW R, R = Marked(S)
  PROVE  /\ Sound(R, x) /\ Held(R) /\ R.u = S.u /\ R.high = S.high /\ R.w = S.w
         /\ \A c \in Clients : R.cl[c].old = S.cl[c].old
         /\ NextLow(S) => NextLow(R)
  <1>1. S \in States /\ IsInjective(S.u) BY DEF Sound
  <1> DEFINE best == BestClient(S)
             ahead == {c \in ToSet(S.w) :
                         best = End \/ Position(S.w, c) < Position(S.w, best)}
             new(c) == IF c \in ToSet(S.w) THEN [S.cl[c] EXCEPT !.addNext = c \in ahead]
                                           ELSE S.cl[c]
             f == [c \in Clients |-> new(c)]
  <1>2. R = [S EXCEPT !.cl = f] BY DEF Marked
  <1>a. ahead \subseteq LowID BY <1>1, AheadIsLow
  <1> HIDE DEF ahead
  <1>3. ASSUME NEW c \in Clients
        PROVE  /\ f[c] \in ClientStates
               /\ f[c].us = S.cl[c].us /\ f[c].sock = S.cl[c].sock
               /\ f[c].ds = S.cl[c].ds /\ f[c].blocks = S.cl[c].blocks
               /\ f[c].old = S.cl[c].old
               /\ f[c].addNext => c \in ahead \/ S.cl[c].addNext
    <2>1. S.cl[c] \in ClientStates BY <1>1, StatesFields
    <2>2. f[c] = new(c) OBVIOUS
    <2>3. (c \in ahead) \in BOOLEAN OBVIOUS
    <2> HIDE DEF f
    <2>4. CASE c \in ToSet(S.w) BY <2>1, <2>2, <2>3, <2>4 DEF ClientStates
    <2>5. CASE c \notin ToSet(S.w) BY <2>1, <2>2, <2>5
    <2> QED BY <2>4, <2>5
  <1>4. f \in [Clients -> ClientStates]
    <2>1. f = [c \in Clients |-> f[c]] OBVIOUS
    <2> HIDE DEF f
    <2> QED BY <1>3, <2>1
  <1> HIDE DEF f
  <1>5. /\ R \in States /\ R.w = S.w /\ R.u = S.u /\ R.cl = f /\ R.lock = S.lock
        /\ R.banned = S.banned /\ R.high = S.high /\ R.dsock = S.dsock
    BY <1>1, <1>2, <1>4 DEF States
  <1>6. ASSUME NEW c \in Clients PROVE At(R, c, x)
    <2>1. At(S, c, x) BY DEF Sound
    <2> QED BY <1>3, <1>5, <2>1 DEF At, Agree, PlainAgree
  <1>7. Sound(R, x) BY <1>1, <1>5, <1>6 DEF Sound
  <1>8. Held(R)
    <2>1. ToSet(S.u) \subseteq Clients BY <1>1, StatesFields
    <2> QED BY <1>3, <1>5, <2>1 DEF Held
  <1>9. NextLow(S) => NextLow(R) BY <1>a, <1>3, <1>5 DEF NextLow
  <1> QED BY <1>3, <1>5, <1>7, <1>8, <1>9

\* Sorting the waiting list changes no slot.
LEMMA SortSound ==
  ASSUME NEW S, NEW x, Sound(S, x), Held(S), NEW R \in SortGetBestClient(S)
  PROVE  Sound(R, x) /\ Held(R) /\ OnlyPurged(S, R)
  <1> SUFFICES /\ Sound(R, x) /\ Held(R) /\ R.u = S.u /\ R.high = S.high
               /\ \A d \in Clients : R.cl[d].old => S.cl[d].old
               /\ NextLow(S) => NextLow(R)
               /\ \A d \in ToSet(S.w) : d \in ToSet(R.w) \/ Purged(S, d)
    BY DEF OnlyPurged
  <1>1. PICK P : P = PurgeAll(S) OBVIOUS
  <1>2. PICK order \in Orders(P) : R = Marked([P EXCEPT !.w = Ranked(P, order)])
    BY <1>1 DEF SortGetBestClient, Sorts
  <1>3. /\ Sound(P, x) /\ Held(P) /\ P.u = S.u /\ P.high = S.high
        /\ \A d \in Clients : NoNewClaim(S, P, d)
        /\ \A d \in ToSet(S.w) : d \in ToSet(P.w) \/ Purged(S, d)
    BY <1>1, PurgeAllSound
  <1>4. P \in States BY <1>3 DEF Sound
  <1>5. PICK Q : Q = [P EXCEPT !.w = Ranked(P, order)] OBVIOUS
  <1>6. /\ Sound(Q, x) /\ Held(Q) /\ Q.u = P.u /\ Q.high = P.high
        /\ Q.cl = P.cl /\ ToSet(Q.w) = ToSet(P.w)
    BY <1>3, <1>4, <1>5, RankedIs, ReorderSound
  <1>7. R = Marked(Q) BY <1>2, <1>5
  <1>8. /\ Sound(R, x) /\ Held(R) /\ R.u = Q.u /\ R.high = Q.high /\ R.w = Q.w
        /\ \A d \in Clients : R.cl[d].old = Q.cl[d].old
        /\ NextLow(Q) => NextLow(R)
    BY <1>6, <1>7, MarkedSound
  <1>9. NextLow(S) => NextLow(Q) BY <1>3, <1>6 DEF NextLow, NoNewClaim
  <1>10. \A d \in Clients : R.cl[d].old => S.cl[d].old BY <1>3, <1>6, <1>8 DEF NoNewClaim
  <1> QED BY <1>3, <1>6, <1>8, <1>9, <1>10

\* The best client is one that waits.
LEMMA BestClientIs ==
  ASSUME NEW S \in States, BestClient(S) # End
  PROVE  BestClient(S) \in ToSet(S.w) /\ BestClient(S) \in Clients
  <1> DEFINE fit == Filter(S.w, {c \in Clients : c \notin LowID \/ IsConnected(S, c)})
  <1>1. S.w \in Seq(Clients) /\ ToSet(S.w) \subseteq Clients BY StatesFields
  <1>2. fit \in Seq(Clients) /\ ToSet(fit) \subseteq ToSet(S.w) BY <1>1, FilterProperties
  <1>3. BestClient(S) = IF fit = <<>> THEN End ELSE Head(fit) BY DEF BestClient
  <1> HIDE DEF fit
  <1>4. fit # <<>> /\ BestClient(S) = Head(fit) BY <1>3
  <1>5. Head(fit) \in ToSet(fit)
    <2>1. Len(fit) \in Nat /\ Len(fit) # 0 BY <1>2, <1>4, EmptySeq, LenProperties
    <2>2. 1 \in 1..Len(fit) /\ Head(fit) = fit[1] BY <1>2, <1>4, <2>1, HeadTailProperties
    <2> QED BY <1>2, <2>2, ToSetBasics
  <1> QED BY <1>1, <1>2, <1>4, <1>5

\* A client without a slot gets the last place of the list.
LEMMA PushBackIs ==
  ASSUME NEW S \in States, NEW c \in Clients, IsInjective(S.u), c \notin ToSet(S.u),
         NEW R, R = PushBack(S, c)
  PROVE  /\ Only(S, R, c) /\ R.lock
         /\ R.w = S.w /\ R.cl = S.cl /\ R.banned = S.banned /\ R.high = S.high
         /\ ToSet(R.u) = ToSet(S.u) \cup {c} /\ Len(R.u) = Len(S.u) + 1
  <1> DEFINE u == Append(S.u, c)
  <1>1. S.u \in Seq(Clients) BY StatesFields
  <1>2. /\ u \in Seq(Clients) /\ ToSet(u) = ToSet(S.u) \cup {c}
        /\ Len(u) = Len(S.u) + 1 /\ IsInjective(u)
    BY <1>1, AppendProperties, ToSetAppend
  <1>3. R = [S EXCEPT !.u = u, !.lock = TRUE] BY DEF PushBack
  <1> HIDE DEF u
  <1>4. /\ R \in States /\ R.u = u /\ R.lock /\ R.w = S.w /\ R.cl = S.cl
        /\ R.banned = S.banned /\ R.high = S.high
    BY <1>2, <1>3 DEF States
  <1>5. Only(S, R, c) BY <1>2, <1>4 DEF Only
  <1> QED BY <1>2, <1>4, <1>5

\* Giving a client a slot, which it must not be waiting for any more.
LEMMA StartUploadSound ==
  ASSUME NEW S, NEW c \in Clients, Sound(S, End), Held(S),
         c \notin bannedInSlot \/ c \notin Sources => c \notin ToSet(S.w),
         NEW refused \in BOOLEAN, NEW R, R = StartUpload(S, c, refused)
  PROVE  /\ Sound(R, End) /\ Held(R) /\ Started(S, R, c)
         /\ Len(R.u) <= Len(S.u) + 1
         /\ IsConnected(S, c) => ToSet(S.u) \subseteq ToSet(R.u)
  <1> SUFFICES /\ Sound(R, End) /\ Held(R) /\ R.high = S.high
               /\ Len(R.u) <= Len(S.u) + 1
               /\ IsConnected(S, c) => ToSet(S.u) \subseteq ToSet(R.u)
               /\ Only(S, R, c) /\ NoNewClaim(S, R, c)
               /\ c \in ToSet(R.u) \/ R.cl[c] = Fresh(c)
    BY DEF Started
  <1>1. S \in States /\ IsInjective(S.u) /\ At(S, c, End) BY DEF Sound
  <1>0. S.u \in Seq(Clients) /\ Len(S.u) \in Nat BY <1>1, StatesFields, LenProperties
  <1>2. CASE IsDownloading(S, c)
    <2>1. R = S BY <1>2 DEF StartUpload
    <2>2. Only(S, R, c) BY <1>1, <2>1, OnlyListsKept
    <2> QED BY <1>0, <1>2, <2>1, <2>2 DEF IsDownloading, NoNewClaim
  <1>3. CASE ~IsDownloading(S, c) /\ IsConnected(S, c)
    <2>1. PICK C : C = SetUploadState(S, c, "US_UPLOADING") OBVIOUS
    <2>2. "US_UPLOADING" \in UploadStates BY DEF UploadStates
    <2>3. /\ C \in States /\ SameLists(S, C)
          /\ \A d \in Clients \ {c} : C.cl[d] = S.cl[d]
          /\ C.cl[c].us = "US_UPLOADING" /\ C.cl[c].sock = S.cl[c].sock
          /\ C.cl[c].ds = S.cl[c].ds /\ SameClaims(S, C, c)
      BY <1>1, <2>1, <2>2, SetUploadStateIs
    <2>4. /\ Only(S, C, c) /\ IsInjective(C.u) /\ C.u = S.u /\ C.w = S.w
          /\ C.high = S.high
      BY <1>1, <2>3, OnlyListsKept DEF SameLists
    <2>5. R = PushBack(C, c) BY <1>3, <2>1 DEF StartUpload
    <2>6. /\ Only(C, R, c) /\ R.lock /\ R.w = S.w /\ R.cl = C.cl /\ R.high = S.high
          /\ ToSet(R.u) = ToSet(S.u) \cup {c} /\ Len(R.u) = Len(S.u) + 1
      BY <1>3, <2>3, <2>4, <2>5, PushBackIs DEF IsDownloading
    <2>7. Only(S, R, c) BY <2>4, <2>6, OnlyTransitive
    <2>8. R.cl[c].sock = "up" BY <1>3, <2>3, <2>6 DEF IsConnected
    <2>9. At(R, c, End)
      BY <1>1, <2>3, <2>6, <2>8 DEF At, Agree, PlainAgree
    <2>10. Sound(R, End) BY <2>7, <2>9, SoundStep
    <2>11. NoNewClaim(S, R, c) BY <2>3, <2>6 DEF SameClaims, NoNewClaim
    <2> QED BY <1>0, <2>6, <2>7, <2>10, <2>11 DEF Held
  <1>4. CASE ~IsDownloading(S, c) /\ ~IsConnected(S, c)
    <2>1. PICK C : C = SetUploadState(S, c, "US_CONNECTING") OBVIOUS
    <2>2. "US_CONNECTING" \in UploadStates BY DEF UploadStates
    <2>3. /\ C \in States /\ SameLists(S, C) /\ C.dsock = S.dsock
          /\ \A d \in Clients \ {c} : C.cl[d] = S.cl[d]
          /\ C.cl[c].us = "US_CONNECTING" /\ C.cl[c].sock = S.cl[c].sock
          /\ C.cl[c].ds = S.cl[c].ds /\ C.cl[c].blocks = S.cl[c].blocks
          /\ SameClaims(S, C, c)
      BY <1>1, <2>1, <2>2, SetUploadStateIs
    <2>4. /\ Only(S, C, c) /\ IsInjective(C.u) /\ C.u = S.u /\ C.w = S.w
          /\ C.high = S.high /\ C.lock = S.lock
      BY <1>1, <2>3, OnlyListsKept DEF SameLists
    <2>5. c \notin ToSet(S.u) BY <1>4 DEF IsDownloading
    <2>6. At(C, c, End)
      <3>1. c \notin bannedInSlot => Agree(C, c, End)
        BY <1>1, <2>3, <2>4, <2>5 DEF At, Agree
      <3>2. c \notin Sources => PlainAgree(C, c)
        BY <1>1, <2>3, <2>4, <2>5 DEF At, PlainAgree
      <3> QED BY <1>1, <2>3, <2>4, <2>5, <3>1, <3>2 DEF At
    <2>7. Sound(C, End) BY <2>4, <2>6, SoundStep
    <2>8. Held(C)
      <3>1. ToSet(S.u) \subseteq Clients BY <1>1, StatesFields
      <3>2. \A d \in Clients : C.cl[d].sock = S.cl[d].sock BY <2>3
      <3> QED BY <2>3, <2>4, <3>1, <3>2 DEF Held
    <2>9. CASE ~refused /\ c \notin LowID
      <3>1. PICK D : D = DropSocket(C, c) OBVIOUS
      <3>2. /\ D \in States /\ SameLists(C, D)
            /\ \A d \in Clients \ {c} : D.cl[d] = C.cl[d]
            /\ D.cl[c].us = C.cl[c].us /\ D.cl[c].ds = C.cl[c].ds
            /\ SameClaims(C, D, c)
        BY <2>3, <3>1, DropSocketIs
      <3> DEFINE k == [D.cl[c] EXCEPT !.sock = "connecting"]
      <3>3. PICK E : E = Put(D, c, k) OBVIOUS
      <3>4. R = PushBack(E, c) BY <1>4, <2>1, <2>9, <3>1, <3>3 DEF StartUpload, Put
      <3>5. D.cl[c] \in ClientStates BY <3>2, StatesFields
      <3>6. /\ k \in ClientStates /\ k.us = D.cl[c].us /\ k.ds = D.cl[c].ds
            /\ k.sock = "connecting"
            /\ k.addNext = D.cl[c].addNext /\ k.old = D.cl[c].old
        BY <3>5 DEF ClientStates
      <3> HIDE DEF k
      <3>7. /\ E \in States /\ SameLists(D, E)
            /\ \A d \in Clients \ {c} : E.cl[d] = D.cl[d]
            /\ E.cl[c] = k
        BY <3>2, <3>3, <3>6, PutClient
      <3>8. /\ E.w = S.w /\ E.u = S.u /\ E.high = S.high /\ E.banned = S.banned
        BY <2>3, <3>2, <3>7 DEF SameLists
      <3>9. \A d \in Clients \ {c} : E.cl[d] = S.cl[d] BY <2>3, <3>2, <3>7
      <3>10. Only(S, E, c) BY <1>1, <3>7, <3>8, <3>9, OnlyListsKept
      <3>11. /\ Only(E, R, c) /\ R.lock /\ R.w = S.w /\ R.cl = E.cl /\ R.high = S.high
             /\ ToSet(R.u) = ToSet(S.u) \cup {c} /\ Len(R.u) = Len(S.u) + 1
        BY <1>1, <2>5, <3>4, <3>7, <3>8, PushBackIs
      <3>12. Only(S, R, c) BY <3>10, <3>11, OnlyTransitive
      <3>13. /\ R.cl[c].us = "US_CONNECTING" /\ R.cl[c].sock = "connecting"
             /\ R.cl[c].ds = S.cl[c].ds
        BY <2>3, <3>2, <3>6, <3>7, <3>11
      <3>14. At(R, c, End)
        BY <1>1, <3>11, <3>13 DEF At, Agree, PlainAgree
      <3>15. Sound(R, End) BY <3>12, <3>14, SoundStep
      <3>16. NoNewClaim(S, R, c)
        BY <2>3, <3>2, <3>6, <3>7, <3>11 DEF SameClaims, NoNewClaim
      <3> QED BY <1>0, <1>4, <3>11, <3>12, <3>15, <3>16 DEF Held
    <2>10. CASE ~(~refused /\ c \notin LowID)
      <3>1. PICK D : D = Disconnected(C, c) OBVIOUS
      <3>2. Sound(D, End) /\ Held(D) BY <2>7, <2>8, <3>1, DisconnectedSound
      <3>3. /\ Only(C, D, c) /\ D.w = S.w /\ D.high = S.high /\ D.u = S.u
            /\ D.cl[c].us = "US_CONNECTING" /\ D.cl[c].sock = "none"
            /\ SameClaims(C, D, c)
        BY <2>3, <2>4, <3>1, DisconnectedIs
      <3>4. D \in States /\ IsInjective(D.u) /\ At(D, c, End) BY <3>2 DEF Sound
      <3>5. CASE Kept(D, c)
        <4>1. R = PushBack(D, c) BY <1>4, <2>1, <2>10, <3>1, <3>5 DEF StartUpload
        <4>2. /\ Only(D, R, c) /\ R.lock /\ R.w = S.w /\ R.cl = D.cl /\ R.high = S.high
              /\ ToSet(R.u) = ToSet(S.u) \cup {c} /\ Len(R.u) = Len(S.u) + 1
          BY <2>5, <3>3, <3>4, <4>1, PushBackIs
        <4>3. At(R, c, End)
          BY <3>3, <3>4, <4>2 DEF At, Agree, PlainAgree
        <4>4. Sound(R, End) BY <3>2, <4>2, <4>3, SoundStep
        <4>5. Only(S, R, c) BY <2>4, <3>3, <4>2, OnlyTransitive
        <4>6. NoNewClaim(S, R, c) BY <2>3, <3>3, <4>2 DEF SameClaims, NoNewClaim
        <4> QED BY <1>0, <1>4, <4>2, <4>4, <4>5, <4>6 DEF Held
      <3>6. CASE ~Kept(D, c)
        <4>1. R = Safe_Delete(D, c) BY <1>4, <2>1, <2>10, <3>1, <3>6 DEF StartUpload
        <4>2. /\ Sound(R, End) /\ Held(R) /\ R.high = S.high /\ Len(R.u) <= Len(S.u)
              /\ Only(D, R, c) /\ R.cl[c] = Fresh(c)
          BY <3>2, <3>3, <4>1, Safe_DeleteSound
        <4>3. Len(R.u) \in Nat BY <4>2, StatesFields, LenProperties DEF Sound
        <4>4. Len(R.u) <= Len(S.u) + 1 BY <1>0, <4>2, <4>3
        <4>5. Only(S, R, c) BY <2>4, <3>3, <4>2, OnlyTransitive
        <4>6. NoNewClaim(S, R, c) BY <4>2 DEF Fresh, NoNewClaim
        <4> QED BY <1>4, <4>2, <4>4, <4>5, <4>6
      <3> QED BY <3>5, <3>6
    <2> QED BY <2>9, <2>10
  <1> QED BY <1>2, <1>3, <1>4

\* lastupslotHighID is no part of what the invariant says of the clients.
LEMMA SetHighSound ==
  ASSUME NEW S, NEW x, Sound(S, x), Held(S), NEW b \in BOOLEAN,
         NEW R, R = [S EXCEPT !.high = b]
  PROVE  /\ Sound(R, x) /\ Held(R) /\ R.high = b
         /\ R.u = S.u /\ R.w = S.w /\ R.cl = S.cl
  <1>1. S \in States /\ IsInjective(S.u) BY DEF Sound
  <1>2. /\ R \in States /\ R.high = b /\ R.u = S.u /\ R.w = S.w /\ R.cl = S.cl
        /\ R.banned = S.banned /\ R.dsock = S.dsock /\ R.lock = S.lock
    BY <1>1 DEF States
  <1>3. ASSUME NEW c \in Clients PROVE At(R, c, x)
    <2>1. At(S, c, x) BY DEF Sound
    <2> QED BY <1>2, <2>1 DEF At, Agree, PlainAgree
  <1>4. Sound(R, x) BY <1>1, <1>2, <1>3 DEF Sound
  <1>5. Held(R) BY <1>2 DEF Held
  <1> QED BY <1>2, <1>4, <1>5

\* A client's record may change in the fields the invariant does not read.
LEMMA QuietPutSound ==
  ASSUME NEW S, NEW x, NEW c \in Clients, Sound(S, x), Held(S), NEW k \in ClientStates,
         k.us = S.cl[c].us, k.sock = S.cl[c].sock, k.ds = S.cl[c].ds,
         k.blocks = S.cl[c].blocks,
         NEW R, R = Put(S, c, k)
  PROVE  /\ Sound(R, x) /\ Held(R) /\ SameLists(S, R) /\ R.cl[c] = k
         /\ \A d \in Clients \ {c} : R.cl[d] = S.cl[d]
  <1>1. S \in States /\ IsInjective(S.u) BY DEF Sound
  <1>2. /\ R \in States /\ SameLists(S, R) /\ R.dsock = S.dsock
        /\ \A d \in Clients \ {c} : R.cl[d] = S.cl[d]
        /\ R.cl[c] = k
    BY <1>1, PutClient
  <1>3. /\ R.w = S.w /\ R.u = S.u /\ R.banned = S.banned /\ R.lock = S.lock
    BY <1>2 DEF SameLists
  <1>4. Only(S, R, c) BY <1>1, <1>2, <1>3, OnlyListsKept
  <1>5. At(R, c, x)
    <2>1. At(S, c, x) BY DEF Sound
    <2> QED BY <1>2, <1>3, <2>1 DEF At, Agree, PlainAgree
  <1>6. Sound(R, x) BY <1>4, <1>5, SoundStep
  <1>7. Held(R)
    <2>1. ToSet(S.u) \subseteq Clients BY <1>1, StatesFields
    <2>2. \A d \in Clients : R.cl[d].sock = S.cl[d].sock BY <1>2
    <2> QED BY <1>2, <1>3, <2>1, <2>2 DEF Held
  <1> QED BY <1>2, <1>6, <1>7

\* What happened before a handler that keeps the places, when it took nobody
\* off the list but those it purged.
LEMMA PlacesKeptBefore ==
  ASSUME NEW S, NEW M, NEW R, ToSet(S.w) \subseteq Clients,
         \A d \in ToSet(S.w) : d \in ToSet(M.w) \/ Purged(S, d),
         \A d \in Clients : M.cl[d].old => S.cl[d].old,
         PlacesKept(M, R)
  PROVE  PlacesKept(S, R)
  BY DEF PlacesKept, Excused, Purged

\* AddUpNextClient gives the best client the free slot.
LEMMA TakeBestSound ==
  ASSUME NEW S, Sound(S, End), Held(S), Len(S.u) < MaxSlots, NEW refused \in BOOLEAN,
         NEW R, R = TakeBest(S, refused)
  PROVE  /\ Sound(R, End) /\ Held(R) /\ Len(R.u) <= MaxSlots
         /\ PlacesKept(S, R) /\ (NextLow(S) => NextLow(R))
  <1>1. S \in States /\ IsInjective(S.u) BY DEF Sound
  <1>2. PICK c : c = BestClient(S) OBVIOUS
  <1>3. Len(S.u) \in Nat BY <1>1, StatesFields, LenProperties
  <1>4. CASE c = End
    <2>1. R = S BY <1>2, <1>4 DEF TakeBest
    <2> QED BY <1>3, <2>1, UploadConstants DEF PlacesKept
  <1>5. CASE c # End
    <2>1. c \in Clients /\ c \in ToSet(S.w) BY <1>1, <1>2, <1>5, BestClientIs
    <2>2. PICK W : W = RemoveFromWaitingQueue(S, c) OBVIOUS
    <2>3. PICK H : H = [W EXCEPT !.high = TRUE] OBVIOUS
    <2>4. R = StartUpload(H, c, refused) BY <1>2, <1>5, <2>2, <2>3 DEF TakeBest
    <2>5. /\ Sound(W, End) /\ Held(W)
          /\ c \notin bannedInSlot \/ c \notin Sources => c \notin ToSet(W.w)
      BY <2>1, <2>2, RemoveFromWaitingQueueSound
    <2>6. W.u = S.u /\ Only(S, W, c) /\ SameClaims(S, W, c)
      BY <1>1, <2>1, <2>2, RemoveFromWaitingQueueIs
    <2>7. Sound(H, End) /\ Held(H) /\ H.u = W.u /\ H.w = W.w /\ H.cl = W.cl
      BY <2>3, <2>5, SetHighSound
    <2>8. Sound(R, End) /\ Held(R) /\ Started(H, R, c) /\ Len(R.u) <= Len(H.u) + 1
      BY <2>1, <2>4, <2>5, <2>7, StartUploadSound
    <2>9. Len(R.u) \in Nat BY <2>8, StatesFields, LenProperties DEF Sound
    <2>10. Len(R.u) <= MaxSlots BY <1>3, <2>6, <2>7, <2>8, <2>9, UploadConstants
    <2>11. PlacesKept(S, R)
      <3>1. \A d \in Clients \ {c} : d \in ToSet(S.w) => d \in ToSet(R.w)
        BY <2>6, <2>7, <2>8 DEF Only, Started
      <3>2. ToSet(S.w) \subseteq Clients BY <1>1, StatesFields
      <3> QED BY <2>8, <3>1, <3>2 DEF PlacesKept, Excused, Started
    <2>12. NextLow(S) => NextLow(R)
      <3>1. \A d \in Clients : R.cl[d].addNext => S.cl[d].addNext
        BY <2>6, <2>7, <2>8 DEF Only, SameClaims, NoNewClaim, Started
      <3> QED BY <3>1 DEF NextLow
    <2> QED BY <2>8, <2>10, <2>11, <2>12
  <1> QED BY <1>4, <1>5

\* AddUpNextClient(client) adds one slot at most.
LEMMA DirectAddSound ==
  ASSUME NEW S, NEW c \in Clients, Sound(S, End), Held(S),
         c \notin bannedInSlot \/ c \notin Sources => c \notin ToSet(S.w),
         NEW refused \in BOOLEAN, NEW R, R = DirectAdd(S, c, refused)
  PROVE  /\ Sound(R, End) /\ Held(R)
         /\ Len(R.u) <= Len(S.u) + 1
         /\ IsConnected(S, c) => ToSet(S.u) \subseteq ToSet(R.u)
         /\ \/ Started(S, R, c)
            \/ R = S /\ (FileOf[c] \in suspended \/ FileOf[c] \notin shared)
  <1>1. Len(S.u) \in Nat BY StatesFields, LenProperties DEF Sound
  <1>2. CASE FileOf[c] \in suspended \/ FileOf[c] \notin shared
    <2>1. R = S BY <1>2 DEF DirectAdd
    <2> QED BY <1>1, <1>2, <2>1
  <1>3. CASE ~(FileOf[c] \in suspended \/ FileOf[c] \notin shared)
    <2>1. R = StartUpload(S, c, refused) BY <1>3 DEF DirectAdd
    <2> QED BY <2>1, StartUploadSound
  <1> QED BY <1>2, <1>3

\* The LowID client whose turn has come gets the extra slot.
LEMMA TakesSound ==
  ASSUME NEW S, NEW c \in Clients, Sound(S, End), Held(S), ExtraSlotFree(S),
         NEW refused \in BOOLEAN, NEW R, R = Takes(S, c, refused)
  PROVE  /\ Sound(R, End) /\ Held(R) /\ SlotsKept(R)
         /\ IsConnected(S, c) => ToSet(S.u) \subseteq ToSet(R.u)
         /\ c \in LowID => PlacesKept(S, R)
         /\ NextLow(S) => NextLow(R)
  <1>1. S \in States /\ IsInjective(S.u) BY DEF Sound
  <1>2. Len(S.u) \in Nat BY <1>1, StatesFields, LenProperties
  <1> DEFINE k == [S.cl[c] EXCEPT !.addNext = FALSE]
  <1>3. PICK A : A = Put(S, c, k) OBVIOUS
  <1>4. PICK W : W = RemoveFromWaitingQueue(A, c) OBVIOUS
  <1>5. PICK D : D = DirectAdd(W, c, refused) OBVIOUS
  <1>6. R = [D EXCEPT !.high = FALSE] BY <1>3, <1>4, <1>5 DEF Takes, Put
  <1>7. S.cl[c] \in ClientStates BY <1>1, StatesFields
  <1>8. /\ k \in ClientStates /\ k.us = S.cl[c].us /\ k.sock = S.cl[c].sock
        /\ k.ds = S.cl[c].ds /\ k.blocks = S.cl[c].blocks
        /\ k.addNext = FALSE /\ k.old = S.cl[c].old
    BY <1>7 DEF ClientStates
  <1> HIDE DEF k
  <1>9. /\ Sound(A, End) /\ Held(A) /\ SameLists(S, A) /\ A.cl[c] = k
        /\ \A d \in Clients \ {c} : A.cl[d] = S.cl[d]
    BY <1>3, <1>8, QuietPutSound
  <1>10. /\ Sound(W, End) /\ Held(W)
         /\ c \notin bannedInSlot \/ c \notin Sources => c \notin ToSet(W.w)
    BY <1>4, <1>9, RemoveFromWaitingQueueSound
  <1>11. A \in States /\ IsInjective(A.u) BY <1>9 DEF Sound
  <1>12. W.u = S.u /\ W.cl[c].sock = S.cl[c].sock
    <2>1. W.u = A.u /\ W.cl[c].sock = A.cl[c].sock
      BY <1>4, <1>11, RemoveFromWaitingQueueIs
    <2> QED BY <1>8, <1>9, <2>1 DEF SameLists
  <1>13. /\ Sound(D, End) /\ Held(D) /\ Len(D.u) <= Len(W.u) + 1
         /\ IsConnected(W, c) => ToSet(W.u) \subseteq ToSet(D.u)
         /\ \/ Started(W, D, c)
            \/ D = W /\ (FileOf[c] \in suspended \/ FileOf[c] \notin shared)
    BY <1>5, <1>10, DirectAddSound
  <1>14. /\ Sound(R, End) /\ Held(R) /\ ~R.high /\ R.u = D.u
         /\ R.w = D.w /\ R.cl = D.cl
    BY <1>6, <1>13, SetHighSound
  <1>15. Len(S.u) <= MaxSlots BY <1>2, UploadConstants DEF ExtraSlotFree
  <1>16. Len(R.u) \in Nat BY <1>14, StatesFields, LenProperties DEF Sound
  <1>17. SlotsKept(R)
    BY <1>2, <1>12, <1>13, <1>14, <1>15, <1>16, UploadConstants DEF SlotsKept
  <1>18. Only(A, W, c) /\ SameClaims(A, W, c)
    BY <1>4, <1>11, RemoveFromWaitingQueueIs
  <1>19. ASSUME NEW d \in Clients \ {c}, d \in ToSet(S.w) PROVE d \in ToSet(R.w)
    <2>1. d \in ToSet(W.w) BY <1>9, <1>18, <1>19 DEF Only, SameLists
    <2> QED BY <1>13, <1>14, <2>1 DEF Started, Only
  <1>20. ASSUME c \in LowID PROVE PlacesKept(S, R)
    <2>1. ToSet(S.w) \subseteq Clients BY <1>1, StatesFields
    <2>2. Excused(S, R, c) BY <1>13, <1>14, <1>20 DEF Started, Excused
    <2> QED BY <1>19, <2>1, <2>2 DEF PlacesKept
  <1>21. NextLow(S) => NextLow(R)
    <2>1. \A d \in Clients : W.cl[d].addNext => S.cl[d].addNext
      BY <1>8, <1>9, <1>18 DEF Only, SameClaims
    <2>2. \A d \in Clients : R.cl[d].addNext => W.cl[d].addNext
      BY <1>13, <1>14 DEF Started, Only, NoNewClaim
    <2> QED BY <2>1, <2>2 DEF NextLow
  <1> QED BY <1>12, <1>13, <1>14, <1>17, <1>20, <1>21 DEF IsConnected

\* Joining the waiting list, with the sort that follows.
LEMMA JoinsSound ==
  ASSUME NEW S, NEW c \in Clients, Sound(S, End), Held(S), c \notin ToSet(S.w),
         c \in ToSet(S.u) => c \in bannedInSlot /\ c \in Sources,
         NEW R \in Joins(S, c)
  PROVE  /\ Sound(R, End) /\ Held(R) /\ R.u = S.u /\ R.high = S.high
         /\ PlacesKept(S, R) /\ (NextLow(S) => NextLow(R))
  <1>1. S \in States /\ IsInjective(S.u) /\ At(S, c, End) BY DEF Sound
  <1>2. PICK A : A = [S EXCEPT !.w = Append(S.w, c)] OBVIOUS
  <1>3. PICK Q \in SortGetBestClient(A) : R = SetUploadState(Q, c, "US_ONUPLOADQUEUE")
    BY <1>2 DEF Joins
  <1>4. S.w \in Seq(Clients) BY <1>1, StatesFields
  <1>5. /\ Append(S.w, c) \in Seq(Clients)
        /\ ToSet(Append(S.w, c)) = ToSet(S.w) \cup {c}
        /\ \A d : Once(S.w, d) => Once(Append(S.w, c), d)
    BY <1>4, AppendProperties, ToSetAppend, AppendOnce
  <1>6. Once(S.w, c) BY <1>1, <1>4, ToSetBasics, LenProperties DEF Once
  <1>7. /\ A \in States /\ A.w = Append(S.w, c) /\ A.u = S.u /\ A.cl = S.cl
        /\ A.banned = S.banned /\ A.high = S.high /\ A.dsock = S.dsock /\ A.lock = S.lock
    BY <1>1, <1>2, <1>5 DEF States
  <1>8. Only(S, A, c) BY <1>1, <1>5, <1>7 DEF Only
  <1>9. At(A, c, c)
    <2>1. Once(A.w, c) BY <1>5, <1>6, <1>7
    <2>2. c \notin bannedInSlot => Agree(A, c, c)
      BY <1>1, <1>7, <2>1 DEF At, Agree
    <2>3. c \notin Sources => PlainAgree(A, c)
      BY <1>1, <1>7, <2>1 DEF At, PlainAgree
    <2> QED BY <1>1, <1>7, <2>2, <2>3 DEF At
  <1>10. Sound(S, c)
    <2>1. ASSUME NEW d \in Clients PROVE At(S, d, c)
      <3>1. At(S, d, End) BY DEF Sound
      <3> QED BY <3>1, UploadConstants DEF At, Agree
    <2> QED BY <2>1 DEF Sound
  <1>11. Sound(A, c) BY <1>8, <1>9, <1>10, SoundStep
  <1>12. Held(A) BY <1>7 DEF Held
  <1>13. /\ Sound(Q, c) /\ Held(Q) /\ Q.u = S.u /\ Q.high = S.high
         /\ NextLow(A) => NextLow(Q)
         /\ \A d \in ToSet(A.w) : d \in ToSet(Q.w) \/ Purged(A, d)
    <2>1. Sound(Q, c) /\ Held(Q) /\ OnlyPurged(A, Q) BY <1>3, <1>11, <1>12, SortSound
    <2> QED BY <1>7, <2>1 DEF OnlyPurged
  <1>14. Q \in States /\ IsInjective(Q.u) /\ At(Q, c, c) BY <1>13 DEF Sound
  <1>15. "US_ONUPLOADQUEUE" \in UploadStates BY DEF UploadStates
  <1>16. /\ R \in States /\ SameLists(Q, R) /\ R.dsock = Q.dsock
         /\ \A d \in Clients \ {c} : R.cl[d] = Q.cl[d]
         /\ R.cl[c].us = "US_ONUPLOADQUEUE" /\ R.cl[c].sock = Q.cl[c].sock
         /\ R.cl[c].ds = Q.cl[c].ds /\ R.cl[c].blocks = Q.cl[c].blocks
         /\ SameClaims(Q, R, c)
    BY <1>3, <1>14, <1>15, SetUploadStateIs
  <1>17. /\ R.w = Q.w /\ R.u = S.u /\ R.high = S.high /\ R.banned = Q.banned
         /\ R.lock = Q.lock
    BY <1>13, <1>16 DEF SameLists
  <1>18. Only(Q, R, c) BY <1>13, <1>14, <1>16, <1>17, OnlyListsKept
  <1>19. At(R, c, End)
    <2>1. c \notin bannedInSlot => Agree(R, c, End)
      BY <1>13, <1>14, <1>16, <1>17 DEF At, Agree
    <2>2. c \notin Sources => PlainAgree(R, c)
      BY <1>13, <1>14, <1>16, <1>17 DEF At, PlainAgree
    <2> QED BY <1>14, <1>16, <2>1, <2>2 DEF At
  <1>20. ASSUME NEW d \in Clients, d # c PROVE At(Q, d, End)
    <2>1. At(Q, d, c) BY <1>13 DEF Sound
    <2> QED BY <1>20, <2>1 DEF At, Agree
  <1>21. Sound(R, End)
    <2>1. ASSUME NEW d \in Clients, d # c PROVE At(R, d, End)
      <3>1. At(Q, d, End) /\ R.cl[d] = Q.cl[d] BY <1>16, <1>20, <2>1
      <3> QED BY <1>13, <1>17, <3>1 DEF At, Agree, PlainAgree
    <2> QED BY <1>14, <1>13, <1>16, <1>17, <1>19, <2>1 DEF Sound
  <1>22. Held(R)
    <2>1. ToSet(Q.u) \subseteq Clients BY <1>14, StatesFields
    <2>2. \A d \in Clients : R.cl[d].sock = Q.cl[d].sock BY <1>16
    <2> QED BY <1>13, <1>16, <1>17, <2>1, <2>2 DEF Held
  <1>23. PlacesKept(S, R)
    BY <1>5, <1>7, <1>13, <1>17 DEF PlacesKept, Excused, Purged
  <1>24. NextLow(S) => NextLow(R)
    <2>1. NextLow(S) => NextLow(Q) BY <1>7, <1>13 DEF NextLow
    <2> QED BY <1>16, <2>1 DEF NextLow, SameClaims
  <1> QED BY <1>17, <1>21, <1>22, <1>23, <1>24

\* AddClientToQueue for a connected client.
LEMMA AddClientToQueueSound ==
  ASSUME NEW S, NEW c \in Clients, Sound(S, End), Held(S), SlotsKept(S),
         IsConnected(S, c), NEW R \in AddClientToQueue(S, c)
  PROVE  /\ Sound(R, End) /\ Held(R) /\ SlotsKept(R)
         /\ ToSet(S.u) \subseteq ToSet(R.u)
         /\ NextLow(S) => PlacesKept(S, R) /\ NextLow(R)
  <1>1. S \in States /\ IsInjective(S.u) /\ At(S, c, End) BY DEF Sound
  <1> DEFINE k == [S.cl[c] EXCEPT !.old = FALSE]
  <1>2. PICK A : A = Put(S, c, k) OBVIOUS
  <1>3. S.cl[c] \in ClientStates BY <1>1, StatesFields
  <1>4. /\ k \in ClientStates /\ k.us = S.cl[c].us /\ k.sock = S.cl[c].sock
        /\ k.ds = S.cl[c].ds /\ k.blocks = S.cl[c].blocks
        /\ k.addNext = S.cl[c].addNext /\ k.old = FALSE
    BY <1>3 DEF ClientStates
  <1>5. [S EXCEPT !.cl[c].old = FALSE] = A BY <1>2 DEF Put
  <1> HIDE DEF k
  <1>6. /\ Sound(A, End) /\ Held(A) /\ SameLists(S, A) /\ A.cl[c] = k
        /\ \A d \in Clients \ {c} : A.cl[d] = S.cl[d]
    BY <1>2, <1>4, QuietPutSound
  <1>7. /\ A.w = S.w /\ A.u = S.u /\ A.high = S.high /\ IsConnected(A, c)
    BY <1>4, <1>6 DEF SameLists, IsConnected
  <1>8. SlotsKept(A) BY <1>7 DEF SlotsKept
  <1>0. /\ NextLow(S) => NextLow(A)
        /\ PlacesKept(A, R) => PlacesKept(S, R)
    <2>1. \A d \in Clients : /\ A.cl[d].addNext => S.cl[d].addNext
                             /\ A.cl[d].old => S.cl[d].old
      BY <1>4, <1>6
    <2>2. ToSet(S.w) \subseteq Clients BY <1>1, StatesFields
    <2> QED BY <1>7, <2>1, <2>2, PlacesKeptBefore DEF NextLow
  <1>9. CASE IsBanned(S, c)
    <2>1. R = S BY <1>9 DEF AddClientToQueue
    <2> QED BY <2>1 DEF PlacesKept
  <1>10. CASE ~IsBanned(S, c) /\ R = A
    <2>1. PlacesKept(A, R) BY <1>10 DEF PlacesKept
    <2> QED BY <1>0, <1>6, <1>7, <1>8, <1>10, <2>1
  <1>11. CASE /\ A.cl[c].addNext /\ ExtraSlotFree(A)
              /\ \E refused \in BOOLEAN : R = Takes(A, c, refused)
    <2>1. /\ Sound(R, End) /\ Held(R) /\ SlotsKept(R)
          /\ IsConnected(A, c) => ToSet(A.u) \subseteq ToSet(R.u)
          /\ c \in LowID => PlacesKept(A, R)
          /\ NextLow(A) => NextLow(R)
      BY <1>6, <1>11, TakesSound
    <2>2. NextLow(A) => c \in LowID BY <1>11 DEF NextLow
    <2> QED BY <1>0, <1>7, <2>1, <2>2
  <1>12. CASE /\ ~IsBanned(S, c) /\ c \notin ToSet(A.w) /\ Len(A.u) < MaxSlots
              /\ \E refused \in BOOLEAN : R = DirectAdd(A, c, refused)
    <2>1. PICK refused \in BOOLEAN : R = DirectAdd(A, c, refused) BY <1>12
    <2>2. /\ Sound(R, End) /\ Held(R) /\ Len(R.u) <= Len(A.u) + 1
          /\ IsConnected(A, c) => ToSet(A.u) \subseteq ToSet(R.u)
          /\ \/ Started(A, R, c)
             \/ R = A /\ (FileOf[c] \in suspended \/ FileOf[c] \notin shared)
      BY <1>6, <1>12, <2>1, DirectAddSound
    <2>3. Len(R.u) \in Nat /\ Len(A.u) \in Nat
      BY <1>6, <2>2, StatesFields, LenProperties DEF Sound
    <2>4. SlotsKept(R) BY <1>12, <2>2, <2>3, UploadConstants DEF SlotsKept
    <2>5. PlacesKept(A, R)
      <3>1. ToSet(A.w) \subseteq Clients BY <1>6, StatesFields DEF Sound
      <3> QED BY <1>12, <2>2, <3>1 DEF PlacesKept, Started, Only
    <2>6. NextLow(A) => NextLow(R)
      BY <2>2 DEF NextLow, Started, Only, NoNewClaim
    <2> QED BY <1>0, <1>7, <2>2, <2>4, <2>5, <2>6
  <1>13. CASE /\ ~IsBanned(S, c) /\ c \notin ToSet(A.w) /\ ~HasSlot(A, c)
              /\ R \in Joins(A, c)
    <2>1. ASSUME c \in ToSet(A.u) PROVE c \in bannedInSlot /\ c \in Sources
      <3>1. S.cl[c].us # "US_UPLOADING" /\ S.cl[c].us # "US_CONNECTING"
        BY <1>1, <1>4, <1>6, <1>7, <1>13, <2>1 DEF HasSlot, IsConnected, At
      <3>2. c \in bannedInSlot BY <1>1, <1>7, <2>1, <3>1 DEF At, Agree
      <3>3. ASSUME c \notin Sources PROVE FALSE
        <4>1. c \in S.banned /\ S.cl[c].ds = "DS_NONE"
          BY <1>1, <1>7, <2>1, <3>1, <3>3 DEF At, PlainAgree
        <4> QED BY <1>13, <4>1 DEF IsBanned
      <3> QED BY <3>2, <3>3
    <2>2. /\ Sound(R, End) /\ Held(R) /\ R.u = A.u /\ R.high = A.high
          /\ PlacesKept(A, R) /\ (NextLow(A) => NextLow(R))
      BY <1>6, <1>13, <2>1, JoinsSound
    <2>3. SlotsKept(R) BY <1>8, <2>2 DEF SlotsKept
    <2> QED BY <1>0, <1>7, <2>2, <2>3
  <1>14. \/ IsBanned(S, c)
         \/ ~IsBanned(S, c) /\ R = A
         \/ A.cl[c].addNext /\ ExtraSlotFree(A) /\ \E refused \in BOOLEAN : R = Takes(A, c, refused)
         \/ /\ ~IsBanned(S, c) /\ c \notin ToSet(A.w) /\ Len(A.u) < MaxSlots
            /\ \E refused \in BOOLEAN : R = DirectAdd(A, c, refused)
         \/ /\ ~IsBanned(S, c) /\ c \notin ToSet(A.w) /\ ~HasSlot(A, c)
            /\ R \in Joins(A, c)
    BY <1>5, Zenon DEF AddClientToQueue
  <1> QED BY <1>9, <1>10, <1>11, <1>12, <1>13, <1>14

\* Suspending one upload takes the slot, and puts the client back in the
\* waiting list or leaves it in neither.
LEMMA SuspendClientSound ==
  ASSUME NEW S, NEW c \in Clients, Sound(S, End), c \in ToSet(S.u),
         NEW terminate \in BOOLEAN, NEW R, R = SuspendClient(S, c, terminate)
  PROVE  /\ Sound(R, End) /\ Held(R) /\ Only(S, R, c)
         /\ R.high = S.high /\ Len(R.u) <= Len(S.u) /\ WaitersStay(S, R)
  <1>1. S \in States /\ IsInjective(S.u) /\ At(S, c, End) BY DEF Sound
  <1>2. PICK U : U = RemoveFromUploadQueue(S, c) OBVIOUS
  <1>3. /\ Only(S, U, c) /\ U.lock /\ U.w = S.w /\ U.high = S.high
        /\ c \notin ToSet(U.u) /\ Len(U.u) <= Len(S.u)
        /\ U.cl[c].blocks = 0 /\ U.cl[c].ds = S.cl[c].ds /\ SameClaims(S, U, c)
    BY <1>1, <1>2, RemoveFromUploadQueueIs
  <1>4. Sound(U, End) BY <1>2, RemoveFromUploadQueueSound
  <1>5. U \in States /\ IsInjective(U.u) BY <1>4 DEF Sound
  <1>6. CASE terminate
    <2>1. R = SetUploadState(U, c, "US_NONE") BY <1>2, <1>6 DEF SuspendClient
    <2>2. "US_NONE" \in UploadStates BY DEF UploadStates
    <2>3. /\ R \in States /\ SameLists(U, R)
          /\ \A d \in Clients \ {c} : R.cl[d] = U.cl[d]
          /\ R.cl[c].us = "US_NONE"
          /\ R.cl[c].ds = U.cl[c].ds /\ R.cl[c].blocks = U.cl[c].blocks
          /\ SameClaims(U, R, c)
      BY <1>5, <2>1, <2>2, SetUploadStateIs
    <2>4. /\ R.w = U.w /\ R.u = U.u /\ R.banned = U.banned /\ R.high = U.high /\ R.lock
      BY <1>3, <2>3 DEF SameLists
    <2>5. Only(U, R, c) BY <1>5, <2>3, <2>4, OnlyListsKept
    <2>6. At(R, c, End)
      BY <1>1, <1>3, <2>3, <2>4 DEF At, Agree, PlainAgree
    <2>7. Sound(R, End) BY <1>4, <2>5, <2>6, SoundStep
    <2>8. Only(S, R, c) BY <1>3, <2>5, OnlyTransitive
    <2>9. WaitersStay(S, R)
      BY <1>3, <2>3, <2>4 DEF WaitersStay, SameClaims, Only
    <2> QED BY <1>3, <2>4, <2>7, <2>8, <2>9 DEF Held
  <1>7. CASE ~terminate
    <2>1. PICK Q : Q = SetUploadState(U, c, "US_ONUPLOADQUEUE") OBVIOUS
    <2>2. "US_ONUPLOADQUEUE" \in UploadStates BY DEF UploadStates
    <2>3. /\ Q \in States /\ SameLists(U, Q)
          /\ \A d \in Clients \ {c} : Q.cl[d] = U.cl[d]
          /\ Q.cl[c].us = "US_ONUPLOADQUEUE"
          /\ Q.cl[c].ds = U.cl[c].ds /\ Q.cl[c].blocks = U.cl[c].blocks
          /\ SameClaims(U, Q, c)
      BY <1>5, <2>1, <2>2, SetUploadStateIs
    <2>4. /\ Q.w = S.w /\ Q.u = U.u /\ Q.banned = U.banned /\ Q.high = U.high /\ Q.lock
      BY <1>3, <2>3 DEF SameLists
    <2> DEFINE w == Append(S.w, c)
    <2>5. R = [Q EXCEPT !.w = w] BY <1>2, <1>7, <2>1, <2>4 DEF SuspendClient
    <2>6. S.w \in Seq(Clients) BY <1>1, StatesFields
    <2>7. /\ w \in Seq(Clients) /\ ToSet(w) = ToSet(S.w) \cup {c}
          /\ \A d : Once(S.w, d) /\ (d = c => d \notin ToSet(S.w)) => Once(w, d)
      BY <2>6, AppendProperties, ToSetAppend, AppendOnce
    <2> HIDE DEF w
    <2>8. /\ R \in States /\ R.w = w /\ R.u = U.u /\ R.cl = Q.cl /\ R.lock
          /\ R.banned = U.banned /\ R.high = U.high
      BY <2>3, <2>4, <2>5, <2>7 DEF States
    <2>9. Only(U, R, c) BY <1>3, <1>5, <2>3, <2>7, <2>8 DEF Only
    <2>10. At(R, c, End)
      <3>1. c \notin bannedInSlot => Agree(R, c, End)
        BY <1>1, <1>3, <2>3, <2>7, <2>8 DEF At, Agree
      <3>2. c \notin Sources => PlainAgree(R, c)
        BY <1>1, <1>3, <2>3, <2>7, <2>8 DEF At, PlainAgree
      <3> QED BY <1>1, <1>3, <2>3, <2>8, <3>1, <3>2 DEF At
    <2>11. Sound(R, End) BY <1>4, <2>9, <2>10, SoundStep
    <2>12. Only(S, R, c) BY <1>3, <2>9, OnlyTransitive
    <2>13. WaitersStay(S, R)
      BY <1>3, <2>3, <2>7, <2>8 DEF WaitersStay, SameClaims, Only
    <2> QED BY <1>3, <2>8, <2>11, <2>12, <2>13 DEF Held
  <1> QED BY <1>6, <1>7

SuspendStep(S, list, b, g, n) ==
  g[0] = S /\ \A k \in 1..n : g[k] = SuspendClient(g[k - 1], list[k], b)

\* The loop of SuspendUpload is well defined ...
LEMMA SuspendExists ==
  ASSUME NEW S, NEW list, NEW b, NEW n \in Nat
  PROVE  \E g : SuspendStep(S, list, b, g, n)
  <1> DEFINE T == {m \in Nat : ~\E g : SuspendStep(S, list, b, g, m)}
  <1> SUFFICES ASSUME T # {} PROVE FALSE OBVIOUS
  <1>1. PICK m \in T : \A k \in T : m <= k
    <2>1. T \in SUBSET Nat OBVIOUS
    <2> HIDE DEF T
    <2> QED BY <2>1, LeastNat
  <1>2. m # 0
    <2>1. SuspendStep(S, list, b, [k \in 0..0 |-> S], 0) BY DEF SuspendStep
    <2> QED BY <2>1
  <1>3. m \in Nat /\ m - 1 \in Nat /\ m - 1 \notin T
    <2>1. m \in Nat /\ m - 1 \in Nat /\ ~(m <= m - 1) BY <1>2
    <2> HIDE DEF T
    <2> QED BY <1>1, <2>1
  <1>4. PICK g : SuspendStep(S, list, b, g, m - 1) BY <1>3
  <1> DEFINE h == [k \in 0..m |-> IF k = m THEN SuspendClient(g[m - 1], list[m], b) ELSE g[k]]
  <1>5. SuspendStep(S, list, b, h, m)
    <2>1. h[0] = S BY <1>2, <1>3, <1>4 DEF SuspendStep
    <2>2. ASSUME NEW k \in 1..m PROVE h[k] = SuspendClient(h[k - 1], list[k], b)
      <3>1. CASE k = m
        <4>1. h[m - 1] = g[m - 1] /\ h[m] = SuspendClient(g[m - 1], list[m], b)
          BY <1>2, <1>3
        <4> HIDE DEF h
        <4> QED BY <3>1, <4>1
      <3>2. CASE k # m
        <4>1. k \in 1..(m - 1) /\ h[k] = g[k] /\ h[k - 1] = g[k - 1] BY <3>2, <1>3
        <4> HIDE DEF h
        <4> QED BY <4>1, <1>4 DEF SuspendStep
      <3> QED BY <3>1, <3>2
    <2> HIDE DEF h
    <2> QED BY <2>1, <2>2 DEF SuspendStep
  <1> QED BY <1>1, <1>5

\* ... so it suspends one client after the other.
LEMMA SuspendDef ==
  ASSUME NEW S, NEW list \in Seq(Clients), NEW b
  PROVE  \E g : /\ SuspendAll(S, list, b) = g[Len(list)]
                /\ SuspendStep(S, list, b, g, Len(list))
  <1> DEFINE n == Len(list)
             body(g, k) == IF k = 0 THEN S ELSE SuspendClient(g[k - 1], list[k], b)
             turn == CHOOSE g : g = [k \in 0..n |-> body(g, k)]
  <1>0. n \in Nat BY LenProperties
  <1>1. PICK g : SuspendStep(S, list, b, g, n)
    <2> HIDE DEF body, turn, n
    <2> QED BY <1>0, SuspendExists
  <1> DEFINE h == [k \in 0..n |-> g[k]]
  <1>2. h = [k \in 0..n |-> body(h, k)]
    <2>1. ASSUME NEW k \in 0..n PROVE h[k] = body(h, k)
      <3>1. CASE k = 0 BY <3>1, <1>1 DEF SuspendStep
      <3>2. CASE k # 0
        <4>1. k \in 1..n /\ k - 1 \in 0..n BY <3>2, <1>0
        <4>2. g[k] = SuspendClient(g[k - 1], list[k], b)
          <5> HIDE DEF n, h, body
          <5> QED BY <4>1, <1>1 DEF SuspendStep
        <4>3. h[k] = g[k] /\ h[k - 1] = g[k - 1] BY <4>1
        <4> HIDE DEF h, n
        <4> QED BY <3>2, <4>2, <4>3
      <3> QED BY <3>1, <3>2
    <2> HIDE DEF body, n
    <2> QED BY <2>1
  <1>3. turn = [k \in 0..n |-> body(turn, k)] BY <1>2, Zenon
  <1>4. SuspendAll(S, list, b) = turn[n] BY Zenon DEF SuspendAll
  <1> HIDE DEF turn
  <1>5. SuspendStep(S, list, b, turn, n)
    <2>1. \A k \in 0..n : turn[k] = body(turn, k)
      <3> HIDE DEF body, n
      <3> QED BY <1>3
    <2> HIDE DEF n
    <2>2. turn[0] = S BY <2>1, <1>0
    <2>3. ASSUME NEW k \in 1..n PROVE turn[k] = SuspendClient(turn[k - 1], list[k], b)
      <3>1. k \in 0..n /\ k # 0 BY <1>0
      <3> QED BY <3>1, <2>1
    <2> QED BY <2>2, <2>3 DEF SuspendStep
  <1> QED BY <1>4, <1>5

\* SuspendUpload keeps the invariant, whatever the number of uploads of the
\* file.
LEMMA SuspendAllSound ==
  ASSUME NEW S, Sound(S, End), Held(S), NEW list \in Seq(Clients), IsInjective(list),
         ToSet(list) \subseteq ToSet(S.u), NEW b \in BOOLEAN,
         NEW R, R = SuspendAll(S, list, b)
  PROVE  /\ Sound(R, End) /\ Held(R) /\ R.high = S.high /\ Len(R.u) <= Len(S.u)
         /\ WaitersStay(S, R)
  <1>1. PICK g : /\ SuspendAll(S, list, b) = g[Len(list)]
                 /\ SuspendStep(S, list, b, g, Len(list))
    BY SuspendDef
  <1>2. /\ Len(list) \in Nat /\ \A k \in 1..Len(list) : list[k] \in ToSet(S.u)
        /\ \A k \in 1..Len(list) : list[k] \in Clients
        /\ \A j, k \in 1..Len(list) : list[j] = list[k] => j = k
        /\ Len(S.u) \in Nat
    <2>1. /\ Len(list) \in Nat /\ DOMAIN list = 1..Len(list)
          /\ \A k \in 1..Len(list) : list[k] \in ToSet(list)
          /\ \A k \in 1..Len(list) : list[k] \in Clients
      BY LenProperties, ToSetBasics, ElementOfSeq
    <2>2. Len(S.u) \in Nat BY StatesFields, LenProperties DEF Sound
    <2> QED BY <2>1, <2>2 DEF IsInjective
  <1> DEFINE Good(k) == /\ Sound(g[k], End) /\ Held(g[k])
                        /\ g[k].high = S.high /\ Len(g[k].u) <= Len(S.u)
                        /\ WaitersStay(S, g[k])
                        /\ \A j \in (k + 1)..Len(list) : list[j] \in ToSet(g[k].u)
             T == {k \in 0..Len(list) : ~Good(k)}
  <1>3. Good(0)
    <2>1. g[0] = S BY <1>1 DEF SuspendStep
    <2> QED BY <1>2, <2>1 DEF WaitersStay
  <1>4. ASSUME NEW m \in 1..Len(list), Good(m - 1) PROVE Good(m)
    <2>1. PICK c : c = list[m] OBVIOUS
    <2>2. PICK G : G = g[m - 1] OBVIOUS
    <2>3. Sound(G, End) /\ G.high = S.high /\ Len(G.u) <= Len(S.u) BY <1>4, <2>2
    <2>4. m \in ((m - 1) + 1)..Len(list) BY <1>2
    <2>5. c \in Clients /\ c \in ToSet(G.u) BY <1>2, <1>4, <2>1, <2>2, <2>4
    <2>6. g[m] = SuspendClient(G, c, b) BY <1>1, <2>1, <2>2 DEF SuspendStep
    <2>7. /\ Sound(g[m], End) /\ Held(g[m]) /\ Only(G, g[m], c)
          /\ Len(g[m].u) <= Len(G.u) /\ WaitersStay(G, g[m])
      BY <2>3, <2>5, <2>6, SuspendClientSound
    <2>8. g[m].high = G.high
      BY <2>3, <2>5, <2>6, SuspendClientSound
    <2>9. Len(g[m].u) \in Nat /\ Len(G.u) \in Nat
      BY <2>3, <2>7, StatesFields, LenProperties DEF Sound
    <2>10. Len(g[m].u) <= Len(S.u) BY <1>2, <2>3, <2>7, <2>9
    <2>11. ASSUME NEW j \in (m + 1)..Len(list) PROVE list[j] \in ToSet(g[m].u)
      <3>1. j \in 1..Len(list) /\ j \in ((m - 1) + 1)..Len(list) /\ j # m BY <1>2
      <3>2. list[j] \in ToSet(G.u) BY <1>4, <2>2, <3>1
      <3>3. list[j] # c /\ list[j] \in Clients BY <1>2, <2>1, <3>1
      <3> QED BY <2>7, <3>2, <3>3 DEF Only
    <2>12. WaitersStay(S, g[m]) BY <1>4, <2>2, <2>7 DEF WaitersStay
    <2> QED BY <2>3, <2>7, <2>8, <2>10, <2>11, <2>12
  <1> HIDE DEF Good
  <1>5. T = {}
    <2> SUFFICES ASSUME T # {} PROVE FALSE OBVIOUS
    <2>1. PICK m \in T : \A k \in T : m <= k
      <3>1. T \in SUBSET Nat BY <1>2
      <3> HIDE DEF T
      <3> QED BY <3>1, LeastNat
    <2>2. m \in 1..Len(list) BY <1>2, <1>3, <2>1
    <2>3. m - 1 \in 0..Len(list) /\ ~(m <= m - 1) BY <1>2, <2>2
    <2>4. m - 1 \notin T
      <3> HIDE DEF T
      <3> QED BY <2>1, <2>3
    <2> QED BY <1>4, <2>1, <2>2, <2>3, <2>4
  <1>6. Good(Len(list)) BY <1>2, <1>5
  <1> QED BY <1>1, <1>6 DEF Good

------------------------------------------------------------------------------
(***************************************************************************)
(* The actions.  A handler may enlarge the two history sets, which are the *)
(* exceptions of the invariant: SoundFor and HeldFor are Sound and Held    *)
(* for given sets.                                                         *)
(***************************************************************************)
SoundFor(S, B) ==
  /\ S \in States /\ IsInjective(S.u)
  /\ \A c \in Clients :
       /\ c \notin B => Agree(S, c, End)
       /\ IF c \in Sources THEN S.cl[c].ds # "DS_NONE" ELSE PlainAgree(S, c)
       /\ c \in ToSet(S.u) /\ S.cl[c].us = "US_CONNECTING" => S.cl[c].sock # "up"

HeldFor(S, X) ==
  S.lock \/ /\ S.u = m_uploadinglist
            /\ dclient # End /\ dclient \notin X =>
                 /\ dclient \in ToSet(S.u)
                 /\ S.cl[dclient].sock = "up" /\ S.dsock = "live"

\* More exceptions weaken the invariant.
LEMMA MoreExceptions ==
  ASSUME NEW S, NEW B, NEW X, bannedInSlot \subseteq B,
         bannedInSlot \cup reattached \subseteq X
  PROVE  /\ Sound(S, End) => SoundFor(S, B)
         /\ Held(S) => HeldFor(S, X)
  <1>1. Sound(S, End) => SoundFor(S, B) BY DEF Sound, SoundFor, At
  <1>2. Held(S) => HeldFor(S, X) BY DEF Held, HeldFor, Guarded
  <1> QED BY <1>1, <1>2

\* What the record holds before a handler starts.
LEMMA NowIs ==
  ASSUME UploadInv
  PROVE  /\ Sound(Now, End) /\ Held(Now) /\ SlotsKept(Now) /\ Now \in States
         /\ IsInjective(Now.u)
         /\ Now.w = m_waitinglist /\ Now.u = m_uploadinglist /\ Now.cl = cl
         /\ Now.banned = banned /\ Now.high = lastupslotHighID /\ Now.dsock = dsock
         /\ ~Now.lock
  <1>1. /\ Now.w = m_waitinglist /\ Now.u = m_uploadinglist /\ Now.cl = cl
        /\ Now.banned = banned /\ Now.high = lastupslotHighID /\ Now.dsock = dsock
        /\ ~Now.lock
    BY DEF Now
  <1>2. Sound(Now, End) /\ OneExtraSlot /\ DiskInv BY DEF UploadInv
  <1>3. SlotsKept(Now) BY <1>1, <1>2 DEF OneExtraSlot, SlotsKept
  <1>4. Held(Now) BY <1>1, <1>2 DEF DiskInv, Held, Uploading
  <1>5. Now \in States /\ IsInjective(Now.u) BY <1>2 DEF Sound
  <1> QED BY <1>1, <1>2, <1>3, <1>4, <1>5

QueueTypes ==
  /\ m_waitinglist \in Seq(Clients) /\ m_uploadinglist \in Seq(Clients)
  /\ cl \in [Clients -> ClientStates]
  /\ banned \subseteq Clients
  /\ lastupslotHighID \in BOOLEAN
  /\ dsock \in SocketFates

\* The end of a handler.
LEMMA Committed ==
  ASSUME UploadInv, NEW S, SoundFor(S, bannedInSlot'), SlotsKept(S), Commit(S),
         HeldFor(S, bannedInSlot' \cup reattached'), UNCHANGED diskVars
  PROVE  Sound(Now, End)' /\ OneExtraSlot' /\ DiskInv' /\ QueueTypes'
  <1>1. /\ m_waitinglist' = S.w /\ m_uploadinglist' = S.u /\ cl' = S.cl
        /\ banned' = S.banned /\ lastupslotHighID' = S.high /\ dsock' = S.dsock
        /\ S.lock => ~Locked
    BY DEF Commit
  <1>2. S \in States /\ IsInjective(S.u) BY DEF SoundFor
  <1>3. QueueTypes' BY <1>1, <1>2 DEF QueueTypes, States
  <1>4. Sound(Now, End)'
    <2>1. /\ Now.w' = S.w /\ Now.u' = S.u /\ Now.cl' = S.cl /\ Now.banned' = S.banned
      BY <1>1 DEF Now
    <2>2. Now' \in States BY <1>3 DEF Now, States, QueueTypes
    <2>3. ASSUME NEW c \in Clients PROVE At(Now, c, End)'
      <3>1. /\ c \notin bannedInSlot' => Agree(S, c, End)
            /\ IF c \in Sources THEN S.cl[c].ds # "DS_NONE" ELSE PlainAgree(S, c)
            /\ c \in ToSet(S.u) /\ S.cl[c].us = "US_CONNECTING" => S.cl[c].sock # "up"
        BY DEF SoundFor
      <3> QED BY <2>1, <3>1 DEF At, Agree, PlainAgree
    <2> QED BY <1>2, <2>1, <2>2, <2>3 DEF Sound, States
  <1>5. OneExtraSlot' BY <1>1 DEF OneExtraSlot, SlotsKept
  <1>6. DiskInv'
    <2>1. dpc' = dpc /\ dtodo' = dtodo /\ dclient' = dclient BY DEF diskVars
    <2>2. DiskInv BY DEF UploadInv
    <2>3. CASE S.lock
      <3>1. dpc \notin {"walk", "read", "send"} BY <1>1, <2>3 DEF Locked
      <3> QED BY <2>1, <2>2, <3>1 DEF DiskInv, Guarded
    <2>4. CASE ~S.lock
      <3>1. m_uploadinglist' = m_uploadinglist BY <1>1, <2>4 DEF HeldFor
      <3>2. /\ dclient # End <=> dpc \in {"read", "send"}
            /\ dpc \in {"walk", "read"} => ToSet(dtodo) \subseteq ToSet(m_uploadinglist)
        BY <2>2 DEF DiskInv, Uploading
      <3>3. dclient # End /\ dclient \notin bannedInSlot' \cup reattached' =>
                 /\ dclient \in ToSet(S.u)
                 /\ S.cl[dclient].sock = "up" /\ S.dsock = "live"
        BY <2>4 DEF HeldFor
      <3> QED BY <1>1, <2>1, <3>1, <3>2, <3>3 DEF DiskInv, Guarded, Uploading
    <2> QED BY <2>3, <2>4
  <1> QED BY <1>3, <1>4, <1>5, <1>6

\* What the other variables have to satisfy after a step of the main thread.
OtherTypes ==
  /\ shared \subseteq Files /\ suspended \subseteq Files
  /\ mpc \in {"idle", "process", "kick", "delete"}
  /\ it \in Clients \cup {End}
  /\ upsets \in 0..MaxUpsets
  /\ bannedInSlot \subseteq Clients /\ reattached \subseteq Clients

\* A step of the main thread, once its record is known to be sound.
LEMMA MainStep ==
  ASSUME UploadInv, NEW S, SoundFor(S, bannedInSlot'), SlotsKept(S), Commit(S),
         HeldFor(S, bannedInSlot' \cup reattached'), UNCHANGED diskVars,
         OtherTypes', IteratorValid', mpc' = "delete" => it' # End
  PROVE  UploadInv'
  <1>1. Sound(Now, End)' /\ OneExtraSlot' /\ DiskInv' /\ QueueTypes' BY Committed
  <1>2. TypeOK'
    BY <1>1 DEF UploadInv, TypeOK, QueueTypes, OtherTypes, diskVars
  <1> QED BY <1>1, <1>2 DEF UploadInv

\* The same for a handler that leaves the history alone.
LEMMA PlainMainStep ==
  ASSUME UploadInv, NEW S, Sound(S, End), Held(S), SlotsKept(S), Commit(S),
         UNCHANGED <<diskVars, histVars>>,
         OtherTypes', IteratorValid', mpc' = "delete" => it' # End
  PROVE  UploadInv'
  <1>1. bannedInSlot' = bannedInSlot /\ reattached' = reattached /\ UNCHANGED diskVars
    BY DEF histVars
  <1>2. SoundFor(S, bannedInSlot') /\ HeldFor(S, bannedInSlot' \cup reattached')
    BY <1>1, MoreExceptions
  <1> QED BY <1>1, <1>2, MainStep

\* And for one that runs to its end.
LEMMA HandlerStep ==
  ASSUME UploadInv, NEW S, SoundFor(S, bannedInSlot'), SlotsKept(S), Handler(S),
         HeldFor(S, bannedInSlot' \cup reattached'),
         shared' \subseteq Files, suspended' \subseteq Files, upsets' \in 0..MaxUpsets,
         bannedInSlot' \subseteq Clients, reattached' \subseteq Clients
  PROVE  UploadInv'
  <1>1. Commit(S) /\ UNCHANGED diskVars /\ mpc' = "idle" /\ it' = it
    BY DEF Handler, Idle, mainVars
  <1>2. OtherTypes' BY <1>1 DEF UploadInv, TypeOK, OtherTypes
  <1>3. IteratorValid' BY <1>1 DEF IteratorValid, InProcess
  <1> QED BY <1>1, <1>2, <1>3, MainStep

\* The last two together.
LEMMA PlainHandlerStep ==
  ASSUME UploadInv, NEW S, Sound(S, End), Held(S), SlotsKept(S), Handler(S),
         shared' \subseteq Files, suspended' \subseteq Files, upsets' \in 0..MaxUpsets,
         UNCHANGED histVars
  PROVE  UploadInv'
  <1>1. bannedInSlot' = bannedInSlot /\ reattached' = reattached BY DEF histVars
  <1>2. SoundFor(S, bannedInSlot') /\ HeldFor(S, bannedInSlot' \cup reattached')
    BY <1>1, MoreExceptions
  <1>3. bannedInSlot' \subseteq Clients /\ reattached' \subseteq Clients
    BY <1>1 DEF UploadInv, TypeOK
  <1> QED BY <1>2, <1>3, HandlerStep

\* The bound on upsets is kept.
LEMMA UpsetStep ==
  ASSUME UploadInv, Upset
  PROVE  upsets' \in 0..MaxUpsets
  BY UploadConstants DEF UploadInv, TypeOK, Upset

\* A handler that does not touch the files keeps their types.
LEMMA FilesStep ==
  ASSUME UploadInv, UNCHANGED fileVars
  PROVE  shared' \subseteq Files /\ suspended' \subseteq Files
  BY DEF UploadInv, TypeOK, fileVars

\* OP_STARTUPLOADREQ.
LEMMA StartUploadReqStep ==
  ASSUME UploadInv, NEW c \in Clients, StartUploadReq(c)
  PROVE  UploadInv'
  <1>1. PICK S \in AddClientToQueue(Now, c) : Handler(S) BY DEF StartUploadReq
  <1>2. IsConnected(Now, c) /\ UNCHANGED <<fileVars, upsets, histVars>>
    BY DEF StartUploadReq
  <1>3. Sound(S, End) /\ Held(S) /\ SlotsKept(S)
    BY <1>1, <1>2, NowIs, AddClientToQueueSound
  <1>4. shared' \subseteq Files /\ suspended' \subseteq Files BY <1>2, FilesStep
  <1>5. upsets' \in 0..MaxUpsets BY <1>2 DEF UploadInv, TypeOK
  <1> QED BY <1>1, <1>2, <1>3, <1>4, <1>5, PlainHandlerStep

\* OP_CANCELTRANSFER.
LEMMA CancelTransferStep ==
  ASSUME UploadInv, NEW c \in Clients, CancelTransfer(c)
  PROVE  UploadInv'
  <1>1. PICK S : S = RemoveFromUploadQueue(Now, c) OBVIOUS
  <1>2. Handler(S) /\ UNCHANGED <<fileVars, upsets, histVars>>
    BY <1>1 DEF CancelTransfer
  <1>3. Sound(S, End) /\ Held(S) BY <1>1, NowIs, RemoveFromUploadQueueSound
  <1>4. Len(S.u) <= Len(Now.u) /\ S.high = Now.high
    BY <1>1, NowIs, RemoveFromUploadQueueIs
  <1>5. Len(S.u) \in Nat /\ Len(Now.u) \in Nat
    BY <1>3, NowIs, StatesFields, LenProperties DEF Sound
  <1>6. SlotsKept(S) BY <1>4, <1>5, NowIs, UploadConstants DEF SlotsKept
  <1>7. shared' \subseteq Files /\ suspended' \subseteq Files BY <1>2, FilesStep
  <1>8. upsets' \in 0..MaxUpsets BY <1>2 DEF UploadInv, TypeOK
  <1> QED BY <1>2, <1>3, <1>6, <1>7, <1>8, PlainHandlerStep

\* Handlers that change one client's record and no list.
LEMMA PutStep ==
  ASSUME UploadInv, NEW c \in Clients, NEW k \in ClientStates,
         NEW S, S = Put(Now, c, k), Handler(S),
         At(S, c, End), Guarded /\ dclient = c => k.sock = "up",
         shared' \subseteq Files, suspended' \subseteq Files, upsets' \in 0..MaxUpsets,
         UNCHANGED histVars
  PROVE  UploadInv'
  <1>1. /\ S \in States /\ SameLists(Now, S) /\ S.dsock = Now.dsock
        /\ \A d \in Clients \ {c} : S.cl[d] = Now.cl[d]
        /\ S.cl[c] = k
    BY NowIs, PutClient
  <1>2. /\ S.w = Now.w /\ S.u = Now.u /\ S.banned = Now.banned /\ S.high = Now.high
        /\ S.lock = Now.lock
    BY <1>1 DEF SameLists
  <1>3. Only(Now, S, c) BY <1>1, <1>2, NowIs, OnlyListsKept
  <1>4. Sound(S, End) BY <1>3, NowIs, SoundStep
  <1>5. Held(S)
    <2>1. ASSUME Guarded PROVE S.cl[dclient].sock = "up"
      <3>1. dclient \in ToSet(Now.u) /\ Now.cl[dclient].sock = "up"
        BY <2>1, NowIs DEF Held
      <3>2. dclient \in Clients BY <3>1, NowIs, StatesFields
      <3> QED BY <1>1, <2>1, <3>1, <3>2
    <2> QED BY <1>1, <1>2, <2>1, NowIs DEF Held
  <1>6. SlotsKept(S) BY <1>2, NowIs DEF SlotsKept
  <1> QED BY <1>4, <1>5, <1>6, PlainHandlerStep

\* OP_REQUESTPARTS: blocks are queued for a client with a slot only.
LEMMA AddReqBlockStep ==
  ASSUME UploadInv, NEW c \in Clients, AddReqBlock(c)
  PROVE  UploadInv'
  <1>1. cl[c] \in ClientStates BY DEF UploadInv, TypeOK
  <1> DEFINE k == [cl[c] EXCEPT !.blocks = cl[c].blocks + 1]
  <1>2. /\ cl[c].us = "US_UPLOADING" /\ c \in ToSet(Now.u) /\ cl[c].blocks < MaxBlocks
        /\ UNCHANGED <<fileVars, upsets, histVars>>
    BY DEF AddReqBlock, IsDownloading
  <1>3. PICK S : S = Put(Now, c, k) OBVIOUS
  <1>4. Handler(S) BY <1>3, NowIs DEF AddReqBlock, Put
  <1>5. /\ k \in ClientStates /\ k.us = cl[c].us /\ k.sock = cl[c].sock
        /\ k.ds = cl[c].ds
    BY <1>1, <1>2, UploadConstants DEF ClientStates
  <1> HIDE DEF k
  <1>6. /\ SameLists(Now, S) /\ S.cl[c] = k BY <1>3, <1>5, NowIs, PutClient
  <1>7. At(S, c, End)
    <2>1. At(Now, c, End) BY NowIs DEF Sound
    <2> QED BY <1>2, <1>5, <1>6, <2>1, NowIs DEF SameLists, At, Agree, PlainAgree
  <1>8. Guarded /\ dclient = c => k.sock = "up"
    BY <1>5 DEF UploadInv, DiskInv
  <1>9. shared' \subseteq Files /\ suspended' \subseteq Files BY <1>2, FilesStep
  <1>10. upsets' \in 0..MaxUpsets BY <1>2 DEF UploadInv, TypeOK
  <1> QED BY <1>2, <1>3, <1>4, <1>5, <1>7, <1>8, <1>9, <1>10, PutStep

\* A client starts or stops sending to us.
LEMMA SourceStep ==
  ASSUME UploadInv, NEW c \in Clients, SourceStarts(c) \/ SourceStops(c)
  PROVE  UploadInv'
  <1>1. cl[c] \in ClientStates BY DEF UploadInv, TypeOK
  <1>2. PICK ds \in {"DS_ONQUEUE", "DS_DOWNLOADING"} :
          /\ Handler([Now EXCEPT !.cl[c].ds = ds])
          /\ cl[c].ds # "DS_NONE"
    BY DEF SourceStarts, SourceStops
  <1>3. UNCHANGED <<fileVars, histVars>> BY DEF SourceStarts, SourceStops
  <1>4. upsets' \in 0..MaxUpsets
    <2>1. CASE Upset BY <2>1, UpsetStep
    <2>2. CASE UNCHANGED upsets BY <2>2 DEF UploadInv, TypeOK
    <2> QED BY <2>1, <2>2 DEF SourceStarts, SourceStops
  <1> DEFINE k == [cl[c] EXCEPT !.ds = ds]
  <1>5. PICK S : S = Put(Now, c, k) OBVIOUS
  <1>6. Handler(S) BY <1>2, <1>5, NowIs DEF Put
  <1>7. /\ k \in ClientStates /\ k.us = cl[c].us /\ k.sock = cl[c].sock
        /\ k.ds = ds /\ k.blocks = cl[c].blocks
    BY <1>1, <1>2 DEF ClientStates
  <1> HIDE DEF k
  <1>8. /\ SameLists(Now, S) /\ S.cl[c] = k BY <1>5, <1>7, NowIs, PutClient
  <1>9. At(Now, c, End) BY NowIs DEF Sound
  <1>10. c \in Sources BY <1>2, <1>9, NowIs DEF At, PlainAgree
  <1>11. At(S, c, End)
    BY <1>7, <1>8, <1>9, <1>10, NowIs DEF SameLists, At, Agree
  <1>12. Guarded /\ dclient = c => k.sock = "up"
    BY <1>7 DEF UploadInv, DiskInv
  <1>13. shared' \subseteq Files /\ suspended' \subseteq Files BY <1>3, FilesStep
  <1> QED BY <1>3, <1>4, <1>5, <1>6, <1>7, <1>11, <1>12, <1>13, PutStep

\* A waiting client stops asking.
LEMMA AgesStep ==
  ASSUME UploadInv, NEW c \in Clients, Ages(c)
  PROVE  UploadInv'
  <1>1. cl[c] \in ClientStates BY DEF UploadInv, TypeOK
  <1> DEFINE k == [cl[c] EXCEPT !.old = TRUE]
  <1>2. UNCHANGED <<fileVars, histVars>> /\ Upset BY DEF Ages
  <1>3. PICK S : S = Put(Now, c, k) OBVIOUS
  <1>4. Handler(S) BY <1>3, NowIs DEF Ages, Put
  <1>5. /\ k \in ClientStates /\ k.us = cl[c].us /\ k.sock = cl[c].sock
        /\ k.ds = cl[c].ds /\ k.blocks = cl[c].blocks
    BY <1>1 DEF ClientStates
  <1> HIDE DEF k
  <1>6. /\ SameLists(Now, S) /\ S.cl[c] = k BY <1>3, <1>5, NowIs, PutClient
  <1>7. At(S, c, End)
    <2>1. At(Now, c, End) BY NowIs DEF Sound
    <2> QED BY <1>5, <1>6, <2>1, NowIs DEF SameLists, At, Agree, PlainAgree
  <1>8. Guarded /\ dclient = c => k.sock = "up"
    BY <1>5 DEF UploadInv, DiskInv
  <1>9. shared' \subseteq Files /\ suspended' \subseteq Files BY <1>2, FilesStep
  <1>10. upsets' \in 0..MaxUpsets BY <1>2, UpsetStep
  <1> QED BY <1>2, <1>3, <1>4, <1>5, <1>7, <1>8, <1>9, <1>10, PutStep

\* The socket of a client is (again) connected: A is Now but for the client's
\* socket, and perhaps dsock.
LEMMA EstablishedSound ==
  ASSUME UploadInv, NEW c \in Clients, NEW A \in States, SameLists(Now, A),
         \A d \in Clients \ {c} : A.cl[d] = cl[d],
         A.cl[c].us = cl[c].us, A.cl[c].ds = cl[c].ds, A.cl[c].blocks = cl[c].blocks,
         A.cl[c].sock = "up",
         NEW S, S = ConnectionEstablished(A, c)
  PROVE  /\ Sound(S, End) /\ SlotsKept(S)
         /\ S.u = m_uploadinglist /\ S.lock = Now.lock /\ S.dsock = A.dsock
         /\ \A d \in Clients : S.cl[d].sock = A.cl[d].sock
  <1>1. /\ A.w = Now.w /\ A.u = Now.u /\ A.banned = Now.banned /\ A.high = Now.high
        /\ A.lock = Now.lock
    BY DEF SameLists
  <1>2. /\ S \in States /\ SameLists(A, S) /\ S.dsock = A.dsock
        /\ \A d \in Clients \ {c} : S.cl[d] = A.cl[d]
        /\ S.cl[c].us = IF A.cl[c].us = "US_CONNECTING" /\ c \in ToSet(A.u)
                          THEN "US_UPLOADING" ELSE A.cl[c].us
        /\ S.cl[c].sock = "up" /\ S.cl[c].ds = A.cl[c].ds
        /\ S.cl[c].blocks = A.cl[c].blocks
    <2>1. CASE A.cl[c].us = "US_CONNECTING" /\ c \in ToSet(A.u)
      <3>1. S = SetUploadState(A, c, "US_UPLOADING")
        BY <2>1 DEF ConnectionEstablished, IsDownloading
      <3>2. "US_UPLOADING" \in UploadStates BY DEF UploadStates
      <3> QED BY <2>1, <3>1, <3>2, SetUploadStateIs
    <2>2. CASE ~(A.cl[c].us = "US_CONNECTING" /\ c \in ToSet(A.u))
      <3>1. S = A BY <2>2 DEF ConnectionEstablished, IsDownloading
      <3> QED BY <2>2, <3>1 DEF SameLists
    <2> QED BY <2>1, <2>2
  <1>3. /\ S.w = Now.w /\ S.u = Now.u /\ S.banned = Now.banned /\ S.high = Now.high
        /\ S.lock = Now.lock
    BY <1>1, <1>2 DEF SameLists
  <1>4. \A d \in Clients \ {c} : S.cl[d] = Now.cl[d] BY <1>2, NowIs
  <1>5. Only(Now, S, c) BY <1>2, <1>3, <1>4, NowIs, OnlyListsKept
  <1>6. At(S, c, End)
    <2>1. At(Now, c, End) /\ Now.cl = cl BY NowIs DEF Sound
    <2>2. c \notin bannedInSlot => Agree(S, c, End)
      BY <1>1, <1>2, <1>3, <2>1 DEF At, Agree
    <2>3. c \notin Sources => PlainAgree(S, c)
      BY <1>1, <1>2, <1>3, <2>1 DEF At, PlainAgree
    <2> QED BY <1>1, <1>2, <1>3, <2>1, <2>2, <2>3 DEF At
  <1>7. Sound(S, End) BY <1>5, <1>6, NowIs, SoundStep
  <1>8. SlotsKept(S) BY <1>3, NowIs DEF SlotsKept
  <1> QED BY <1>2, <1>3, <1>7, <1>8, NowIs

\* A connection is made.
LEMMA PeerConnectsStep ==
  ASSUME UploadInv, NEW c \in Clients, PeerConnects(c)
  PROVE  UploadInv'
  <1>1. cl[c] \in ClientStates BY DEF UploadInv, TypeOK
  <1> DEFINE k == [cl[c] EXCEPT !.sock = "up"]
  <1>2. PICK A : A = Put(Now, c, k) OBVIOUS
  <1>3. PICK S : S = ConnectionEstablished(A, c) OBVIOUS
  <1>4. Handler(S) BY <1>2, <1>3, NowIs DEF PeerConnects, Put
  <1>5. UNCHANGED <<fileVars, upsets, histVars>> BY DEF PeerConnects
  <1>6. /\ k \in ClientStates /\ k.us = cl[c].us /\ k.sock = "up"
        /\ k.ds = cl[c].ds /\ k.blocks = cl[c].blocks
    BY <1>1 DEF ClientStates
  <1> HIDE DEF k
  <1>7. /\ A \in States /\ SameLists(Now, A) /\ A.dsock = Now.dsock
        /\ \A d \in Clients \ {c} : A.cl[d] = cl[d]
        /\ A.cl[c] = k
    BY <1>2, <1>6, NowIs, PutClient
  <1>8. /\ Sound(S, End) /\ SlotsKept(S)
        /\ S.u = m_uploadinglist /\ S.lock = Now.lock /\ S.dsock = A.dsock
        /\ \A d \in Clients : S.cl[d].sock = A.cl[d].sock
    BY <1>3, <1>6, <1>7, EstablishedSound
  <1>9. Held(S)
    <2>1. ASSUME Guarded
          PROVE  dclient \in ToSet(S.u) /\ S.cl[dclient].sock = "up" /\ S.dsock = "live"
      <3>1. dclient \in ToSet(Now.u) /\ Now.cl[dclient].sock = "up" /\ Now.dsock = "live"
        BY <2>1, NowIs DEF Held
      <3>2. dclient \in Clients BY <3>1, NowIs, StatesFields
      <3> QED BY <1>6, <1>7, <1>8, <3>1, <3>2, NowIs
    <2> QED BY <1>8, <2>1 DEF Held
  <1>10. shared' \subseteq Files /\ suspended' \subseteq Files BY <1>5, FilesStep
  <1>11. upsets' \in 0..MaxUpsets BY <1>5 DEF UploadInv, TypeOK
  <1> QED BY <1>4, <1>5, <1>8, <1>9, <1>10, <1>11, PlainHandlerStep

\* A connected peer connects again: it joins the exceptions of Held.
LEMMA PeerReconnectsStep ==
  ASSUME UploadInv, NEW c \in Clients, PeerReconnects(c)
  PROVE  UploadInv'
  <1>1. PICK D : D = DropSocket(Now, c) OBVIOUS
  <1> DEFINE k == [D.cl[c] EXCEPT !.sock = "up"]
  <1>2. PICK A : A = Put(D, c, k) OBVIOUS
  <1>3. PICK S : S = ConnectionEstablished(A, c) OBVIOUS
  <1>4. Handler(S) BY <1>1, <1>2, <1>3 DEF PeerReconnects, Put
  <1>5. /\ UNCHANGED <<fileVars, bannedInSlot>> /\ Upset
        /\ reattached' = reattached \cup {c}
    BY DEF PeerReconnects
  <1>6. /\ D \in States /\ SameLists(Now, D)
        /\ dclient # c => D.dsock = Now.dsock
        /\ \A d \in Clients \ {c} : D.cl[d] = cl[d]
        /\ D.cl[c].us = cl[c].us
        /\ D.cl[c].ds = cl[c].ds /\ D.cl[c].blocks = cl[c].blocks
    BY <1>1, NowIs, DropSocketIs
  <1>7. D.cl[c] \in ClientStates BY <1>6, StatesFields
  <1>8. /\ k \in ClientStates /\ k.us = cl[c].us /\ k.sock = "up"
        /\ k.ds = cl[c].ds /\ k.blocks = cl[c].blocks
    BY <1>6, <1>7 DEF ClientStates
  <1> HIDE DEF k
  <1>9. /\ A \in States /\ SameLists(D, A) /\ A.dsock = D.dsock
        /\ \A d \in Clients \ {c} : A.cl[d] = D.cl[d]
        /\ A.cl[c] = k
    BY <1>2, <1>6, <1>8, PutClient
  <1>10. /\ SameLists(Now, A) /\ \A d \in Clients \ {c} : A.cl[d] = cl[d]
    BY <1>6, <1>9 DEF SameLists
  <1>11. /\ Sound(S, End) /\ SlotsKept(S)
         /\ S.u = m_uploadinglist /\ S.dsock = A.dsock
         /\ \A d \in Clients : S.cl[d].sock = A.cl[d].sock
    BY <1>3, <1>8, <1>9, <1>10, EstablishedSound
  <1>12. SoundFor(S, bannedInSlot') BY <1>5, <1>11 DEF Sound, SoundFor, At
  <1>13. HeldFor(S, bannedInSlot' \cup reattached')
    <2>1. ASSUME dclient # End, dclient \notin bannedInSlot' \cup reattached'
          PROVE  dclient \in ToSet(S.u) /\ S.cl[dclient].sock = "up" /\ S.dsock = "live"
      <3>1. Guarded /\ dclient # c BY <1>5, <2>1 DEF Guarded
      <3>2. dclient \in ToSet(Now.u) /\ Now.cl[dclient].sock = "up" /\ Now.dsock = "live"
        BY <3>1, NowIs DEF Held
      <3>3. dclient \in Clients BY <3>2, NowIs, StatesFields
      <3> QED BY <1>6, <1>9, <1>10, <1>11, <3>1, <3>2, <3>3, NowIs
    <2> QED BY <1>11, <2>1 DEF HeldFor
  <1>14. shared' \subseteq Files /\ suspended' \subseteq Files BY <1>5, FilesStep
  <1>15. upsets' \in 0..MaxUpsets BY <1>5, UpsetStep
  <1>16. bannedInSlot' \subseteq Clients /\ reattached' \subseteq Clients
    BY <1>5 DEF UploadInv, TypeOK
  <1> QED BY <1>4, <1>11, <1>12, <1>13, <1>14, <1>15, <1>16, HandlerStep

\* A client is banned: one with a slot joins the exceptions.
LEMMA BanStep ==
  ASSUME UploadInv, NEW c \in Clients, Ban(c)
  PROVE  UploadInv'
  <1>1. PICK A : A = SetUploadState(Now, c, "US_BANNED") OBVIOUS
  <1>2. PICK S : S = [A EXCEPT !.banned = A.banned \cup {c}] OBVIOUS
  <1>3. Handler(S) BY <1>1, <1>2 DEF Ban
  <1>4. /\ UNCHANGED <<fileVars, reattached>> /\ Upset
        /\ bannedInSlot' = IF c \in ToSet(Now.u) THEN bannedInSlot \cup {c}
                                                 ELSE bannedInSlot
    BY DEF Ban, IsDownloading
  <1>5. "US_BANNED" \in UploadStates BY DEF UploadStates
  <1>6. /\ A \in States /\ SameLists(Now, A) /\ A.dsock = Now.dsock
        /\ \A d \in Clients \ {c} : A.cl[d] = cl[d]
        /\ A.cl[c].us = "US_BANNED" /\ A.cl[c].sock = cl[c].sock
        /\ A.cl[c].ds = cl[c].ds /\ A.cl[c].blocks = cl[c].blocks
    BY <1>1, <1>5, NowIs, SetUploadStateIs
  <1>7. /\ A.w = Now.w /\ A.u = Now.u /\ A.banned = Now.banned /\ A.high = Now.high
        /\ A.lock = Now.lock
    BY <1>6 DEF SameLists
  <1>8. /\ S \in States /\ S.w = Now.w /\ S.u = Now.u /\ S.cl = A.cl
        /\ S.banned = Now.banned \cup {c} /\ S.dsock = Now.dsock
    BY <1>2, <1>6, <1>7 DEF States
  <1>9. S.high = Now.high /\ S.lock = Now.lock BY <1>2, <1>6, <1>7 DEF States
  <1>10. ASSUME NEW d \in Clients
         PROVE  /\ d \notin bannedInSlot' => Agree(S, d, End)
                /\ IF d \in Sources THEN S.cl[d].ds # "DS_NONE" ELSE PlainAgree(S, d)
                /\ d \in ToSet(S.u) /\ S.cl[d].us = "US_CONNECTING" => S.cl[d].sock # "up"
    <2>1. At(Now, d, End) /\ Now.cl = cl BY NowIs DEF Sound
    <2>2. CASE d = c
      <3>1. c \notin bannedInSlot' => Agree(S, c, End)
        BY <1>4, <1>6, <1>8, <2>1, <2>2 DEF At, Agree
      <3>2. c \notin Sources => PlainAgree(S, c)
        BY <1>6, <1>8, <2>1, <2>2 DEF At, PlainAgree
      <3> QED BY <1>6, <1>8, <2>1, <2>2, <3>1, <3>2 DEF At
    <2>3. CASE d # c
      <3>1. S.cl[d] = Now.cl[d] /\ (d \in S.banned <=> d \in Now.banned)
        BY <1>6, <1>8, <2>1, <2>3
      <3>2. d \notin bannedInSlot' => d \notin bannedInSlot BY <1>4
      <3> QED BY <1>8, <2>1, <3>1, <3>2 DEF At, Agree, PlainAgree
    <2> QED BY <2>2, <2>3
  <1>11. SoundFor(S, bannedInSlot') BY <1>8, <1>10, NowIs DEF SoundFor
  <1>12. HeldFor(S, bannedInSlot' \cup reattached')
    <2>1. ASSUME dclient # End, dclient \notin bannedInSlot' \cup reattached'
          PROVE  dclient \in ToSet(S.u) /\ S.cl[dclient].sock = "up" /\ S.dsock = "live"
      <3>1. Guarded BY <1>4, <2>1 DEF Guarded
      <3>2. dclient \in ToSet(Now.u) /\ Now.cl[dclient].sock = "up" /\ Now.dsock = "live"
        BY <3>1, NowIs DEF Held
      <3>3. dclient \in Clients BY <3>2, NowIs, StatesFields
      <3>4. S.cl[dclient].sock = cl[dclient].sock BY <1>6, <1>8, <3>3
      <3> QED BY <1>8, <3>2, <3>4, NowIs
    <2> QED BY <1>8, <2>1, NowIs DEF HeldFor
  <1>13. SlotsKept(S) BY <1>8, <1>9, NowIs DEF SlotsKept
  <1>14. shared' \subseteq Files /\ suspended' \subseteq Files BY <1>4, FilesStep
  <1>15. upsets' \in 0..MaxUpsets BY <1>4, UpsetStep
  <1>16. bannedInSlot' \subseteq Clients /\ reattached' \subseteq Clients
    BY <1>4 DEF UploadInv, TypeOK
  <1> QED BY <1>3, <1>11, <1>12, <1>13, <1>14, <1>15, <1>16, HandlerStep

\* A connection is lost.
LEMMA SocketClosesStep ==
  ASSUME UploadInv, NEW c \in Clients, SocketCloses(c)
  PROVE  UploadInv'
  <1>1. PICK D : D = Disconnected(Now, c) OBVIOUS
  <1>2. /\ Commit(D) /\ Upset /\ UNCHANGED <<diskVars, fileVars, histVars>>
        /\ IF Kept(D, c) THEN UNCHANGED mainVars ELSE mpc' = "delete" /\ it' = c
        /\ mpc = "idle"
    BY <1>1 DEF SocketCloses, Idle
  <1>3. Sound(D, End) /\ Held(D) BY <1>1, NowIs, DisconnectedSound
  <1>4. Len(D.u) <= Len(Now.u) /\ D.high = Now.high BY <1>1, NowIs, DisconnectedIs
  <1>5. Len(D.u) \in Nat /\ Len(Now.u) \in Nat
    BY <1>3, NowIs, StatesFields, LenProperties DEF Sound
  <1>6. SlotsKept(D) BY <1>4, <1>5, NowIs, UploadConstants DEF SlotsKept
  <1>7. /\ mpc' \in {"idle", "delete"} /\ it' \in Clients \cup {End}
        /\ mpc' = "delete" => it' # End
    BY <1>2, UploadConstants DEF UploadInv, TypeOK, mainVars
  <1>8. shared' \subseteq Files /\ suspended' \subseteq Files BY <1>2, FilesStep
  <1>9. upsets' \in 0..MaxUpsets BY <1>2, UpsetStep
  <1>10. OtherTypes' BY <1>2, <1>7, <1>8, <1>9 DEF OtherTypes, UploadInv, TypeOK, histVars
  <1>11. IteratorValid' BY <1>7 DEF IteratorValid, InProcess
  <1> QED BY <1>2, <1>3, <1>6, <1>7, <1>10, <1>11, PlainMainStep

\* The deletion that follows, once the mutex is free.
LEMMA DeleteClientStep ==
  ASSUME UploadInv, DeleteClient
  PROVE  UploadInv'
  <1>1. it \in Clients BY DEF UploadInv, TypeOK, DeleteClient
  <1>2. PICK S : S = Safe_Delete(Now, it) OBVIOUS
  <1>3. /\ Commit(S) /\ mpc' = "idle" /\ it' = End
        /\ UNCHANGED <<diskVars, fileVars, upsets, histVars>>
    BY <1>2 DEF DeleteClient
  <1>4. Sound(S, End) /\ Held(S) /\ Len(S.u) <= Len(Now.u)
    BY <1>1, <1>2, NowIs, Safe_DeleteSound
  <1>5. S.high = Now.high BY <1>1, <1>2, NowIs, Safe_DeleteSound
  <1>6. Len(S.u) \in Nat /\ Len(Now.u) \in Nat
    BY <1>4, NowIs, StatesFields, LenProperties DEF Sound
  <1>7. SlotsKept(S) BY <1>4, <1>5, <1>6, NowIs, UploadConstants DEF SlotsKept
  <1>8. shared' \subseteq Files /\ suspended' \subseteq Files BY <1>3, FilesStep
  <1>9. OtherTypes' BY <1>3, <1>8 DEF OtherTypes, UploadInv, TypeOK, histVars
  <1>10. IteratorValid' BY <1>3 DEF IteratorValid, InProcess
  <1> QED BY <1>3, <1>4, <1>7, <1>9, <1>10, PlainMainStep

\* A file is suspended, resumed or deleted.
LEMMA FileChangeStep ==
  ASSUME UploadInv, NEW f \in Files,
         SuspendUpload(f) \/ ResumeUpload(f) \/ TerminateUpload(f)
  PROVE  UploadInv'
  <1>1. /\ UploadsOf(f) \in Seq(Clients) /\ IsInjective(UploadsOf(f))
        /\ ToSet(UploadsOf(f)) \subseteq ToSet(Now.u)
    <2>1. m_uploadinglist \in Seq(Clients) /\ IsInjective(m_uploadinglist)
      BY NowIs, StatesFields
    <2> QED BY <2>1, NowIs, FilterProperties DEF UploadsOf
  <1>2. ASSUME NEW b \in BOOLEAN, NEW S, S = SuspendAll(Now, UploadsOf(f), b)
        PROVE  Sound(S, End) /\ Held(S) /\ SlotsKept(S)
    <2>1. Sound(S, End) /\ Held(S) /\ Len(S.u) <= Len(Now.u)
      BY <1>1, <1>2, NowIs, SuspendAllSound
    <2>2. S.high = Now.high BY <1>1, <1>2, NowIs, SuspendAllSound
    <2>3. Len(S.u) \in Nat /\ Len(Now.u) \in Nat
      BY <2>1, NowIs, StatesFields, LenProperties DEF Sound
    <2>4. SlotsKept(S) BY <2>1, <2>2, <2>3, NowIs, UploadConstants DEF SlotsKept
    <2> QED BY <2>1, <2>4
  <1>3. shared \subseteq Files /\ suspended \subseteq Files BY DEF UploadInv, TypeOK
  <1>4. CASE SuspendUpload(f)
    <2>1. PICK S : S = SuspendAll(Now, UploadsOf(f), FALSE) OBVIOUS
    <2>2. Handler(S) /\ Upset /\ UNCHANGED <<shared, histVars>>
      BY <1>4, <2>1 DEF SuspendUpload
    <2>3. suspended' \subseteq Files /\ shared' \subseteq Files
      BY <1>3, <1>4 DEF SuspendUpload
    <2>4. upsets' \in 0..MaxUpsets BY <2>2, UpsetStep
    <2>5. Sound(S, End) /\ Held(S) /\ SlotsKept(S) BY <1>2, <2>1
    <2> QED BY <2>2, <2>3, <2>4, <2>5, PlainHandlerStep
  <1>5. CASE ResumeUpload(f)
    <2>1. PICK S : S = Now OBVIOUS
    <2>2. Handler(S) /\ UNCHANGED <<shared, upsets, histVars>>
      BY <1>5, <2>1 DEF ResumeUpload
    <2>3. suspended' \subseteq Files /\ shared' \subseteq Files
      BY <1>3, <1>5 DEF ResumeUpload
    <2>4. upsets' \in 0..MaxUpsets BY <2>2 DEF UploadInv, TypeOK
    <2>5. Sound(S, End) /\ Held(S) /\ SlotsKept(S) BY <2>1, NowIs
    <2> QED BY <2>2, <2>3, <2>4, <2>5, PlainHandlerStep
  <1>6. CASE TerminateUpload(f)
    <2>1. PICK S : S = SuspendAll(Now, UploadsOf(f), TRUE) OBVIOUS
    <2>2. Handler(S) /\ Upset /\ UNCHANGED <<suspended, histVars>>
      BY <1>6, <2>1 DEF TerminateUpload
    <2>3. suspended' \subseteq Files /\ shared' \subseteq Files
      BY <1>3, <1>6 DEF TerminateUpload
    <2>4. upsets' \in 0..MaxUpsets BY <2>2, UpsetStep
    <2>5. Sound(S, End) /\ Held(S) /\ SlotsKept(S) BY <1>2, <2>1
    <2> QED BY <2>2, <2>3, <2>4, <2>5, PlainHandlerStep
  <1> QED BY <1>4, <1>5, <1>6

\* begin() of the list of uploads.
LEMMA BeginIs ==
  ASSUME NEW u \in Seq(Clients)
  PROVE  /\ Begin(u) \in Clients \cup {End}
         /\ Begin(u) # End => Begin(u) \in ToSet(u)
  <1>1. CASE u = <<>> BY <1>1 DEF Begin
  <1>2. CASE u # <<>>
    <2>1. Len(u) \in Nat /\ Len(u) # 0 BY <1>2, EmptySeq, LenProperties
    <2>2. 1 \in 1..Len(u) /\ Head(u) = u[1] /\ Head(u) \in Clients
      BY <1>2, <2>1, HeadTailProperties
    <2> QED BY <1>2, <2>2, ToSetBasics DEF Begin
  <1> QED BY <1>1, <1>2

\* The iterator is moved to another client of the list.
LEMMA SuccessorIs ==
  ASSUME NEW u \in Seq(Clients), IsInjective(u), NEW c \in ToSet(u)
  PROVE  /\ Successor(u, c) \in Clients \cup {End}
         /\ Successor(u, c) # End => Successor(u, c) \in ToSet(u) /\ Successor(u, c) # c
  <1>1. PICK k : k = Position(u, c) OBVIOUS
  <1>2. k \in 1..Len(u) /\ u[k] = c BY <1>1, PositionIs
  <1>3. Len(u) \in Nat /\ DOMAIN u = 1..Len(u) BY LenProperties
  <1>4. CASE k = Len(u) BY <1>1, <1>4 DEF Successor
  <1>5. CASE k # Len(u)
    <2>1. Successor(u, c) = u[k + 1] BY <1>1, <1>5 DEF Successor
    <2>2. k + 1 \in 1..Len(u) /\ k + 1 # k
      <3>1. Len(u) \in Nat BY LenProperties
      <3> QED BY <1>2, <1>5, <3>1
    <2>3. u[k + 1] # c BY <1>2, <1>3, <2>2 DEF IsInjective
    <2>4. u[k + 1] \in ToSet(u) /\ u[k + 1] \in Clients BY <2>2, ToSetBasics, ElementOfSeq
    <2> QED BY <2>1, <2>3, <2>4
  <1> QED BY <1>4, <1>5

\* CUploadQueue::Process fills a slot and starts its loop.
LEMMA ProcessBeginStep ==
  ASSUME UploadInv, ProcessBegin
  PROVE  UploadInv'
  <1>1. UNCHANGED <<fileVars, diskVars, upsets, histVars>> BY DEF ProcessBegin
  <1>2. \E S : /\ Sound(S, End) /\ Held(S) /\ SlotsKept(S) /\ Commit(S)
               /\ it' = Begin(S.u) /\ mpc' \in {"process", "kick"}
    <2>1. CASE Commit(Now) /\ mpc' \in {"process", "kick"} /\ it' = Begin(m_uploadinglist)
      BY <2>1, NowIs
    <2>2. CASE /\ Len(m_uploadinglist) < MaxSlots /\ mpc' = "process"
               /\ \E R \in SortGetBestClient(Now), refused \in BOOLEAN :
                    LET S == TakeBest(R, refused) IN Commit(S) /\ it' = Begin(S.u)
      <3>1. PICK R \in SortGetBestClient(Now), refused \in BOOLEAN :
              Commit(TakeBest(R, refused)) /\ it' = Begin(TakeBest(R, refused).u)
        BY <2>2
      <3>2. PICK S : S = TakeBest(R, refused) OBVIOUS
      <3>3. Sound(R, End) /\ Held(R) /\ R.u = m_uploadinglist
        BY NowIs, SortSound DEF OnlyPurged
      <3>4. Sound(S, End) /\ Held(S) /\ Len(S.u) <= MaxSlots
        BY <2>2, <3>2, <3>3, TakeBestSound
      <3>5. Len(S.u) \in Nat BY <3>4, StatesFields, LenProperties DEF Sound
      <3>6. SlotsKept(S) BY <3>4, <3>5, UploadConstants DEF SlotsKept
      <3> QED BY <2>2, <3>1, <3>2, <3>4, <3>6
    <2> QED BY <2>1, <2>2 DEF ProcessBegin
  <1>3. PICK S : /\ Sound(S, End) /\ Held(S) /\ SlotsKept(S) /\ Commit(S)
                 /\ it' = Begin(S.u) /\ mpc' \in {"process", "kick"}
    BY <1>2
  <1>4. S.u \in Seq(Clients) BY <1>3, StatesFields DEF Sound
  <1>5. it' \in Clients \cup {End} /\ (it' # End => it' \in ToSet(S.u))
    BY <1>3, <1>4, BeginIs
  <1>6. shared' \subseteq Files /\ suspended' \subseteq Files BY <1>1, FilesStep
  <1>7. OtherTypes' BY <1>1, <1>3, <1>5, <1>6 DEF OtherTypes, UploadInv, TypeOK, histVars
  <1>8. IteratorValid' BY <1>3, <1>5 DEF IteratorValid, Uploading, Commit
  <1>9. mpc' # "delete" BY <1>3
  <1> QED BY <1>1, <1>3, <1>7, <1>8, <1>9, PlainMainStep

\* One turn of the loop: the client dealt with is not the one the iterator
\* has moved to.
LEMMA ProcessClientStep ==
  ASSUME UploadInv, ProcessClient
  PROVE  UploadInv'
  <1>1. PICK c : c = it OBVIOUS
  <1>2. /\ UNCHANGED <<fileVars, diskVars, upsets, histVars>>
        /\ InProcess /\ c # End /\ it' = Successor(m_uploadinglist, c)
    BY <1>1 DEF ProcessClient
  <1>3. c \in ToSet(m_uploadinglist) /\ c \in Clients
    BY <1>1, <1>2 DEF UploadInv, IteratorValid, Uploading, TypeOK
  <1>4. PICK U : U = RemoveFromUploadQueue(Now, c) OBVIOUS
  <1>5. Sound(U, End) /\ Held(U) BY <1>3, <1>4, NowIs, RemoveFromUploadQueueSound
  <1>6. /\ Only(Now, U, c) /\ Len(U.u) <= Len(Now.u) /\ U.cl[c].sock = cl[c].sock
    BY <1>3, <1>4, NowIs, RemoveFromUploadQueueIs
  <1>7. U.high = Now.high BY <1>3, <1>4, NowIs, RemoveFromUploadQueueIs
  <1>8. Len(U.u) \in Nat /\ Len(Now.u) \in Nat
    BY <1>5, NowIs, StatesFields, LenProperties DEF Sound
  <1>9. SlotsKept(U) BY <1>6, <1>7, <1>8, NowIs, UploadConstants DEF SlotsKept
  <1>10. ToSet(Now.u) \ {c} \subseteq ToSet(U.u)
    BY <1>6, NowIs, StatesFields DEF Only
  <1>11. \E S : /\ Sound(S, End) /\ Held(S) /\ SlotsKept(S) /\ Commit(S)
                /\ ToSet(Now.u) \ {c} \subseteq ToSet(S.u)
                /\ mpc' \in {"process", "kick"}
    <2>1. CASE Commit(DropClient(U, c)) /\ UNCHANGED mpc
      <3>1. PICK S : S = DropClient(U, c) OBVIOUS
      <3>2. Sound(S, End) /\ Held(S) /\ Only(U, S, c) /\ Len(S.u) <= Len(U.u)
        BY <1>3, <1>5, <3>1, DropClientSound
      <3>3. S.high = U.high BY <1>3, <1>5, <3>1, DropClientSound
      <3>4. Len(S.u) \in Nat BY <3>2, StatesFields, LenProperties DEF Sound
      <3>5. SlotsKept(S) BY <1>8, <1>9, <3>2, <3>3, <3>4, UploadConstants DEF SlotsKept
      <3>6. ToSet(Now.u) \ {c} \subseteq ToSet(S.u)
        BY <1>10, <3>2, NowIs, StatesFields DEF Only
      <3> QED BY <1>2, <2>1, <3>1, <3>2, <3>5, <3>6 DEF InProcess
    <2>2. CASE Commit(U) /\ UNCHANGED mpc
      BY <1>2, <1>5, <1>9, <1>10, <2>2 DEF InProcess
    <2>3. CASE Commit(Now) /\ UNCHANGED mpc
      BY <1>2, <2>3, NowIs DEF InProcess
    <2>4. CASE /\ cl[c].sock = "up" /\ mpc' = "process"
               /\ \E S \in AddClientToQueue(U, c) : Commit(S)
      <3>1. PICK S \in AddClientToQueue(U, c) : Commit(S) BY <2>4
      <3>2. IsConnected(U, c) BY <1>6, <2>4 DEF IsConnected
      <3>3. Sound(S, End) /\ Held(S) /\ SlotsKept(S) /\ ToSet(U.u) \subseteq ToSet(S.u)
        BY <1>3, <1>5, <1>9, <3>2, AddClientToQueueSound
      <3> QED BY <1>10, <2>4, <3>1, <3>3
    <2> QED BY <1>1, <1>4, <2>1, <2>2, <2>3, <2>4 DEF ProcessClient, TimeOver
  <1>12. PICK S : /\ Sound(S, End) /\ Held(S) /\ SlotsKept(S) /\ Commit(S)
                  /\ ToSet(Now.u) \ {c} \subseteq ToSet(S.u)
                  /\ mpc' \in {"process", "kick"}
    BY <1>11
  <1>13. it' \in Clients \cup {End} /\ (it' # End => it' \in ToSet(S.u))
    <2>1. Now.u \in Seq(Clients) BY NowIs, StatesFields
    <2> QED BY <1>2, <1>3, <1>12, <2>1, NowIs, SuccessorIs
  <1>14. shared' \subseteq Files /\ suspended' \subseteq Files BY <1>2, FilesStep
  <1>15. OtherTypes'
    BY <1>2, <1>12, <1>13, <1>14 DEF OtherTypes, UploadInv, TypeOK, histVars
  <1>16. IteratorValid' BY <1>12, <1>13 DEF IteratorValid, Uploading, Commit
  <1>17. mpc' # "delete" BY <1>12
  <1> QED BY <1>2, <1>12, <1>15, <1>16, <1>17, PlainMainStep

\* The sort after the loop.
LEMMA ProcessEndStep ==
  ASSUME UploadInv, ProcessEnd
  PROVE  UploadInv'
  <1>1. UNCHANGED <<it, fileVars, diskVars, upsets, histVars>> /\ mpc' = "idle"
    BY DEF ProcessEnd
  <1>2. \E S : Sound(S, End) /\ Held(S) /\ SlotsKept(S) /\ Commit(S)
    <2>1. CASE Commit(Now) BY <2>1, NowIs
    <2>2. CASE \E S \in SortGetBestClient(Now) : Commit(S)
      <3>1. PICK S \in SortGetBestClient(Now) : Commit(S) BY <2>2
      <3>2. Sound(S, End) /\ Held(S) /\ S.u = Now.u
        BY NowIs, SortSound DEF OnlyPurged
      <3>3. S.high = Now.high BY NowIs, SortSound DEF OnlyPurged
      <3>4. SlotsKept(S) BY <3>2, <3>3, NowIs DEF SlotsKept
      <3> QED BY <3>1, <3>2, <3>4
    <2> QED BY <2>1, <2>2 DEF ProcessEnd
  <1>3. PICK S : Sound(S, End) /\ Held(S) /\ SlotsKept(S) /\ Commit(S) BY <1>2
  <1>4. shared' \subseteq Files /\ suspended' \subseteq Files BY <1>1, FilesStep
  <1>5. OtherTypes' BY <1>1, <1>4 DEF OtherTypes, UploadInv, TypeOK, histVars
  <1>6. IteratorValid' BY <1>1 DEF IteratorValid, InProcess
  <1> QED BY <1>1, <1>3, <1>5, <1>6, PlainMainStep

\* A step that changes no list, no state of a client and no socket, and adds
\* no block.
LEMMA QuietStep ==
  ASSUME UploadInv,
         UNCHANGED <<m_waitinglist, m_uploadinglist, banned, lastupslotHighID,
                     mpc, it, bannedInSlot, reattached>>,
         cl' \in [Clients -> ClientStates], dsock' \in SocketFates,
         \A c \in Clients : /\ cl'[c].us = cl[c].us /\ cl'[c].sock = cl[c].sock
                            /\ cl'[c].ds = cl[c].ds
                            /\ cl'[c].blocks > 0 => cl[c].blocks > 0
  PROVE  /\ Sound(Now, End)' /\ OneExtraSlot' /\ IteratorValid'
         /\ mpc' = "delete" => it' # End
  <1>1. Sound(Now, End)'
    <2>1. /\ Now.w' = Now.w /\ Now.u' = Now.u /\ Now.cl' = cl'
          /\ Now.banned' = Now.banned
      BY DEF Now
    <2>2. Now' \in States BY DEF Now, States, UploadInv, TypeOK
    <2>3. ASSUME NEW c \in Clients PROVE At(Now, c, End)'
      <3>1. At(Now, c, End) /\ Now.cl = cl BY NowIs DEF Sound
      <3>2. c \notin bannedInSlot => Agree(Now, c, End)' BY <2>1, <3>1 DEF At, Agree
      <3>3. c \notin Sources => PlainAgree(Now, c)' BY <2>1, <3>1 DEF At, PlainAgree
      <3> QED BY <2>1, <3>1, <3>2, <3>3 DEF At
    <2> QED BY <2>1, <2>2, <2>3, NowIs DEF Sound, States
  <1>2. OneExtraSlot' BY DEF UploadInv, OneExtraSlot
  <1>3. IteratorValid' BY DEF UploadInv, IteratorValid, InProcess, Uploading
  <1>4. mpc' = "delete" => it' # End BY DEF UploadInv
  <1> QED BY <1>1, <1>2, <1>3, <1>4

\* What QuietStep asks of the clients when none changes.
LEMMA SameClients ==
  ASSUME UploadInv, UNCHANGED cl
  PROVE  /\ cl' \in [Clients -> ClientStates]
         /\ \A c \in Clients : /\ cl'[c].us = cl[c].us /\ cl'[c].sock = cl[c].sock
                               /\ cl'[c].ds = cl[c].ds
                               /\ cl'[c].blocks > 0 => cl[c].blocks > 0
  BY DEF UploadInv, TypeOK

\* A socket that was let go of is freed.
LEMMA FreeSocketStep ==
  ASSUME UploadInv, FreeSocket
  PROVE  UploadInv'
  <1>1. /\ UNCHANGED <<m_waitinglist, m_uploadinglist, banned, lastupslotHighID,
                       mpc, it, bannedInSlot, reattached, cl, shared, suspended,
                       dpc, dtodo, m_listFinishedIO, dclient, upsets>>
        /\ dsock = "destroyed" /\ dsock' = "freed"
    BY DEF FreeSocket, queueVars, fileVars, mainVars, diskVars, histVars
  <1>2. dsock' \in SocketFates BY <1>1 DEF SocketFates
  <1>3. /\ Sound(Now, End)' /\ OneExtraSlot' /\ IteratorValid'
        /\ mpc' = "delete" => it' # End
    BY <1>1, <1>2, SameClients, QuietStep
  <1>4. TypeOK' BY <1>1, <1>2 DEF UploadInv, TypeOK
  <1>5. DiskInv'
    <2>1. ~Guarded BY <1>1 DEF UploadInv, DiskInv
    <2> QED BY <1>1, <2>1 DEF UploadInv, DiskInv, Guarded, Uploading
  <1> QED BY <1>3, <1>4, <1>5 DEF UploadInv

\* A step that changes nothing.
LEMMA StutterStep ==
  ASSUME UploadInv, UNCHANGED vars
  PROVE  UploadInv'
  <1>1. /\ UNCHANGED <<m_waitinglist, m_uploadinglist, banned, lastupslotHighID,
                       mpc, it, bannedInSlot, reattached, cl, shared, suspended,
                       dpc, dtodo, m_listFinishedIO, dclient, upsets, dsock>>
    BY DEF vars, queueVars, fileVars, mainVars, diskVars, histVars
  <1>2. dsock' \in SocketFates BY <1>1 DEF UploadInv, TypeOK
  <1>3. /\ Sound(Now, End)' /\ OneExtraSlot' /\ IteratorValid'
        /\ mpc' = "delete" => it' # End
    BY <1>1, <1>2, SameClients, QuietStep
  <1>4. TypeOK' BY <1>1 DEF UploadInv, TypeOK
  <1>5. DiskInv' BY <1>1 DEF UploadInv, DiskInv, Guarded, Uploading
  <1> QED BY <1>3, <1>4, <1>5 DEF UploadInv

\* Where the disk thread goes when it gives the mutex back.
LEMMA NextDiskIs ==
  ASSUME NEW q
  PROVE  NextDisk(q) \in {"idle", "drain"}
  BY DEF NextDisk

\* Every step of the disk thread.
LEMMA DiskStep ==
  ASSUME UploadInv, Disk
  PROVE  UploadInv'
  <1>1. /\ UNCHANGED <<m_waitinglist, m_uploadinglist, banned, lastupslotHighID,
                       suspended, mpc, it, bannedInSlot, reattached>>
    BY DEF Disk, DiskLock, DiskEnter, DiskRead, DiskUnlock, DiskFind, DiskSend,
           DiskUnchanged, mainVars, histVars
  <1>2. TypeOK /\ DiskInv BY DEF UploadInv
  <1>3. CASE DiskLock
    <2>1. /\ UNCHANGED <<cl, shared, m_listFinishedIO, dclient, dsock, upsets>>
          /\ dpc = "idle" /\ dpc' = "walk" /\ dtodo' = m_uploadinglist
      BY <1>3 DEF DiskLock, DiskUnchanged
    <2>2. TypeOK' BY <1>1, <1>2, <2>1 DEF TypeOK
    <2>3. DiskInv' BY <1>1, <1>2, <2>1 DEF DiskInv, Guarded, Uploading
    <2>4. dsock' \in SocketFates BY <2>2 DEF TypeOK
    <2>5. /\ Sound(Now, End)' /\ OneExtraSlot' /\ IteratorValid'
          /\ mpc' = "delete" => it' # End
      BY <1>1, <2>1, <2>4, SameClients, QuietStep
    <2> QED BY <2>2, <2>3, <2>5 DEF UploadInv
  <1>4. CASE DiskEnter
    <2>1. /\ UNCHANGED <<cl, shared, m_listFinishedIO, upsets>>
          /\ dpc = "walk" /\ dtodo # <<>> /\ dtodo' = Tail(dtodo)
          /\ \/ /\ cl[Head(dtodo)].sock = "up"
                /\ dpc' = "read" /\ dclient' = Head(dtodo) /\ dsock' = "live"
             \/ UNCHANGED <<dpc, dclient, dsock>>
      BY <1>4, NowIs DEF DiskEnter, DiskUnchanged, IsConnected
    <2>2. /\ Tail(dtodo) \in Seq(Clients) /\ ToSet(Tail(dtodo)) \subseteq ToSet(dtodo)
          /\ Head(dtodo) \in ToSet(dtodo) /\ Head(dtodo) \in Clients
      <3>1. dtodo \in Seq(Clients) BY <1>2 DEF TypeOK
      <3>2. Len(dtodo) \in Nat /\ Len(dtodo) # 0
        BY <2>1, <3>1, EmptySeq, LenProperties
      <3>3. 1 \in 1..Len(dtodo) /\ Head(dtodo) = dtodo[1]
        BY <2>1, <3>1, <3>2, HeadTailProperties
      <3>4. Head(dtodo) \in ToSet(dtodo) /\ Head(dtodo) \in Clients
        BY <3>1, <3>3, ToSetBasics, ElementOfSeq
      <3> QED BY <2>1, <3>1, <3>4, HeadTailProperties, ToSetTail
    <2>3. TypeOK' BY <1>1, <1>2, <2>1, <2>2 DEF TypeOK, SocketFates
    <2>4. ToSet(dtodo) \subseteq Uploading /\ dclient = End
      BY <1>2, <2>1 DEF DiskInv
    <2>5. DiskInv'
      <3>1. Head(dtodo) # End BY <2>2, UploadConstants
      <3> QED BY <1>1, <2>1, <2>2, <2>4, <3>1 DEF DiskInv, Guarded, Uploading
    <2>6. dsock' \in SocketFates BY <2>3 DEF TypeOK
    <2>7. /\ Sound(Now, End)' /\ OneExtraSlot' /\ IteratorValid'
          /\ mpc' = "delete" => it' # End
      BY <1>1, <2>1, <2>6, SameClients, QuietStep
    <2> QED BY <2>3, <2>5, <2>7 DEF UploadInv
  <1>5. CASE DiskRead
    <2>1. PICK n \in Readable(dclient), fails \in BOOLEAN, unshare \in BOOLEAN :
            /\ IF fails /\ FileOf[dclient] \in shared THEN Upset ELSE UNCHANGED upsets
            /\ cl' = [cl EXCEPT ![dclient].blocks = @ - n,
                                ![dclient].ioError = @ \/ fails]
            /\ shared' = IF unshare THEN shared \ {FileOf[dclient]} ELSE shared
            /\ m_listFinishedIO' = m_listFinishedIO \o [k \in 1..n |-> dclient]
      BY <1>5 DEF DiskRead
    <2>2. /\ dpc = "read" /\ dpc' = "walk" /\ dclient' = End /\ dsock' = "none"
          /\ dtodo' = dtodo
      BY <1>5 DEF DiskRead
    <2>3. dclient \in Clients BY <1>2, <2>2 DEF DiskInv, TypeOK
    <2>4. cl[dclient] \in ClientStates /\ cl \in [Clients -> ClientStates]
      BY <1>2, <2>3 DEF TypeOK
    <2>5. n \in 0..cl[dclient].blocks /\ cl[dclient].blocks \in 0..MaxBlocks
      BY <2>4 DEF Readable, ClientStates
    <2>6. PICK b \in 0..MaxBlocks, e \in BOOLEAN :
            b = cl[dclient].blocks - n /\ e = (cl[dclient].ioError \/ fails)
      <3>1. cl[dclient].blocks - n \in 0..MaxBlocks BY <2>5, UploadConstants
      <3>2. (cl[dclient].ioError \/ fails) \in BOOLEAN OBVIOUS
      <3> QED BY <3>1, <3>2
    <2>0. PICK k : k = [cl[dclient] EXCEPT !.blocks = b, !.ioError = e] OBVIOUS
    <2>7. cl' = [cl EXCEPT ![dclient] = k] BY <2>0, <2>1, <2>3, <2>4, <2>6
    <2>8. /\ k \in ClientStates /\ k.us = cl[dclient].us /\ k.sock = cl[dclient].sock
          /\ k.ds = cl[dclient].ds /\ k.blocks = b
      BY <2>0, <2>4, <2>6 DEF ClientStates
    <2>9. k.blocks > 0 => cl[dclient].blocks > 0 BY <2>5, <2>6, <2>8, UploadConstants
    <2>10. /\ cl' \in [Clients -> ClientStates]
           /\ \A c \in Clients : /\ cl'[c].us = cl[c].us /\ cl'[c].sock = cl[c].sock
                                 /\ cl'[c].ds = cl[c].ds
                                 /\ cl'[c].blocks > 0 => cl[c].blocks > 0
      BY <2>3, <2>4, <2>7, <2>8, <2>9
    <2>11. m_listFinishedIO' \in Seq(Clients)
      <3>1. n \in Nat BY <2>5, UploadConstants
      <3>2. [j \in 1..n |-> dclient] \in Seq(Clients) BY <2>3, <3>1, IsASeq
      <3> QED BY <1>2, <2>1, <3>2, ConcatProperties DEF TypeOK
    <2>12. upsets' \in 0..MaxUpsets
      <3>1. CASE Upset BY <3>1, UpsetStep
      <3>2. CASE UNCHANGED upsets BY <1>2, <3>2 DEF TypeOK
      <3> QED BY <2>1, <3>1, <3>2
    <2>13. shared' \subseteq Files BY <1>2, <2>1 DEF TypeOK
    <2>14. dsock' \in SocketFates BY <2>2 DEF SocketFates
    <2>15. TypeOK'
      BY <1>1, <1>2, <2>2, <2>10, <2>11, <2>12, <2>13, <2>14 DEF TypeOK
    <2>16. DiskInv' BY <1>1, <1>2, <2>2 DEF DiskInv, Guarded, Uploading
    <2>17. /\ Sound(Now, End)' /\ OneExtraSlot' /\ IteratorValid'
           /\ mpc' = "delete" => it' # End
      BY <1>1, <2>10, <2>14, QuietStep
    <2> QED BY <2>15, <2>16, <2>17 DEF UploadInv
  <1>6. CASE DiskUnlock
    <2>1. /\ UNCHANGED <<cl, shared, m_listFinishedIO, dclient, dsock, upsets, dtodo>>
          /\ dpc = "walk" /\ dpc' \in {"idle", "drain"}
      BY <1>6, NextDiskIs DEF DiskUnlock, DiskUnchanged
    <2>2. TypeOK' BY <1>1, <1>2, <2>1 DEF TypeOK
    <2>3. DiskInv' BY <1>1, <1>2, <2>1 DEF DiskInv, Guarded, Uploading
    <2>4. dsock' \in SocketFates BY <2>2 DEF TypeOK
    <2>5. /\ Sound(Now, End)' /\ OneExtraSlot' /\ IteratorValid'
          /\ mpc' = "delete" => it' # End
      BY <1>1, <2>1, <2>4, SameClients, QuietStep
    <2> QED BY <2>2, <2>3, <2>5 DEF UploadInv
  <1>7. CASE DiskFind
    <2>1. PICK c : c = Head(m_listFinishedIO) OBVIOUS
    <2>2. /\ UNCHANGED <<shared, dtodo, upsets>>
          /\ dpc = "drain" /\ m_listFinishedIO # <<>>
          /\ m_listFinishedIO' = Tail(m_listFinishedIO)
      BY <1>7 DEF DiskFind, DiskUnchanged
    <2>3. Tail(m_listFinishedIO) \in Seq(Clients) /\ c \in Clients
      BY <1>2, <2>1, <2>2, HeadTailProperties DEF TypeOK
    <2>4. \/ /\ dpc' \in {"idle", "drain"} /\ UNCHANGED <<cl, dclient, dsock>>
          \/ /\ cl' = [cl EXCEPT ![c].ioError = TRUE]
             /\ dpc' \in {"idle", "drain"} /\ UNCHANGED <<dclient, dsock>>
          \/ /\ c \in Uploading /\ cl[c].sock = "up"
             /\ dpc' = "send" /\ dclient' = c /\ dsock' = "live" /\ UNCHANGED cl
      BY <1>7, <2>1, NextDiskIs, NowIs DEF DiskFind, IsDownloading, IsConnected, Uploading
    <2>5. /\ cl' \in [Clients -> ClientStates]
          /\ \A d \in Clients : /\ cl'[d].us = cl[d].us /\ cl'[d].sock = cl[d].sock
                                /\ cl'[d].ds = cl[d].ds
                                /\ cl'[d].blocks > 0 => cl[d].blocks > 0
      <3>1. CASE UNCHANGED cl BY <3>1, SameClients
      <3>2. CASE cl' = [cl EXCEPT ![c].ioError = TRUE]
        <4>1. cl[c] \in ClientStates /\ cl \in [Clients -> ClientStates]
          BY <1>2, <2>3 DEF TypeOK
        <4>2. PICK k : k = [cl[c] EXCEPT !.ioError = TRUE] OBVIOUS
        <4>3. cl' = [cl EXCEPT ![c] = k] BY <3>2, <4>1, <4>2
        <4>4. /\ k \in ClientStates /\ k.us = cl[c].us /\ k.sock = cl[c].sock
              /\ k.ds = cl[c].ds /\ k.blocks = cl[c].blocks
          BY <4>1, <4>2 DEF ClientStates
        <4> QED BY <2>3, <4>1, <4>3, <4>4
      <3> QED BY <2>4, <3>1, <3>2
    <2>6. TypeOK' BY <1>1, <1>2, <2>2, <2>3, <2>4, <2>5 DEF TypeOK, SocketFates
    <2>7. DiskInv'
      <3>1. dclient = End /\ c # End BY <1>2, <2>2, <2>3, UploadConstants DEF DiskInv
      <3> QED BY <1>1, <2>2, <2>4, <3>1 DEF DiskInv, Guarded, Uploading
    <2>8. dsock' \in SocketFates BY <2>6 DEF TypeOK
    <2>9. /\ Sound(Now, End)' /\ OneExtraSlot' /\ IteratorValid'
          /\ mpc' = "delete" => it' # End
      BY <1>1, <2>5, <2>8, QuietStep
    <2> QED BY <2>6, <2>7, <2>9 DEF UploadInv
  <1>8. CASE DiskSend
    <2>1. /\ UNCHANGED <<cl, shared, m_listFinishedIO, upsets, dtodo>>
          /\ dpc = "send" /\ dpc' \in {"idle", "drain"}
          /\ dclient' = End /\ dsock' = "none"
      BY <1>8, NextDiskIs DEF DiskSend, DiskUnchanged
    <2>2. TypeOK' BY <1>1, <1>2, <2>1 DEF TypeOK, SocketFates
    <2>3. DiskInv' BY <1>1, <1>2, <2>1 DEF DiskInv, Guarded, Uploading
    <2>4. dsock' \in SocketFates BY <2>2 DEF TypeOK
    <2>5. /\ Sound(Now, End)' /\ OneExtraSlot' /\ IteratorValid'
          /\ mpc' = "delete" => it' # End
      BY <1>1, <2>1, <2>4, SameClients, QuietStep
    <2> QED BY <2>2, <2>3, <2>5 DEF UploadInv
  <1> QED BY <1>3, <1>4, <1>5, <1>6, <1>7, <1>8 DEF Disk

------------------------------------------------------------------------------
\* The invariant holds at the start.
LEMMA InitStep ==
  ASSUME Init
  PROVE  UploadInv
  <1>1. <<>> \in Seq(Clients) /\ ToSet(<<>>) = {} /\ IsInjective(<<>>) /\ Len(<<>>) = 0
    <2>1. <<>> \in Seq(Clients) /\ Len(<<>>) = 0 BY EmptySeq
    <2>2. DOMAIN <<>> = {} OBVIOUS
    <2> QED BY <2>1, <2>2, ToSetBasics DEF IsInjective
  <1>2. \A c : Once(<<>>, c) BY DEF Once
  <1>3. ASSUME NEW c \in Clients PROVE Fresh(c) \in ClientStates
    BY UploadConstants DEF Fresh, ClientStates, UploadStates
  <1>4. cl \in [Clients -> ClientStates] BY <1>3 DEF Init
  <1>5. TypeOK BY <1>1, <1>4, UploadConstants DEF Init, TypeOK, SocketFates
  <1>6. Sound(Now, End)
    <2>1. Now \in States BY <1>5 DEF Now, States, TypeOK
    <2>2. /\ Now.w = <<>> /\ Now.u = <<>> /\ Now.cl = cl BY DEF Init, Now
    <2>3. ASSUME NEW c \in Clients PROVE At(Now, c, End)
      <3>1. /\ cl[c].us = "US_NONE" /\ cl[c].blocks = 0
            /\ cl[c].ds = IF c \in Sources THEN "DS_ONQUEUE" ELSE "DS_NONE"
        BY DEF Init, Fresh
      <3> QED BY <1>1, <1>2, <2>2, <3>1 DEF At, Agree, PlainAgree
    <2> QED BY <1>1, <2>1, <2>2, <2>3 DEF Sound
  <1>7. OneExtraSlot BY <1>1, UploadConstants DEF Init, OneExtraSlot
  <1>8. IteratorValid BY DEF Init, IteratorValid
  <1>9. DiskInv BY DEF Init, DiskInv, Guarded
  <1>10. mpc = "delete" => it # End BY DEF Init
  <1> QED BY <1>5, <1>6, <1>7, <1>8, <1>9, <1>10 DEF UploadInv

\* Every step of the two threads and of the peers keeps the invariant.
LEMMA NextStep ==
  ASSUME UploadInv, [Next]_vars
  PROVE  UploadInv'
  <1>1. CASE Connection
    BY <1>1, PeerConnectsStep, PeerReconnectsStep, SocketClosesStep, DeleteClientStep,
       FreeSocketStep DEF Connection
  <1>2. CASE Peer
    BY <1>2, StartUploadReqStep, CancelTransferStep, AddReqBlockStep, BanStep,
       SourceStep, AgesStep DEF Peer
  <1>3. CASE FileChange BY <1>3, FileChangeStep DEF FileChange
  <1>4. CASE Process
    BY <1>4, ProcessBeginStep, ProcessClientStep, ProcessEndStep DEF Process
  <1>5. CASE Disk BY <1>5, DiskStep
  <1>6. CASE UNCHANGED vars BY <1>6, StutterStep
  <1> QED BY <1>1, <1>2, <1>3, <1>4, <1>5, <1>6 DEF Next

\* The inductive invariant of the upload queue holds in every behaviour.
THEOREM UploadInvariant == Spec => []UploadInv
  <1>1. Init => UploadInv BY InitStep
  <1>2. UploadInv /\ [Next]_vars => UploadInv' BY NextStep
  <1> QED BY <1>1, <1>2, PTL DEF Spec

\* Every variable of the queue and of the disk thread keeps its type.
THEOREM UploadTypeCorrect == Spec => []TypeOK
  <1>1. UploadInv => TypeOK BY DEF UploadInv
  <1> QED BY <1>1, UploadInvariant, PTL

\* How often an element is in a list, when that is at most once.
LEMMA OnceCount ==
  ASSUME NEW A, NEW s \in Seq(A), NEW c, Once(s, c)
  PROVE  Cardinality({k \in DOMAIN s : s[k] = c}) = IF c \in ToSet(s) THEN 1 ELSE 0
  <1>1. /\ DOMAIN s = 1..Len(s)
        /\ c \in ToSet(s) <=> \E k \in 1..Len(s) : s[k] = c
    BY LenProperties, ToSetBasics
  <1>2. CASE c \in ToSet(s)
    <2>1. PICK k \in DOMAIN s : s[k] = c BY <1>1, <1>2
    <2>2. {j \in DOMAIN s : s[j] = c} = {k} BY <2>1 DEF Once
    <2>3. Cardinality({k}) = 1 BY FS_Singleton
    <2> QED BY <1>2, <2>2, <2>3
  <1>3. CASE c \notin ToSet(s)
    <2>1. {j \in DOMAIN s : s[j] = c} = {} BY <1>1, <1>3
    <2>2. Cardinality({}) = 0 BY FS_EmptySet
    <2> QED BY <1>3, <2>1, <2>2
  <1> QED BY <1>2, <1>3

\* The lists, the states of the clients and their block queues always agree,
\* for every number of clients, slots and files: AddClientToQueue,
\* AddUpNextClient, SuspendUpload, Process and a lost connection leave a client
\* in one list at most, and there once.
THEOREM ListsStayAgreed == Spec => []ListsAgree
  <1>1. ASSUME UploadInv PROVE ListsAgree
    <2> SUFFICES ASSUME NEW c \in Clients \ bannedInSlot
                 PROVE  /\ Cardinality({k \in DOMAIN m_waitinglist : m_waitinglist[k] = c})
                             + Cardinality({k \in DOMAIN m_uploadinglist : m_uploadinglist[k] = c})
                               <= 1
                        /\ c \in Waiting => cl[c].us \in {"US_ONUPLOADQUEUE", "US_BANNED"}
                        /\ c \in Uploading => cl[c].us \in {"US_UPLOADING", "US_CONNECTING"}
                        /\ cl[c].us = "US_UPLOADING" => c \in Uploading /\ cl[c].sock = "up"
                        /\ cl[c].blocks > 0 => c \in Uploading
      BY DEF ListsAgree
    <2>1. At(Now, c, End) BY <1>1, NowIs DEF Sound
    <2>2. Agree(Now, c, End) /\ c # End BY <2>1, UploadConstants DEF At
    <2>3. /\ Now.w = m_waitinglist /\ Now.u = m_uploadinglist /\ Now.cl = cl
          /\ m_waitinglist \in Seq(Clients) /\ m_uploadinglist \in Seq(Clients)
          /\ IsInjective(m_uploadinglist)
      BY <1>1, NowIs, StatesFields
    <2>4. Once(m_waitinglist, c) /\ Once(m_uploadinglist, c)
      BY <2>2, <2>3, InjectiveOnce DEF Agree
    <2>5. /\ Cardinality({k \in DOMAIN m_waitinglist : m_waitinglist[k] = c})
               = IF c \in ToSet(m_waitinglist) THEN 1 ELSE 0
          /\ Cardinality({k \in DOMAIN m_uploadinglist : m_uploadinglist[k] = c})
               = IF c \in ToSet(m_uploadinglist) THEN 1 ELSE 0
      BY <2>3, <2>4, OnceCount
    <2>6. ~(c \in ToSet(m_waitinglist) /\ c \in ToSet(m_uploadinglist))
      BY <2>2, <2>3 DEF Agree
    <2>7. Cardinality({k \in DOMAIN m_waitinglist : m_waitinglist[k] = c})
            + Cardinality({k \in DOMAIN m_uploadinglist : m_uploadinglist[k] = c}) <= 1
      BY <2>5, <2>6
    <2> QED BY <2>2, <2>3, <2>7 DEF Agree, Waiting, Uploading
  <1> QED BY <1>1, UploadInvariant, PTL

\* There is never a second slot above the limit, whichever of the three ways
\* to a slot a client takes.
THEOREM ExtraSlotIsSingle == Spec => []OneExtraSlot
  <1>1. UploadInv => OneExtraSlot BY DEF UploadInv
  <1> QED BY <1>1, UploadInvariant, PTL

\* The iterator of Process always points to a client of the list, although
\* the loop kicks, purges and deletes clients.
THEOREM IteratorStaysValid == Spec => []IteratorValid
  <1>1. UploadInv => IteratorValid BY DEF UploadInv
  <1> QED BY <1>1, UploadInvariant, PTL

\* The disk thread never uses a socket that was freed, nor a client without a
\* slot, unless the client was banned in its slot or connected again.
THEOREM SocketStaysWhileUsed == Spec => []SocketOutlivesUse
  <1>1. UploadInv => SocketOutlivesUse
    BY DEF UploadInv, DiskInv, Guarded, SocketOutlivesUse
  <1> QED BY <1>1, UploadInvariant, PTL

------------------------------------------------------------------------------
(***************************************************************************)
(* The action property.  Beside UploadInv it needs that only a LowID       *)
(* client's turn comes before it is there.                                 *)
(***************************************************************************)
KeepsPlaces ==
  \A c \in Waiting \ Waiting' :
    \/ c \in Uploading'
    \/ cl'[c] = Fresh(c)
    \/ FileOf[c] \notin shared \/ cl[c].old
    \/ c \in LowID /\ FileOf[c] \in suspended

PlacesStep == KeepsPlaces /\ NextLow(Now)'

\* A handler ends with a record for which this is known ...
LEMMA PlacesCommit ==
  ASSUME UploadInv, NEW S, Commit(S), PlacesKept(Now, S), NextLow(S)
  PROVE  PlacesStep
  <1>1. m_waitinglist' = S.w /\ m_uploadinglist' = S.u /\ cl' = S.cl BY DEF Commit
  <1>2. Now.w = m_waitinglist /\ Now.cl = cl BY NowIs
  <1>3. KeepsPlaces
    BY <1>1, <1>2 DEF KeepsPlaces, PlacesKept, Excused, Waiting, Uploading
  <1>4. NextLow(Now)'
    <2>1. Now.cl' = S.cl BY <1>1 DEF Now
    <2> QED BY <2>1 DEF NextLow
  <1> QED BY <1>3, <1>4 DEF PlacesStep

\* ... or with one in which nobody left.
LEMMA PlacesStay ==
  ASSUME UploadInv, NextLow(Now), NEW S, Commit(S), WaitersStay(Now, S)
  PROVE  PlacesStep
  <1>1. PlacesKept(Now, S) BY DEF PlacesKept, WaitersStay
  <1>2. NextLow(S) BY DEF NextLow, WaitersStay
  <1> QED BY <1>1, <1>2, PlacesCommit

\* A step that leaves the waiting list and everybody's turn alone.
LEMMA PlacesQuiet ==
  ASSUME NextLow(Now), UNCHANGED m_waitinglist,
         \A d \in Clients : cl'[d].addNext = cl[d].addNext
  PROVE  PlacesStep
  <1>1. KeepsPlaces BY DEF KeepsPlaces, Waiting
  <1>2. Now.cl = cl /\ Now.cl' = cl' BY DEF Now
  <1>3. NextLow(Now)' BY <1>2 DEF NextLow
  <1> QED BY <1>1, <1>3 DEF PlacesStep

\* What the peers do to a client's record.
LEMMA PlacesRecord ==
  ASSUME UploadInv, NextLow(Now), NEW c \in Clients,
         AddReqBlock(c) \/ SourceStarts(c) \/ SourceStops(c) \/ Ages(c)
  PROVE  PlacesStep
  <1>1. cl \in [Clients -> ClientStates] /\ cl[c] \in ClientStates
    BY DEF UploadInv, TypeOK
  <1>2. UNCHANGED m_waitinglist
    BY NowIs DEF AddReqBlock, SourceStarts, SourceStops, Ages, Handler, Commit, Now
  <1>3. \/ cl' = [cl EXCEPT ![c].blocks = @ + 1]
        \/ cl' = [cl EXCEPT ![c].ds = "DS_DOWNLOADING"]
        \/ cl' = [cl EXCEPT ![c].ds = "DS_ONQUEUE"]
        \/ cl' = [cl EXCEPT ![c].old = TRUE]
    BY DEF AddReqBlock, SourceStarts, SourceStops, Ages, Handler, Commit, Now
  <1>4. \A d \in Clients : cl'[d].addNext = cl[d].addNext
    BY <1>1, <1>3 DEF ClientStates
  <1> QED BY <1>2, <1>4, PlacesQuiet

\* A handler that changed only c, and not its turn.
LEMMA OnlyStays ==
  ASSUME NEW S, NEW R, NEW c \in Clients, Only(S, R, c), NoNewClaim(S, R, c), R.w = S.w
  PROVE  WaitersStay(S, R)
  BY DEF WaitersStay, Only, NoNewClaim

\* Requests, bans and cancelled transfers.
LEMMA PlacesPeer ==
  ASSUME UploadInv, NextLow(Now), Peer
  PROVE  PlacesStep
  <1>1. PICK c \in Clients :
          \/ StartUploadReq(c) \/ CancelTransfer(c) \/ Ban(c)
          \/ AddReqBlock(c) \/ SourceStarts(c) \/ SourceStops(c) \/ Ages(c)
    BY DEF Peer
  <1>2. CASE AddReqBlock(c) \/ SourceStarts(c) \/ SourceStops(c) \/ Ages(c)
    BY <1>2, PlacesRecord
  <1>3. CASE StartUploadReq(c)
    <2>1. PICK S \in AddClientToQueue(Now, c) : Handler(S) BY <1>3 DEF StartUploadReq
    <2>2. IsConnected(Now, c) BY <1>3 DEF StartUploadReq
    <2>3. PlacesKept(Now, S) /\ NextLow(S)
      BY <2>1, <2>2, NowIs, AddClientToQueueSound
    <2> QED BY <2>1, <2>3, PlacesCommit DEF Handler
  <1>4. CASE CancelTransfer(c)
    <2>1. PICK S : S = RemoveFromUploadQueue(Now, c) OBVIOUS
    <2>2. Commit(S) BY <1>4, <2>1 DEF CancelTransfer, Handler
    <2>3. Only(Now, S, c) /\ SameClaims(Now, S, c) /\ S.w = Now.w
      BY <2>1, NowIs, RemoveFromUploadQueueIs
    <2>4. WaitersStay(Now, S) BY <2>3, OnlyStays DEF SameClaims, NoNewClaim
    <2> QED BY <2>2, <2>4, PlacesStay
  <1>5. CASE Ban(c)
    <2>1. PICK M : M = SetUploadState(Now, c, "US_BANNED") OBVIOUS
    <2>2. PICK S : S = [M EXCEPT !.banned = @ \cup {c}] OBVIOUS
    <2>3. Commit(S) BY <1>5, <2>1, <2>2 DEF Ban, Handler
    <2>4. "US_BANNED" \in UploadStates BY DEF UploadStates
    <2>5. /\ M \in States /\ SameLists(Now, M) /\ SameClaims(Now, M, c)
          /\ \A d \in Clients \ {c} : M.cl[d] = Now.cl[d]
      BY <2>1, <2>4, NowIs, SetUploadStateIs
    <2>6. S.w = M.w /\ S.cl = M.cl BY <2>2, <2>5 DEF States
    <2>7. WaitersStay(Now, S)
      BY <2>5, <2>6 DEF WaitersStay, SameLists, SameClaims
    <2> QED BY <2>3, <2>7, PlacesStay
  <1> QED BY <1>1, <1>2, <1>3, <1>4, <1>5

\* A connection is made, replaced or lost, and the client deleted.
LEMMA PlacesConnection ==
  ASSUME UploadInv, NextLow(Now), Connection
  PROVE  PlacesStep
  <1>1. ASSUME NEW c \in Clients, NEW A \in States, SameLists(Now, A),
               \A d \in Clients : A.cl[d].addNext = Now.cl[d].addNext,
               NEW S, S = ConnectionEstablished(A, c), Commit(S)
        PROVE  PlacesStep
    <2>1. A.w = Now.w BY <1>1 DEF SameLists
    <2>2. CASE S = A
      <3>1. WaitersStay(Now, S) BY <1>1, <2>1, <2>2 DEF WaitersStay
      <3> QED BY <1>1, <3>1, PlacesStay
    <2>3. CASE S = SetUploadState(A, c, "US_UPLOADING")
      <3>1. "US_UPLOADING" \in UploadStates BY DEF UploadStates
      <3>2. /\ SameLists(A, S) /\ SameClaims(A, S, c)
            /\ \A d \in Clients \ {c} : S.cl[d] = A.cl[d]
        BY <1>1, <2>3, <3>1, SetUploadStateIs
      <3>3. WaitersStay(Now, S)
        BY <1>1, <2>1, <3>2 DEF WaitersStay, SameLists, SameClaims
      <3> QED BY <1>1, <3>3, PlacesStay
    <2> QED BY <1>1, <2>2, <2>3 DEF ConnectionEstablished
  <1>2. ASSUME NEW c \in Clients, NEW B \in States, SameLists(Now, B),
               \A d \in Clients : B.cl[d].addNext = Now.cl[d].addNext,
               NEW A, A = [B EXCEPT !.cl[c].sock = "up"]
        PROVE  /\ A \in States /\ SameLists(Now, A)
               /\ \A d \in Clients : A.cl[d].addNext = Now.cl[d].addNext
    <2>1. PICK k : k = [B.cl[c] EXCEPT !.sock = "up"] OBVIOUS
    <2>2. B.cl[c] \in ClientStates BY <1>2, StatesFields
    <2>3. k \in ClientStates /\ k.addNext = B.cl[c].addNext
      BY <2>1, <2>2 DEF ClientStates
    <2>4. A = Put(B, c, k) BY <1>2, <2>1 DEF Put
    <2>5. /\ A \in States /\ SameLists(B, A) /\ A.cl[c] = k
          /\ \A d \in Clients \ {c} : A.cl[d] = B.cl[d]
      BY <2>3, <2>4, PutClient
    <2> QED BY <1>2, <2>3, <2>5 DEF SameLists
  <1>3. ASSUME NEW c \in Clients, PeerConnects(c) PROVE PlacesStep
    <2>1. PICK A : A = [Now EXCEPT !.cl[c].sock = "up"] OBVIOUS
    <2>2. Commit(ConnectionEstablished(A, c)) BY <1>3, <2>1 DEF PeerConnects, Handler
    <2>3. /\ A \in States /\ SameLists(Now, A)
          /\ \A d \in Clients : A.cl[d].addNext = Now.cl[d].addNext
      BY <1>2, <2>1, NowIs DEF SameLists
    <2> QED BY <1>1, <2>2, <2>3
  <1>4. ASSUME NEW c \in Clients, PeerReconnects(c) PROVE PlacesStep
    <2>1. PICK B : B = DropSocket(Now, c) OBVIOUS
    <2>2. PICK A : A = [B EXCEPT !.cl[c].sock = "up"] OBVIOUS
    <2>3. Commit(ConnectionEstablished(A, c))
      BY <1>4, <2>1, <2>2 DEF PeerReconnects, Handler
    <2>4. /\ B \in States /\ SameLists(Now, B) /\ SameClaims(Now, B, c)
          /\ \A d \in Clients \ {c} : B.cl[d] = Now.cl[d]
      BY <2>1, NowIs, DropSocketIs
    <2>5. \A d \in Clients : B.cl[d].addNext = Now.cl[d].addNext
      BY <2>4 DEF SameClaims
    <2>6. /\ A \in States /\ SameLists(Now, A)
          /\ \A d \in Clients : A.cl[d].addNext = Now.cl[d].addNext
      BY <1>2, <2>2, <2>4, <2>5
    <2> QED BY <1>1, <2>3, <2>6
  <1>5. ASSUME NEW c \in Clients, SocketCloses(c) PROVE PlacesStep
    <2>1. PICK S : S = Disconnected(Now, c) OBVIOUS
    <2>2. Commit(S) BY <1>5, <2>1 DEF SocketCloses
    <2>3. Only(Now, S, c) /\ SameClaims(Now, S, c) /\ S.w = Now.w
      BY <2>1, NowIs, DisconnectedIs
    <2>4. WaitersStay(Now, S) BY <2>3, OnlyStays DEF SameClaims, NoNewClaim
    <2> QED BY <2>2, <2>4, PlacesStay
  <1>6. CASE DeleteClient
    <2>1. it \in Clients BY <1>6 DEF UploadInv, TypeOK, DeleteClient
    <2>2. PICK S : S = Safe_Delete(Now, it) OBVIOUS
    <2>3. Commit(S) BY <1>6, <2>2 DEF DeleteClient
    <2>4. Only(Now, S, it) /\ S.cl[it] = Fresh(it)
      BY <2>1, <2>2, NowIs, Safe_DeleteSound
    <2>5. PlacesKept(Now, S)
      <3>1. ToSet(Now.w) \subseteq Clients BY NowIs, StatesFields
      <3> QED BY <2>4, <3>1 DEF PlacesKept, Excused, Only
    <2>6. NextLow(S) BY <2>4 DEF NextLow, Only, Fresh
    <2> QED BY <2>3, <2>5, <2>6, PlacesCommit
  <1>7. CASE FreeSocket BY <1>7, PlacesQuiet DEF FreeSocket, queueVars
  <1> QED BY <1>3, <1>4, <1>5, <1>6, <1>7 DEF Connection

\* A file is suspended, resumed or deleted.
LEMMA PlacesFiles ==
  ASSUME UploadInv, NextLow(Now), FileChange
  PROVE  PlacesStep
  <1>1. PICK f \in Files : SuspendUpload(f) \/ ResumeUpload(f) \/ TerminateUpload(f)
    BY DEF FileChange
  <1>2. /\ UploadsOf(f) \in Seq(Clients) /\ IsInjective(UploadsOf(f))
        /\ ToSet(UploadsOf(f)) \subseteq ToSet(Now.u)
    <2>1. m_uploadinglist \in Seq(Clients) /\ IsInjective(m_uploadinglist)
      BY NowIs, StatesFields
    <2> QED BY <2>1, NowIs, FilterProperties DEF UploadsOf
  <1>3. ASSUME NEW b \in BOOLEAN, Commit(SuspendAll(Now, UploadsOf(f), b)) PROVE PlacesStep
    <2>1. PICK S : S = SuspendAll(Now, UploadsOf(f), b) OBVIOUS
    <2>2. WaitersStay(Now, S) BY <1>2, <2>1, NowIs, SuspendAllSound
    <2> QED BY <1>3, <2>1, <2>2, PlacesStay
  <1>4. CASE ResumeUpload(f)
    <2>1. Commit(Now) BY <1>4 DEF ResumeUpload, Handler
    <2>2. WaitersStay(Now, Now) BY DEF WaitersStay
    <2> QED BY <2>1, <2>2, PlacesStay
  <1> QED BY <1>1, <1>3, <1>4 DEF SuspendUpload, TerminateUpload, Handler

\* Process fills a slot, walks the uploads and sorts the waiting list.
LEMMA PlacesProcess ==
  ASSUME UploadInv, NextLow(Now), Process
  PROVE  PlacesStep
  <1>0. ToSet(Now.w) \subseteq Clients BY NowIs, StatesFields
  <1>1. ASSUME Commit(Now) PROVE PlacesStep
    <2>1. WaitersStay(Now, Now) BY DEF WaitersStay
    <2> QED BY <1>1, <2>1, PlacesStay
  <1>2. ASSUME NEW R \in SortGetBestClient(Now)
        PROVE  Sound(R, End) /\ Held(R) /\ OnlyPurged(Now, R)
    BY NowIs, SortSound
  <1>3. CASE ProcessBegin
    <2>1. CASE Commit(Now) BY <1>1, <2>1
    <2>2. CASE /\ Len(m_uploadinglist) < MaxSlots
               /\ \E R \in SortGetBestClient(Now), refused \in BOOLEAN :
                    Commit(TakeBest(R, refused))
      <3>1. PICK R \in SortGetBestClient(Now), refused \in BOOLEAN :
              Commit(TakeBest(R, refused))
        BY <2>2
      <3>2. PICK S : S = TakeBest(R, refused) OBVIOUS
      <3>3. Sound(R, End) /\ Held(R) /\ OnlyPurged(Now, R) BY <1>2
      <3>4. Len(R.u) < MaxSlots BY <2>2, <3>3, NowIs DEF OnlyPurged
      <3>5. PlacesKept(R, S) /\ (NextLow(R) => NextLow(S))
        BY <3>2, <3>3, <3>4, TakeBestSound
      <3>6. PlacesKept(Now, S)
        BY <1>0, <3>3, <3>5, PlacesKeptBefore DEF OnlyPurged
      <3>7. NextLow(S) BY <3>3, <3>5 DEF OnlyPurged
      <3> QED BY <3>1, <3>2, <3>6, <3>7, PlacesCommit
    <2> QED BY <1>3, <2>1, <2>2 DEF ProcessBegin
  <1>4. CASE ProcessClient
    <2>1. PICK c : c = it OBVIOUS
    <2>2. c \in Clients BY <1>4, <2>1 DEF ProcessClient, UploadInv, TypeOK
    <2>3. PICK U : U = RemoveFromUploadQueue(Now, c) OBVIOUS
    <2>4. Sound(U, End) /\ Held(U) BY <2>2, <2>3, NowIs, RemoveFromUploadQueueSound
    <2>5. /\ Only(Now, U, c) /\ Len(U.u) <= Len(Now.u) /\ U.cl[c].sock = cl[c].sock
          /\ SameClaims(Now, U, c) /\ U.w = Now.w
      BY <2>2, <2>3, NowIs, RemoveFromUploadQueueIs
    <2>6. WaitersStay(Now, U) BY <2>2, <2>5, OnlyStays DEF SameClaims, NoNewClaim
    <2>7. /\ \A d \in Clients : U.cl[d].old => Now.cl[d].old
          /\ NextLow(U)
      BY <2>5 DEF Only, SameClaims, NextLow
    <2>8. CASE Commit(DropClient(U, c))
      <3>1. PICK S : S = DropClient(U, c) OBVIOUS
      <3>2. /\ Only(U, S, c) /\ NoNewClaim(U, S, c)
            /\ S.w = U.w \/ S.cl[c] = Fresh(c)
        BY <2>2, <2>4, <3>1, DropClientSound
      <3>3. PlacesKept(U, S)
        BY <1>0, <2>5, <3>2 DEF PlacesKept, Excused, Only
      <3>4. PlacesKept(Now, S) BY <1>0, <2>5, <2>7, <3>3, PlacesKeptBefore
      <3>5. NextLow(S) BY <2>7, <3>2 DEF NextLow, Only, NoNewClaim
      <3> QED BY <2>8, <3>1, <3>4, <3>5, PlacesCommit
    <2>9. CASE Commit(U) BY <2>6, <2>9, PlacesStay
    <2>10. CASE Commit(Now) BY <1>1, <2>10
    <2>11. CASE cl[c].sock = "up" /\ \E S \in AddClientToQueue(U, c) : Commit(S)
      <3>1. PICK S \in AddClientToQueue(U, c) : Commit(S) BY <2>11
      <3>2. IsConnected(U, c) BY <2>5, <2>11 DEF IsConnected
      <3>3. U.high = Now.high BY <2>2, <2>3, NowIs, RemoveFromUploadQueueIs
      <3>4. Len(U.u) \in Nat /\ Len(Now.u) \in Nat
        BY <2>4, NowIs, StatesFields, LenProperties DEF Sound
      <3>5. SlotsKept(U) BY <2>5, <3>3, <3>4, NowIs, UploadConstants DEF SlotsKept
      <3>6. PlacesKept(U, S) /\ NextLow(S)
        BY <2>2, <2>4, <2>7, <3>2, <3>5, AddClientToQueueSound
      <3>7. PlacesKept(Now, S) BY <1>0, <2>5, <2>7, <3>6, PlacesKeptBefore
      <3> QED BY <3>1, <3>6, <3>7, PlacesCommit
    <2> QED BY <1>4, <2>1, <2>3, <2>8, <2>9, <2>10, <2>11 DEF ProcessClient, TimeOver
  <1>5. CASE ProcessEnd
    <2>1. CASE Commit(Now) BY <1>1, <2>1
    <2>2. CASE \E S \in SortGetBestClient(Now) : Commit(S)
      <3>1. PICK S \in SortGetBestClient(Now) : Commit(S) BY <2>2
      <3>2. OnlyPurged(Now, S) BY <1>2
      <3>3. PlacesKept(S, S) BY DEF PlacesKept
      <3>4. PlacesKept(Now, S)
        BY <1>0, <3>2, <3>3, PlacesKeptBefore DEF OnlyPurged
      <3>5. NextLow(S) BY <3>2 DEF OnlyPurged
      <3> QED BY <3>1, <3>4, <3>5, PlacesCommit
    <2> QED BY <1>5, <2>1, <2>2 DEF ProcessEnd
  <1> QED BY <1>3, <1>4, <1>5 DEF Process

\* The disk thread does not touch the waiting list.
LEMMA PlacesDisk ==
  ASSUME UploadInv, NextLow(Now), Disk
  PROVE  PlacesStep
  <1>1. UNCHANGED m_waitinglist
    BY DEF Disk, DiskLock, DiskEnter, DiskRead, DiskUnlock, DiskFind, DiskSend, DiskUnchanged
  <1>2. cl \in [Clients -> ClientStates] BY DEF UploadInv, TypeOK
  <1>3. CASE UNCHANGED cl BY <1>1, <1>3, PlacesQuiet
  <1>4. CASE DiskRead
    <2>1. PICK n \in Readable(dclient), fails \in BOOLEAN :
            cl' = [cl EXCEPT ![dclient].blocks = @ - n, ![dclient].ioError = @ \/ fails]
      BY <1>4 DEF DiskRead
    <2>2. dclient \in Clients BY <1>4 DEF DiskRead, UploadInv, DiskInv, TypeOK
    <2>3. PICK b, e : b = cl[dclient].blocks - n /\ e = (cl[dclient].ioError \/ fails)
      OBVIOUS
    <2>4. cl[dclient] \in ClientStates BY <1>2, <2>2
    <2>5. PICK k : k = [cl[dclient] EXCEPT !.blocks = b, !.ioError = e] OBVIOUS
    <2>6. cl' = [cl EXCEPT ![dclient] = k] BY <1>2, <2>1, <2>2, <2>3, <2>4, <2>5
    <2>7. k.addNext = cl[dclient].addNext BY <2>4, <2>5 DEF ClientStates
    <2>8. \A d \in Clients : cl'[d].addNext = cl[d].addNext BY <1>2, <2>2, <2>6, <2>7
    <2> QED BY <1>1, <2>8, PlacesQuiet
  <1>5. CASE DiskFind
    <2>1. PICK c : c = Head(m_listFinishedIO) OBVIOUS
    <2>2. UNCHANGED cl \/ cl' = [cl EXCEPT ![c].ioError = TRUE]
      BY <1>5, <2>1 DEF DiskFind
    <2>3. CASE cl' = [cl EXCEPT ![c].ioError = TRUE]
      <3>1. \A d \in Clients : cl'[d].addNext = cl[d].addNext
        BY <1>2, <2>3 DEF ClientStates
      <3> QED BY <1>1, <3>1, PlacesQuiet
    <2> QED BY <1>3, <2>2, <2>3
  <1> QED
    BY <1>3, <1>4, <1>5 DEF Disk, DiskLock, DiskEnter, DiskUnlock, DiskSend

\* Who waits for a slot keeps its place until it gets one, its object is
\* deleted, its file is gone or it stopped asking, for every number of
\* clients, slots and files; a LowID client of a suspended file is the
\* exception.
THEOREM PlacesAreKept == Spec => KeepsItsPlace
  <1>1. Init => NextLow(Now)
    <2>1. ASSUME Init PROVE NextLow(Now)
      <3>1. \A c \in Clients : Now.cl[c] = Fresh(c) BY <2>1 DEF Init, Now
      <3>2. \A c \in Clients : Fresh(c).addNext = FALSE BY DEF Fresh
      <3> QED BY <3>1, <3>2 DEF NextLow
    <2> QED BY <2>1
  <1>2. UploadInv /\ NextLow(Now) /\ [Next]_vars => NextLow(Now)' /\ [KeepsPlaces]_vars
    <2> SUFFICES ASSUME UploadInv, NextLow(Now), [Next]_vars
                 PROVE  NextLow(Now)' /\ [KeepsPlaces]_vars
      OBVIOUS
    <2>1. CASE Next
      <3>1. PlacesStep
        BY <2>1, PlacesConnection, PlacesPeer, PlacesFiles, PlacesProcess, PlacesDisk DEF Next
      <3> QED BY <3>1 DEF PlacesStep
    <2>2. CASE UNCHANGED vars
      <3>1. UNCHANGED <<m_waitinglist, cl>> BY <2>2 DEF vars, queueVars
      <3>2. PlacesStep BY <3>1, PlacesQuiet
      <3> QED BY <3>2 DEF PlacesStep
    <2> QED BY <2>1, <2>2
  <1>3. [][KeepsPlaces]_vars <=> KeepsItsPlace BY DEF KeepsPlaces, KeepsItsPlace
  <1> QED BY <1>1, <1>2, <1>3, UploadInvariant, PTL DEF Spec
==============================================================================
