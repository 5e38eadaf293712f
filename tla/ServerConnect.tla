---------------------------- MODULE ServerConnect ----------------------------
(***************************************************************************)
(* The connection to an ed2k server: CServerConnect                        *)
(* (src/src/ServerConnect.cpp), its sockets (ServerSocket.cpp) and the     *)
(* part of the server list they use (ServerList.cpp).                      *)
(*                                                                         *)
(* Everything runs on the main thread, but the methods call each other     *)
(* reentrantly: a socket that fails inside ConnectToServer starts the next *)
(* attempt before the first call has returned.  A handler is therefore a   *)
(* stack of calls: todo holds the calls still to be made, the innermost    *)
(* first, and an action executes the code of a method up to its next       *)
(* reentrant call.  StopConnectionTry and Disconnect call nothing back and *)
(* are part of the actions that call them.  Events (timers, sockets, the   *)
(* resolver, the user) arrive only when the stack is empty.                *)
(*                                                                         *)
(* connectionattemps is a map from the millisecond of the attempt to its   *)
(* socket: here the sequence of its values in the order of the keys.  The  *)
(* network is enabled and the IP filter is loaded.  A socket that was      *)
(* closed gets no further event.                                           *)
(***************************************************************************)
EXTENDS Integers, FiniteSets, ListOps

CONSTANTS
  Servers,         \* the servers, in the order of the list
  Obfuscated,      \* the ones known to support obfuscation
  Static,          \* the static ones
  DynIP,           \* the ones known by name: each attempt looks the name up
  Filtered,        \* the ones whose address the IP filter rejects
  MaxSim,          \* 1 if IsSafeServerConnectEnabled(), else 2
  Reconnect, StaticOnly, CryptRequested, CryptRequired,  \* preferences
  DeadRetries,     \* thePrefs::GetDeadserverRetries()
  AddressReuse,    \* may a new socket get the address of a deleted one?
  UserOps,         \* the user's commands of this instance
  Chosen,          \* the servers the user connects to by name
  MaxSockets,      \* bound: sockets that exist or are still referred to
  MaxMarked,       \* bound: open sockets that are marked but not destroyed
  MaxLookups       \* bound: name lookups under way

ServerSet == {Servers[i] : i \in DOMAIN Servers}
Sockets   == 1..MaxSockets
NoSocket  == 0
Dangling  == -1

ASSUME ServerConnectConstants ==
  /\ Servers \in Seq(ServerSet) /\ Servers # <<>>
  /\ \A i, j \in DOMAIN Servers : Servers[i] = Servers[j] => i = j
  /\ Obfuscated \subseteq ServerSet /\ Static \subseteq ServerSet
  /\ DynIP \subseteq ServerSet /\ Filtered \subseteq ServerSet /\ Chosen \subseteq ServerSet
  /\ MaxSim \in {1, 2}
  /\ {Reconnect, StaticOnly, CryptRequested, CryptRequired, AddressReuse} \subseteq BOOLEAN
  /\ UserOps \subseteq {"any", "disconnect", "cancel", "remove"}
  /\ {DeadRetries, MaxSockets, MaxMarked, MaxLookups} \subseteq Nat

VARIABLES
  connecting, singleconnecting, connected,
  connectedsocket,         \* a socket or NoSocket
  connectionattemps,       \* the attempts, oldest first
  m_lstOpenSockets,        \* the sockets not yet given to DestroySocket
  sock,                    \* what each socket object holds
  m_idRetryTimer,          \* is the retry timer running?
  m_bTryObfuscated, m_recurse, m_hostnameResolvedThisSweep,
  m_servers, m_serverpos,  \* the server list and its cursor
  failed,                  \* failed count of each server, up to DeadRetries + 1;
                           \* 0 for a static one, whose count nothing reads
  lookups,                 \* name lookups under way: [s, v]
  todo,                    \* the calls under way
  it,                      \* CheckForTimeout's iterator: an index, 0 or Dangling
  expired,                 \* how many attempts are over CONSERVTIMEOUT old
  aged,                    \* how many attempts an earlier core timer has seen
  lastKey,                 \* the attempt made in this very millisecond, or 0
  wanted,                  \* history: the last command was to connect to any server
  evidence                 \* history: a lookup was answered since the try began

connVars == <<connecting, singleconnecting, connected, connectedsocket>>
mapVars  == <<connectionattemps, it, expired, aged, lastKey>>
listVars == <<m_servers, m_serverpos, failed>>
flagVars == <<m_idRetryTimer, m_bTryObfuscated, m_recurse, m_hostnameResolvedThisSweep>>
sockVars == <<m_lstOpenSockets, sock, lookups>>
histVars == <<wanted, evidence>>
vars == <<connVars, mapVars, listVars, flagVars, sockVars, histVars, todo>>

States == {"FATALERROR", "DISCONNECTED", "SERVERDEAD", "ERROR", "SERVERFULL",
           "NOTCONNECTED", "CONNECTING", "CONNECTED", "WAITFORLOGIN"}

\* A call under way: the method, its socket and its server.
Call(op)  == [op |-> op, s |-> NoSocket, v |-> Servers[1]]
On(op, s) == [Call(op) EXCEPT !.s = s]
To(op, v) == [Call(op) EXCEPT !.v = v]

AtRest     == todo = <<>>
At(op)     == todo # <<>> /\ Head(todo).op = op
Me         == Head(todo).s
Run(calls) == todo' = calls \o Tail(todo)

Listed(v) == \E i \in DOMAIN m_servers : m_servers[i] = v
Attempts  == {connectionattemps[i] : i \in DOMAIN connectionattemps}
Marked    == {s \in m_lstOpenSockets : sock[s].m_bIsDeleting}

\* A socket object that does not exist, or whose memory has been freed.
Deleted == [server |-> Servers[1], addr |-> Servers[1], state |-> "NOTCONNECTED",
            m_bIsDeleting |-> FALSE, m_IsSolving |-> FALSE, m_bNoCrypt |-> FALSE,
            m_bServerCrypt |-> FALSE, tcp |-> "closed", alive |-> FALSE]

Init ==
  /\ connecting = FALSE /\ singleconnecting = FALSE
  /\ connected = FALSE /\ connectedsocket = NoSocket
  /\ connectionattemps = <<>> /\ it = 0 /\ expired = 0 /\ aged = 0 /\ lastKey = 0
  /\ m_lstOpenSockets = {} /\ sock = [s \in Sockets |-> Deleted] /\ lookups = {}
  /\ m_idRetryTimer = FALSE /\ m_bTryObfuscated = CryptRequested
  /\ m_recurse = FALSE /\ m_hostnameResolvedThisSweep = FALSE
  /\ m_servers = Servers /\ m_serverpos = Len(Servers) + 1
  /\ failed = [v \in ServerSet |-> 0]
  /\ todo = <<>>
  /\ wanted = FALSE /\ evidence = FALSE

-----------------------------------------------------------------------------
(* The map of attempts, with the iterator that CheckForTimeout holds into  *)
(* it, and the list of open sockets.                                       *)

\* The attempt at index i is erased, while the iterator stands at j.
Erase(i, j) ==
  /\ connectionattemps' = RemoveAt(connectionattemps, i)
  /\ it' = IF j > i THEN j - 1 ELSE IF j = i THEN Dangling ELSE j
  /\ expired' = IF i <= expired THEN expired - 1 ELSE expired
  /\ aged' = IF i <= aged THEN aged - 1 ELSE aged
  /\ lastKey' = IF lastKey = i THEN 0 ELSE IF lastKey > i THEN lastKey - 1 ELSE lastKey

\* connectionattemps[GetTickCount64()] = newsocket, the last statement of
\* ConnectToServer: a new key, or the key of an attempt of this millisecond.
Insert ==
  /\ At("Insert")
  /\ \/ /\ connectionattemps' = Append(connectionattemps, Me)
        /\ it' = IF it = Len(connectionattemps) + 1 THEN it + 1 ELSE it
        /\ lastKey' = Len(connectionattemps) + 1
     \/ /\ lastKey # 0
        /\ connectionattemps' = [connectionattemps EXCEPT ![lastKey] = Me]
        /\ UNCHANGED <<it, lastKey>>
  /\ Run(<<>>)
  /\ UNCHANGED <<connVars, expired, aged, listVars, flagVars, sockVars, histVars>>

\* DestroySocket for every socket of gone, in a state where the sockets hold sk.
DestroySockets(gone, sk) ==
  /\ m_lstOpenSockets' = m_lstOpenSockets \ gone
  /\ sock' = [s \in Sockets |-> IF s \in gone THEN Deleted ELSE sk[s]]

DestroySocket ==
  /\ At("Destroy")
  /\ DestroySockets({Me}, sock)
  /\ Run(<<>>)
  /\ UNCHANGED <<connVars, mapVars, listVars, flagVars, lookups, histVars>>

\* Mutant: only the sockets in connectionattemps are destroyed.
UnmarkedAttempts == {s \in m_lstOpenSockets \cap Attempts : ~sock[s].m_bIsDeleting}
\* The sockets that StopConnectionTry destroys.
Unmarked == {s \in m_lstOpenSockets : ~sock[s].m_bIsDeleting}

\* Mutant: the evidence of the last sweep stays.
StopButRemember ==
  /\ connectionattemps' = <<>>
  /\ it' = IF it = Len(connectionattemps) + 1 THEN 1 ELSE IF it = 0 THEN 0 ELSE Dangling
  /\ expired' = 0 /\ aged' = 0 /\ lastKey' = 0
  /\ UNCHANGED m_hostnameResolvedThisSweep
\* StopConnectionTry, but for the flags connecting and singleconnecting, the
\* timer and the sockets, which its callers set to what they leave behind.
StopConnectionTry ==
  /\ connectionattemps' = <<>>
  /\ it' = IF it = Len(connectionattemps) + 1 THEN 1 ELSE IF it = 0 THEN 0 ELSE Dangling
  /\ expired' = 0 /\ aged' = 0 /\ lastKey' = 0
  /\ m_hostnameResolvedThisSweep' = FALSE

\* StopConnectionTry, and nothing follows but the retry timer.
StopAnd(timer) ==
  /\ StopConnectionTry
  /\ connecting' = FALSE /\ singleconnecting' = FALSE
  /\ m_idRetryTimer' = timer

\* StopConnectionTry and Disconnect, which begin a new try.
StartOver ==
  /\ StopConnectionTry
  /\ m_idRetryTimer' = FALSE
  /\ connected' = FALSE
  /\ connectedsocket' = IF connected THEN NoSocket ELSE connectedsocket
\* Mutant: Disconnect without StopConnectionTry's loop.
OnlyConnected == IF connected THEN {connectedsocket} ELSE {}
\* The sockets they destroy.
GivenUp == (Unmarked \ {connectedsocket}) \cup IF connected THEN {connectedsocket} ELSE {}

-----------------------------------------------------------------------------
(* Opening a socket. *)

\* The addresses a new socket can get.
Free == {s \in Sockets :
           /\ s \notin m_lstOpenSockets
           /\ \A i \in DOMAIN todo : todo[i].s # s
           /\ AddressReuse \/ (s \notin Attempts /\ \A l \in lookups : l.s # s)}

NewSocket(v, noCrypt) ==
  [Deleted EXCEPT !.server = v, !.addr = v, !.state = "CONNECTING", !.m_IsSolving = v \in DynIP,
                  !.m_bNoCrypt = noCrypt, !.alive = TRUE]

\* OnHostnameResolved with the address of v, for a socket that holds k: the
\* address is filtered, or the connection is asked for.
Resolved(k, v) ==
  IF v \in Filtered
    THEN [k EXCEPT !.m_IsSolving = FALSE, !.m_bIsDeleting = TRUE, !.state = "ERROR"]
    ELSE [k EXCEPT !.m_IsSolving = FALSE, !.addr = v, !.tcp = "asked",
                   !.m_bServerCrypt = ~k.m_bNoCrypt /\ CryptRequested /\ k.server \in Obfuscated]
\* The calls a socket with that address makes.
ResolvedCalls(s, v) == IF v \in Filtered THEN <<On("Failed", s), On("Destroy", s)>> ELSE <<>>

\* ConnectToServer(v, multi, noCrypt) from the new socket to the insertion,
\* with CServerSocket::ConnectToServer: a name goes to a lookup thread, which
\* may not start; an address is used at once.  The sockets of gone have been
\* destroyed before.
Open(v, multi, noCrypt, gone) ==
  /\ connecting' = TRUE /\ singleconnecting' = ~multi
  /\ Free # {}
  /\ LET s == CHOOSE x \in Free : \A y \in Free : x <= y
         k == NewSocket(v, noCrypt)
     IN /\ m_lstOpenSockets' = (m_lstOpenSockets \ gone) \cup {s}
        /\ sock' = [x \in Sockets |-> IF x = s THEN (IF v \in DynIP THEN k ELSE Resolved(k, v))
                                      ELSE IF x \in gone THEN Deleted ELSE sock[x]]
        /\ \/ /\ v \in DynIP /\ Cardinality(lookups) < MaxLookups
              /\ lookups' = lookups \cup {[s |-> s, v |-> v]}
              /\ Run(<<On("Insert", s)>>)
           \/ /\ v \in DynIP
              /\ Run(<<On("Insert", s)>>)
              /\ UNCHANGED lookups
           \/ /\ v \notin DynIP
              /\ Run(ResolvedCalls(s, v) \o <<On("Insert", s)>>)
              /\ UNCHANGED lookups

-----------------------------------------------------------------------------
(* The sweep over the server list. *)

\* GetNextServer, with the loop of TryAnotherConnectionrequest over the
\* servers that are not static: the next index that qualifies, or one past
\* the end.
GetNextServer ==
  LET ok == {j \in m_serverpos..Len(m_servers) :
               /\ m_bTryObfuscated => m_servers[j] \in Obfuscated
               /\ StaticOnly => m_servers[j] \in Static}
  IN IF ok = {} THEN Len(m_servers) + 1 ELSE CHOOSE j \in ok : \A k \in ok : j <= k

TryRefused ==
  /\ At("TryAnother")
  /\ m_recurse \/ Len(connectionattemps) >= MaxSim
  /\ Run(<<>>)
  /\ UNCHANGED <<connVars, mapVars, listVars, flagVars, sockVars, histVars>>

MayTry == At("TryAnother") /\ ~m_recurse /\ Len(connectionattemps) < MaxSim

TryNext ==
  /\ MayTry
  /\ GetNextServer <= Len(m_servers)
  /\ m_serverpos' = GetNextServer + 1
  /\ Open(m_servers[GetNextServer], TRUE, ~m_bTryObfuscated, {})
  /\ UNCHANGED <<connected, connectedsocket, mapVars, m_servers, failed, flagVars, wanted, evidence>>

\* No server is left: wait for the attempts under way, make another pass
\* without obfuscation, or stop and try again after a while.
Exhausted ==
  /\ MayTry
  /\ GetNextServer > Len(m_servers)
  /\ m_serverpos' = Len(m_servers) + 1

\* Mutant: attempts under way are not asked.
NothingToTry == Exhausted
\* No server is left and no attempt is under way.
NothingUnderWay == Exhausted /\ connectionattemps = <<>>

TryWait ==
  /\ Exhausted /\ connectionattemps # <<>>
  /\ Run(<<>>)
  /\ UNCHANGED <<connVars, mapVars, m_servers, failed, flagVars, sockVars, histVars>>

TryPlain ==
  /\ NothingUnderWay /\ m_bTryObfuscated /\ ~CryptRequired
  /\ m_recurse' = TRUE /\ m_bTryObfuscated' = FALSE
  /\ Run(<<Call("ConnectToAnyPlain"), Call("Unrecurse")>>)
  /\ UNCHANGED <<connVars, mapVars, m_servers, failed, m_idRetryTimer,
                 m_hostnameResolvedThisSweep, sockVars, histVars>>

TryGiveUp ==
  /\ NothingUnderWay /\ (m_bTryObfuscated => CryptRequired)
  /\ StopAnd(Reconnect)
  /\ DestroySockets(Unmarked \ {connectedsocket}, sock)
  /\ Run(<<>>)
  /\ UNCHANGED <<connected, connectedsocket, m_servers, failed, m_bTryObfuscated, m_recurse,
                 lookups, histVars>>

\* Mutant: the flag stays set.
StayRecursing ==
  /\ At("Unrecurse")
  /\ Run(<<>>)
  /\ UNCHANGED <<connVars, mapVars, listVars, flagVars, sockVars, histVars>>
\* m_recurseTryAnotherConnectionrequest = false
Unrecurse ==
  /\ At("Unrecurse")
  /\ m_recurse' = FALSE
  /\ Run(<<>>)
  /\ UNCHANGED <<connVars, mapVars, listVars, m_idRetryTimer, m_bTryObfuscated,
                 m_hostnameResolvedThisSweep, sockVars, histVars>>

\* ConnectToAnyServer up to its call of TryAnotherConnectionrequest; the
\* second pass asks for no obfuscation.
ConnectToAnyServer ==
  /\ At("ConnectToAny") \/ At("ConnectToAnyPlain")
  /\ StartOver /\ DestroySockets(GivenUp, sock)
  /\ singleconnecting' = FALSE
  /\ m_bTryObfuscated' = (CryptRequested /\ At("ConnectToAny"))
  /\ LET any == \E i \in DOMAIN m_servers : StaticOnly => m_servers[i] \in Static
     IN /\ connecting' = any
        /\ m_serverpos' = IF any THEN 1 ELSE Len(m_servers) + 1
        /\ Run(IF any THEN <<Call("TryAnother")>> ELSE <<>>)
  /\ evidence' = FALSE /\ wanted' = TRUE
  /\ UNCHANGED <<m_servers, failed, m_recurse, lookups>>

\* ConnectToServer for one server only: the user's choice, or its retry
\* without obfuscation.
ConnectToServer ==
  /\ At("ConnectTo") \/ At("ConnectToPlain")
  /\ StartOver
  /\ Open(Head(todo).v, FALSE, At("ConnectToPlain"), GivenUp)
  /\ evidence' = FALSE /\ wanted' = FALSE
  /\ UNCHANGED <<listVars, m_bTryObfuscated, m_recurse>>

-----------------------------------------------------------------------------
(* What becomes of a socket. *)

\* OnServerHostnameResolved: the lookup l has ended, and its socket is looked
\* for among the open ones.
LookupDone(l, found) ==
  /\ AtRest /\ l \in lookups
  /\ lookups' = lookups \ {l}
  /\ LET s == l.s  k == sock[s]
     IN \/ /\ s \notin m_lstOpenSockets
           /\ UNCHANGED <<sock, todo, m_hostnameResolvedThisSweep, evidence>>
        \/ /\ s \in m_lstOpenSockets /\ found
           /\ m_hostnameResolvedThisSweep' = (m_hostnameResolvedThisSweep \/ k.m_IsSolving)
           /\ evidence' = (evidence \/ k.m_IsSolving)
           /\ sock' = [sock EXCEPT ![s] = Resolved(k, l.v)]
           /\ todo' = ResolvedCalls(s, l.v)
        \/ /\ s \in m_lstOpenSockets /\ ~found
           /\ sock' = [sock EXCEPT ![s] = [k EXCEPT !.m_IsSolving = FALSE, !.m_bIsDeleting = TRUE,
                         !.state = IF m_hostnameResolvedThisSweep THEN "SERVERDEAD" ELSE "ERROR"]]
           /\ todo' = <<On("Failed", s), On("Destroy", s)>>
           /\ UNCHANGED <<m_hostnameResolvedThisSweep, evidence>>
  /\ UNCHANGED <<connVars, mapVars, listVars, m_idRetryTimer, m_bTryObfuscated, m_recurse,
                 m_lstOpenSockets, wanted>>

\* The socket s, whose connection is in the given phase, gets an event that
\* leaves it in state st, marked or not, and makes these calls.
SocketEvent(s, phase, k, calls) ==
  /\ AtRest
  /\ s \in m_lstOpenSockets /\ sock[s].tcp = phase
  /\ sock' = [sock EXCEPT ![s] = k]
  /\ todo' = calls
  /\ UNCHANGED <<connVars, mapVars, flagVars, m_lstOpenSockets, lookups, histVars>>

\* The TCP connection is up: OnConnect and ConnectionEstablished.  A server
\* known by name that has left the list meanwhile is left alone.
OnConnect(s) ==
  LET v == sock[s].server
      known == v \in DynIP => Listed(v)
  IN /\ SocketEvent(s, "asked",
          [sock[s] EXCEPT !.tcp = "up", !.state = IF known THEN "WAITFORLOGIN" ELSE @],
          IF known /\ ~connecting THEN <<On("Destroy", s)>> ELSE <<>>)
     /\ failed' = IF known /\ connecting /\ Listed(v) THEN [failed EXCEPT ![v] = 0] ELSE failed
     /\ UNCHANGED <<m_servers, m_serverpos>>

\* The TCP connection fails: refused or timed out, a fault of our own or an
\* unreachable host, or anything else.
OnConnectError(s, st) ==
  /\ SocketEvent(s, "asked", [sock[s] EXCEPT !.m_bIsDeleting = TRUE, !.state = st],
                 <<On("Failed", s), On("Destroy", s)>>)
  /\ UNCHANGED listVars

\* Data arrives when the try is over.
ReceiveLate(s) ==
  /\ sock[s].state # "CONNECTED" /\ ~connecting
  /\ SocketEvent(s, "up", sock[s], <<On("Destroy", s)>>)
  /\ UNCHANGED listVars

MayReceive(s) == sock[s].state = "CONNECTED" \/ connecting

\* OP_IDCHANGE with ID 0: the login is refused.
ReceiveRefusal(s) ==
  /\ MayReceive(s)
  /\ SocketEvent(s, "up", [sock[s] EXCEPT !.m_bIsDeleting = TRUE, !.state = "DISCONNECTED"],
                 <<On("Failed", s), On("Destroy", s)>>)
  /\ UNCHANGED listVars

\* ProcessPacket fails on a packet, or OnError is called by CEMSocket or the
\* encryption layer (bad is FALSE then, and connecting is not asked).
ReceiveBad(s, bad) ==
  /\ bad => MayReceive(s)
  /\ Cardinality(Marked \ {s}) < MaxMarked
  /\ SocketEvent(s, "up", [sock[s] EXCEPT !.state = "DISCONNECTED"], <<On("Failed", s)>>)
  /\ UNCHANGED listVars

\* The server closed the connection.
OnClose(s) ==
  /\ SocketEvent(s, "up",
       [sock[s] EXCEPT !.state = CASE @ = "WAITFORLOGIN" -> "SERVERFULL"
                                   [] @ = "CONNECTED" -> "DISCONNECTED"
                                   [] OTHER -> "NOTCONNECTED"],
       <<On("Failed", s), On("Destroy", s)>>)
  /\ UNCHANGED listVars

\* Mutant: the cursor stays where it is.
KeptCursor(gone) == m_serverpos
\* Where the cursor is without the servers of gone.
MovedCursor(gone) ==
  m_serverpos - Cardinality({i \in DOMAIN m_servers : i < m_serverpos /\ m_servers[i] \in gone})

\* RemoveServer for each server of gone.  Its test against the current server
\* compares with the socket's copy of it and never holds.
RemoveServers(gone) ==
  /\ m_servers' = Filter(m_servers, ServerSet \ gone)
  /\ m_serverpos' = MovedCursor(gone)
  /\ UNCHANGED failed

DeadServers == {v \in ServerSet : failed[v] > DeadRetries /\ v \notin Static}

\* Mutant: StopConnectionTry before connectedsocket is set.
StoppedBefore(s) == Unmarked \ {connectedsocket}
\* What the try leaves behind when s is the connected socket.
Losers(s) == Unmarked \ {s}

\* OP_IDCHANGE with an ID while a try is under way: ConnectionEstablished
\* ends the try, and RemoveDeadServers follows.
ReceiveID(s) ==
  /\ AtRest /\ s \in m_lstOpenSockets /\ sock[s].tcp = "up"
  /\ connecting /\ sock[s].state # "CONNECTED"
  /\ connected' = TRUE /\ connectedsocket' = s
  /\ StopAnd(FALSE)
  /\ DestroySockets(Losers(s), [sock EXCEPT ![s].state = "CONNECTED"])
  /\ RemoveServers(DeadServers)
  /\ UNCHANGED <<todo, m_bTryObfuscated, m_recurse, lookups, histVars>>

-----------------------------------------------------------------------------
(* ConnectionFailed, by the state of the socket. *)

\* Mutant: the failure of any socket is handled.
AnyFailure == At("Failed")
Handled == At("Failed") /\ (connecting \/ Me = connectedsocket)
MarkedSender == [sock EXCEPT ![Me].m_bIsDeleting = TRUE]
\* A server that appears to be dead is blamed for it.
Blame == failed' = IF sock[Me].state = "SERVERDEAD" /\ Listed(sock[Me].server)
                        /\ sock[Me].server \notin Static
                        /\ failed[sock[Me].server] <= DeadRetries
                     THEN [failed EXCEPT ![sock[Me].server] = @ + 1] ELSE failed

TryFailure == {"ERROR", "NOTCONNECTED", "SERVERDEAD", "SERVERFULL"}

\* Nothing to try again: the failure is ignored, or the connected socket,
\* which is not closed, is marked.
FailedIgnored ==
  /\ At("Failed") /\ ~connecting
  /\ IF Me = connectedsocket
       THEN sock[Me].state \in TryFailure /\ Blame /\ sock' = MarkedSender
       ELSE UNCHANGED <<failed, sock>>
  /\ Run(<<>>)
  /\ UNCHANGED <<connVars, mapVars, m_servers, m_serverpos, flagVars, m_lstOpenSockets, lookups,
                 histVars>>

\* Mutant: a fatal error starts no timer.
NoRetry == FALSE
\* Does a fatal error start the retry timer?
RetryAfterFatal == Reconnect /\ ~singleconnecting

FailedFatal ==
  /\ Handled /\ sock[Me].state = "FATALERROR"
  /\ StopAnd(RetryAfterFatal)
  /\ DestroySockets(Unmarked \ {connectedsocket, Me}, MarkedSender)
  /\ Run(<<>>)
  /\ UNCHANGED <<connected, connectedsocket, listVars, m_bTryObfuscated, m_recurse, lookups,
                 histVars>>

\* The connected socket is closed; only Reconnect without a try under way
\* starts over.
FailedDisconnected ==
  /\ Handled /\ sock[Me].state = "DISCONNECTED"
  /\ sock' = [s \in Sockets |-> IF s = connectedsocket THEN [MarkedSender[s] EXCEPT !.tcp = "closed"]
                                                       ELSE MarkedSender[s]]
  /\ connected' = FALSE /\ connectedsocket' = NoSocket
  /\ Run(IF Reconnect /\ ~connecting THEN <<Call("ConnectToAny")>> ELSE <<>>)
  /\ UNCHANGED <<connecting, singleconnecting, mapVars, listVars, flagVars, m_lstOpenSockets, lookups, histVars>>

\* A single try: once more without obfuscation, or the end of it.
FailedSingle ==
  /\ Handled /\ sock[Me].state \in TryFailure /\ connecting /\ singleconnecting
  /\ Blame
  /\ \/ /\ Listed(sock[Me].server) /\ sock[Me].m_bServerCrypt /\ ~CryptRequired
        /\ Run(<<To("ConnectToPlain", sock[Me].server)>>)
        /\ sock' = MarkedSender
        /\ UNCHANGED <<connecting, singleconnecting, mapVars, m_idRetryTimer,
                       m_hostnameResolvedThisSweep, m_lstOpenSockets>>
     \/ /\ ~(Listed(sock[Me].server) /\ sock[Me].m_bServerCrypt /\ ~CryptRequired)
        /\ StopAnd(FALSE)
        /\ DestroySockets(Unmarked \ {connectedsocket, Me}, MarkedSender)
        /\ Run(<<>>)
  /\ UNCHANGED <<connected, connectedsocket, m_servers, m_serverpos, m_bTryObfuscated, m_recurse,
                 lookups, histVars>>

\* Mutant: the attempt stays in the map.
KeepAttempt == UNCHANGED mapVars
\* The first attempt of the sender is erased, if it has one.
EraseAttempt ==
  \/ Me \notin Attempts /\ UNCHANGED mapVars
  \/ \E i \in DOMAIN connectionattemps :
       /\ connectionattemps[i] = Me
       /\ \A j \in 1..(i - 1) : connectionattemps[j] # Me
       /\ Erase(i, it)

\* A sweep: the attempt is over, the next one starts.
FailedMulti ==
  /\ Handled /\ sock[Me].state \in TryFailure /\ connecting /\ ~singleconnecting
  /\ Blame
  /\ sock' = MarkedSender
  /\ EraseAttempt
  /\ Run(<<Call("TryAnother")>>)
  /\ UNCHANGED <<connVars, m_servers, m_serverpos, flagVars, m_lstOpenSockets, lookups, histVars>>

-----------------------------------------------------------------------------
(* Timers and the user. *)

\* OnCoreTimer: the attempts that are over CONSERVTIMEOUT old are the oldest
\* of those an earlier call has seen.  Time has passed since that call.
CoreTimer(k) ==
  /\ AtRest /\ connecting
  /\ todo' = (IF singleconnecting THEN <<>> ELSE <<Call("TryAnother")>>) \o <<Call("Check")>>
  /\ k \in 0..aged
  /\ expired' = k
  /\ lastKey' \in (IF lastKey > aged THEN {0, lastKey} ELSE {0})
  /\ UNCHANGED <<connVars, connectionattemps, it, aged, listVars, flagVars, sockVars, histVars>>

\* CheckForTimeout, if a try is still under way: its loop begins.
CheckBegin ==
  /\ At("Check") /\ connecting
  /\ it' = 1
  /\ Run(<<Call("Scan")>>)
  /\ UNCHANGED <<connVars, connectionattemps, expired, aged, lastKey, listVars, flagVars, sockVars, histVars>>

CheckEnd ==
  /\ \/ At("Check") /\ ~connecting
     \/ At("Scan") /\ it = Len(connectionattemps) + 1
  /\ it' = 0 /\ aged' = Len(connectionattemps) /\ expired' = 0
  /\ Run(<<>>)
  /\ UNCHANGED <<connVars, connectionattemps, lastKey, listVars, flagVars, sockVars, histVars>>

\* What IsSolving() returns: of a deleted object, anything.
IsSolving(s) == IF sock[s].alive THEN {sock[s].m_IsSolving} ELSE BOOLEAN

\* One pass of the loop of CheckForTimeout: the iterator is advanced before
\* the attempt is erased, and the next attempt is made before the socket is
\* destroyed.
CheckForTimeout ==
  /\ At("Scan") /\ it \in DOMAIN connectionattemps
  /\ LET s == connectionattemps[it]
     IN \/ /\ it > expired \/ TRUE \in IsSolving(s)
           /\ it' = it + 1
           /\ UNCHANGED <<connectionattemps, expired, aged, lastKey, todo>>
        \/ /\ it <= expired /\ FALSE \in IsSolving(s)
           /\ Erase(it, it + 1)
           /\ todo' = <<Call("TryAnother"), On("Destroy", s)>> \o todo
  /\ UNCHANGED <<connVars, listVars, flagVars, sockVars, histVars>>

\* OnTCPTimer: StopConnectionTry, and a new sweep unless a server is there.
OnTCPTimer ==
  /\ AtRest /\ m_idRetryTimer
  /\ StopAnd(FALSE)
  /\ DestroySockets(Unmarked \ {connectedsocket}, sock)
  /\ todo' = IF connected THEN <<>> ELSE <<Call("ConnectToAny")>>
  /\ UNCHANGED <<connected, connectedsocket, listVars, m_bTryObfuscated, m_recurse, lookups,
                 histVars>>

\* The commands of the user, from the windows or a remote client: connect to
\* any server or to one, cancel the try, disconnect, remove a server.
UserConnect ==
  /\ AtRest
  /\ \/ "any" \in UserOps /\ todo' = <<Call("ConnectToAny")>>
     \/ \E v \in Chosen : Listed(v) /\ todo' = <<To("ConnectTo", v)>>
  /\ UNCHANGED <<connVars, mapVars, listVars, flagVars, sockVars, histVars>>

UserCancel ==
  /\ AtRest /\ "cancel" \in UserOps /\ connecting
  /\ StopAnd(FALSE)
  /\ DestroySockets(Unmarked \ {connectedsocket}, sock)
  /\ wanted' = FALSE
  /\ UNCHANGED <<connected, connectedsocket, listVars, m_bTryObfuscated, m_recurse, lookups,
                 todo, evidence>>

Disconnect ==
  /\ AtRest /\ "disconnect" \in UserOps /\ connected
  /\ connected' = FALSE /\ connectedsocket' = NoSocket
  /\ DestroySockets({connectedsocket}, sock)
  /\ wanted' = FALSE
  /\ UNCHANGED <<connecting, singleconnecting, mapVars, listVars, flagVars, lookups, todo,
                 evidence>>

UserRemove ==
  /\ AtRest /\ "remove" \in UserOps
  /\ \E v \in ServerSet : Listed(v) /\ RemoveServers({v})
  /\ UNCHANGED <<connVars, mapVars, flagVars, sockVars, histVars, todo>>

-----------------------------------------------------------------------------
\* The code of the calls under way.
Internal ==
  \/ Insert \/ DestroySocket
  \/ TryRefused \/ TryNext \/ TryWait \/ TryPlain \/ TryGiveUp \/ Unrecurse
  \/ ConnectToAnyServer \/ ConnectToServer
  \/ FailedIgnored \/ FailedFatal \/ FailedDisconnected \/ FailedSingle \/ FailedMulti
  \/ CheckBegin \/ CheckForTimeout \/ CheckEnd

Network(s) ==
  \/ OnConnect(s) \/ OnClose(s) \/ ReceiveLate(s) \/ ReceiveID(s) \/ ReceiveRefusal(s)
  \/ \E st \in {"SERVERDEAD", "ERROR", "FATALERROR"} : OnConnectError(s, st)
  \/ \E bad \in BOOLEAN : ReceiveBad(s, bad)

Next ==
  \/ Internal
  \/ \E s \in Sockets : Network(s)
  \/ \E l \in lookups, found \in BOOLEAN : LookupDone(l, found)
  \/ \E k \in 0..aged : CoreTimer(k)
  \/ OnTCPTimer \/ UserConnect \/ UserCancel \/ Disconnect \/ UserRemove

Spec == Init /\ [][Next]_vars

-----------------------------------------------------------------------------
Objects ==
  [server: ServerSet, addr: ServerSet, state: States, m_bIsDeleting: BOOLEAN,
   m_IsSolving: BOOLEAN, m_bNoCrypt: BOOLEAN, m_bServerCrypt: BOOLEAN,
   tcp: {"closed", "asked", "up"}, alive: BOOLEAN]

\* The calls that end a method, and the others.
Later == {"Destroy", "Insert", "Unrecurse", "Check", "Scan"}
Ops == Later \cup {"TryAnother", "ConnectToAny", "ConnectToAnyPlain", "ConnectTo",
                   "ConnectToPlain", "Failed"}

Calls == [op: Ops, s: Sockets \cup {NoSocket}, v: ServerSet]

\* The type of every variable; m_serverpos stays in the list when servers
\* are removed from it (RemoveServer).
TypeOK ==
  /\ {connecting, singleconnecting, connected, m_idRetryTimer, m_bTryObfuscated, m_recurse,
      m_hostnameResolvedThisSweep, wanted, evidence} \subseteq BOOLEAN
  /\ connectedsocket \in Sockets \cup {NoSocket}
  /\ connectionattemps \in Seq(Sockets)
  /\ {it, expired, aged, lastKey} \subseteq Int
  /\ m_lstOpenSockets \subseteq Sockets
  /\ sock \in [Sockets -> Objects]
  /\ m_servers \in Seq(ServerSet) /\ m_serverpos \in 1..(Len(m_servers) + 1)
  /\ failed \in [ServerSet -> 0..(DeadRetries + 1)]
  /\ lookups \subseteq [s: Sockets, v: ServerSet]
  /\ todo \in Seq(Calls)

\* The try in hand has nothing to wait for but a lookup that never began.
Stuck == \E s \in m_lstOpenSockets : sock[s].m_IsSolving /\ \A l \in lookups : l.s # s

\* Between two handlers the connection is whole: connected goes with a socket
\* that is open, logged in and not being deleted by a try, and no try is under
\* way beside it (ConnectionEstablished, Disconnect, ConnectionFailed and the
\* loop of StopConnectionTry that spares connectedsocket).
ConnectedIsLive ==
  AtRest => /\ connected <=> connectedsocket # NoSocket
            /\ connected => /\ connectedsocket \in m_lstOpenSockets
                            /\ sock[connectedsocket].state = "CONNECTED"
                            /\ sock[connectedsocket].tcp = "up"
                            /\ ~connecting

\* TryAnotherConnectionrequest, called in the middle of the loop of
\* CheckForTimeout, never erases the attempt the loop's iterator stands at,
\* though it may start attempts, fail them at once and end the whole try.
IteratorValid == it # Dangling

\* When no try is under way, the only open sockets are the connected one and
\* those marked m_bIsDeleting: also a socket that lost its place in
\* connectionattemps to one of the same millisecond is destroyed by the end.
NothingLeftOpen ==
  AtRest /\ ~connecting => \A s \in m_lstOpenSockets : s = connectedsocket \/ sock[s].m_bIsDeleting

\* Once the user or the retry timer has asked for any server, a lost
\* connection or an exhausted list never ends the search: with Reconnect and a
\* server to try there is a connection, a try, or the retry timer.
SearchGoesOn ==
  AtRest /\ wanted /\ Reconnect
         /\ (\E i \in DOMAIN m_servers : StaticOnly => m_servers[i] \in Static)
    => connected \/ connecting \/ m_idRetryTimer

\* Every attempt in connectionattemps is a socket that still exists:
\* CheckForTimeout and AwaitingTestFromIP read them.
AttemptsExist == AtRest => \A s \in Attempts : sock[s].alive

\* A socket that is destroyed is no longer an attempt, so that its slot is
\* free, except when its login was refused: ConnectionFailed for a lost
\* connection does not look at connectionattemps.
DestroyedLeavesAttempts ==
  [][\A s \in m_lstOpenSockets \ m_lstOpenSockets' :
       s \in Attempts' => sock[s].state = "DISCONNECTED"]_vars

\* A server is blamed for a name that does not resolve only if another lookup
\* was answered since this try began: the evidence of one sweep, or of the
\* pass with obfuscation, never counts in the next (OnHostnameResolved,
\* StopConnectionTry).
NoUnfoundedBlame ==
  [][\A s \in Sockets : sock[s].m_IsSolving /\ sock'[s].state = "SERVERDEAD" => evidence]_vars

\* The connection is given up only by its own socket's failure or by a new
\* try or command: another socket that fails late never takes it down
\* (the first test of ConnectionFailed).
OnlyOwnFailureDisconnects ==
  [][connected /\ ~connected' =>
       \/ At("Failed") /\ Me = connectedsocket
       \/ At("ConnectToAny") \/ At("ConnectToAnyPlain") \/ At("ConnectTo") \/ At("ConnectToPlain")
       \/ Disconnect]_vars

\* A single try is ended by the failure of its own socket, or by one that a
\* protocol error had left open and that now closes: no other socket of an
\* earlier try is still there to end it (StopConnectionTry, ConnectionFailed).
OwnFailureEndsSingle ==
  [][FailedSingle /\ Me \notin Attempts /\ (\A i \in DOMAIN todo : todo[i] # On("Insert", Me))
       => sock[Me].state = "NOTCONNECTED" /\ sock[Me].m_bIsDeleting]_vars

\* The event loop gets to every call, timer and lookup.  Timers and lookups
\* compete with other events, so they need strong fairness; that an attempt
\* grows old enough is part of it.
Fairness ==
  /\ WF_vars(Internal)
  /\ SF_vars(AtRest /\ CoreTimer(aged))
  /\ SF_vars(\E l \in lookups, found \in BOOLEAN : LookupDone(l, found))

LiveSpec == Spec /\ Fairness

\* A try comes to an end, whatever the servers do, unless the user keeps
\* starting new ones, a lookup thread could not be started (such a socket
\* counts as solving for ever, and CheckForTimeout spares it), or an attempt
\* whose login was refused is still in the map, whose freed memory decides.
TryEnds ==
  []<><<UserConnect>>_vars \/ (connecting ~> (~connecting \/ Stuck \/ ~AttemptsExist))
-----------------------------------------------------------------------------
(* The inductive invariants. *)

\* A call that has not begun is one of a method's last statements, unless it
\* is the innermost.
StackInv ==
  \A i \in DOMAIN todo :
    /\ i > 1 => todo[i].op \in Later
    /\ todo[i].op \in {"Check", "Scan"} => i = Len(todo)
    /\ todo[i].op \in {"Failed", "Destroy", "Insert"} => todo[i].s \in Sockets

\* There is a server to try.
AnyServer == \E i \in DOMAIN m_servers : StaticOnly => m_servers[i] \in Static

\* What the flags say of each other, also in the middle of a handler.
FlagInv ==
  /\ connected <=> connectedsocket # NoSocket
  /\ connected => ~connecting
  /\ wanted => ~singleconnecting
  /\ m_hostnameResolvedThisSweep => evidence

\* While there is a connection, a handler ends it or does not touch it.
CallsInv ==
  connected => \A i \in DOMAIN todo :
                 todo[i].op \in {"ConnectToAny", "ConnectTo", "Failed", "Destroy"}

\* Without a try no socket is left open.
OpenInv ==
  ~connecting => \A s \in m_lstOpenSockets : s = connectedsocket \/ sock[s].m_bIsDeleting

\* The search for a server goes on, or is about to.
SearchInv ==
  wanted /\ Reconnect /\ AnyServer
    => connected \/ connecting \/ m_idRetryTimer \/ At("ConnectToAny")

\* A socket that waits for its lookup has no connection yet.
SolvingInv ==
  \A s \in Sockets : sock[s].m_IsSolving => sock[s].tcp = "closed" /\ sock[s].state = "CONNECTING"

CoreInv == TypeOK /\ StackInv /\ FlagInv /\ CallsInv /\ OpenInv /\ SearchInv /\ SolvingInv

\* The connected socket is whole until its failure is handled.
LiveInv ==
  connected =>
    /\ connectedsocket \in m_lstOpenSockets
    /\ \/ sock[connectedsocket].state = "CONNECTED" /\ sock[connectedsocket].tcp = "up"
       \/ At("Failed") /\ Me = connectedsocket /\ sock[Me].state = "DISCONNECTED"
    /\ \A i \in DOMAIN todo : todo[i].op = "Destroy" /\ todo[i].s = connectedsocket
                                => At("Failed") /\ Me = connectedsocket

\* A lookup under way is that of an open socket that waits for it, or of none.
LookupInv ==
  \A l \in lookups :
    /\ l.s \in m_lstOpenSockets => sock[l.s].m_IsSolving
    /\ \A m \in lookups : l.s = m.s => l = m

\* While the loop of CheckForTimeout is under way, only a socket that is not
\* yet an attempt fails, and a second pass finds no attempt.
ScanInv ==
  /\ it \in 0..(Len(connectionattemps) + 1)
  /\ it # 0 =>
       /\ todo # <<>> /\ todo[Len(todo)].op = "Scan"
       /\ Head(todo).op \in Later \cup {"TryAnother", "ConnectToAnyPlain", "Failed"}
       /\ At("Failed") => ~singleconnecting /\ sock[Me].state = "ERROR" /\ Me \notin Attempts
       /\ At("ConnectToAnyPlain") => connectionattemps = <<>>

\* A socket is an attempt once at most.
OneAttempt == IsInjective(connectionattemps)

\* Without a try no attempt is open.
IdleInv == ~connecting => Attempts \cap m_lstOpenSockets = {}

\* A socket is no attempt before its insertion, at which time it is open only
\* if nothing went wrong.
InsertInv ==
  \A i \in DOMAIN todo : todo[i].op = "Insert" =>
    /\ todo[i].s \notin Attempts
    /\ \A j \in DOMAIN todo : j > i => todo[j].s # todo[i].s
    /\ \/ todo[i].s \notin m_lstOpenSockets
       \/ i = 1 /\ connecting
       \/ i > 1 /\ todo[i - 1].op = "Destroy" /\ todo[i - 1].s = todo[i].s

\* One that is about to be destroyed is no attempt any more, unless its login
\* was refused, its failure is still to be handled or the whole try is over.
DestroyInv ==
  \A i \in DOMAIN todo :
    todo[i].op = "Destroy" /\ todo[i].s \in m_lstOpenSockets \cap Attempts =>
      \/ sock[todo[i].s].state = "DISCONNECTED"
      \/ At("Failed") /\ Me = todo[i].s
      \/ At("ConnectToPlain")

\* These need that an address is not given to a new socket while an attempt or
\* a lookup still refers to the old one.
ReuseInv ==
  AddressReuse \/ (LiveInv /\ LookupInv /\ ScanInv /\ OneAttempt /\ IdleInv /\ InsertInv /\ DestroyInv)

ServerInv == CoreInv /\ ReuseInv
=============================================================================
