------------------------------ MODULE VncServer ------------------------------
(***************************************************************************)
(* The client registry of vncServer (miniWinVNC/vncserver.cpp) and the     *)
(* threads that work on it: the threads of the clients, from AddClient to  *)
(* the end of vncClientThread::run, the threads that shut the server down  *)
(* (user interface, service pipes) and the reader of the desktop thread    *)
(* that does not take the lock.                                            *)
(*                                                                         *)
(* Both locks are variables.  A section of m_clientsLock that waits for    *)
(* nothing is one action, which needs the lock free; the lock is kept over *)
(* several by who sends while it kills, and by the desktop thread while it *)
(* walks over the clients, for that may sleep in EnableUpdates.  A thread  *)
(* that sleeps on m_clientquitsig gives it up.  The lock order of the code *)
(* is m_desktopLock before m_clientsLock, and the thread that is joined    *)
(* under the first takes the second.                                       *)
(***************************************************************************)
EXTENDS Integers, Sequences, FiniteSets

CONSTANTS
    Clients,         \* the connections, each with a thread of its own
    Controllers,     \* the threads that may shut the server down
    Desktop,         \* the desktop thread
    None,            \* nobody
    MaxClients,      \* MAX_CLIENTS: the size of m_clientmap
    Priorities,      \* the values of ConnectPriority to consider
    DesktopMayFail,  \* can vncDesktop::Init fail
    MayDestroy,      \* does a controller run the destructor in the end
    MayRetry,        \* is m_fAutoReconnect set
    DisplayChanges   \* can the display change while there is a desktop

ASSUME ServerAssumption ==
    /\ None \notin Clients \union Controllers \union {Desktop}
    /\ Desktop \notin Clients \union Controllers
    /\ Clients \intersect Controllers = {}
    /\ MaxClients \in Nat \ {0}
    /\ Priorities \subseteq 0..3
    /\ DesktopMayFail \in BOOLEAN
    /\ MayDestroy \in BOOLEAN
    /\ MayRetry \in BOOLEAN
    /\ DisplayChanges \in BOOLEAN

VARIABLES
    unauth, auth,    \* m_unauthClients, m_authClients: client ids
    clientmap,       \* m_clientmap: the client of each id
    desktopLock,     \* the holder of m_desktopLock
    clientsLock,     \* the holder of m_clientsLock
    desktop,         \* which vncDesktop m_desktop points to, 0 for NULL
    made,            \* how many vncDesktop objects have been made
    pc,              \* where each client's thread is
    id,              \* m_id of each client
    closed,          \* the clients whose socket the server has closed
    shared,          \* the clients that asked to share (client_ini.shared)
    reverse,         \* the clients the server called back (m_shared, m_auth)
    buffer,          \* the desktop whose buffer each client was given
    priority,        \* ConnectPriority
    listening,       \* m_socketConn is there and its thread accepts
    retrying,        \* m_fAutoReconnect: the retry timer is armed
    kpc,             \* where each controller is
    task,            \* what each controller does
    waiters,         \* who sleeps on m_clientquitsig, oldest first
    dpc,             \* where the desktop thread is, if there is a desktop
    probe            \* the id the desktop thread read without a lock, or 0

lists    == <<unauth, auth, clientmap>>
screen   == <<desktop, made, desktopLock>>
client   == <<pc, id, closed, shared, reverse, buffer>>
config   == <<priority, listening, retrying>>
control  == <<kpc, task, waiters>>
walker   == <<clientsLock, dpc, probe>>
vars     == <<lists, screen, client, config, control, walker>>

Ids == 0..(MaxClients - 1)

ClientPC  == {"none", "init", "refuse", "exclusive", "killing", "enter", "entering",
              "running", "quitting", "leaving", "unlisting", "removing", "notifying",
              "exiting", "gone"}
ControlPC == {"idle", "killAuth", "closeAuth", "killUnauth", "closeUnauth", "waitAuth",
              "asleepAuth", "waitUnauth", "asleepUnauth", "stopListener",
              "lockDesktop", "freeDesktop", "done"}

TypeOK ==
    /\ unauth \subseteq Ids /\ auth \subseteq Ids
    /\ clientmap \in [Ids -> Clients \union {None}]
    /\ desktopLock \in Clients \union Controllers \union {None}
    /\ clientsLock \in Clients \union Controllers \union {Desktop, None}
    /\ desktop \in Nat /\ made \in Nat
    /\ pc \in [Clients -> ClientPC]
    /\ id \in [Clients -> Ids]
    /\ closed \subseteq Clients /\ shared \subseteq Clients
    /\ reverse \subseteq Clients
    /\ buffer \in [Clients -> Nat]
    /\ priority \in 0..3
    /\ listening \in BOOLEAN /\ retrying \in BOOLEAN
    /\ kpc \in [Controllers -> ControlPC]
    /\ task \in [Controllers -> {"none", "KillAll", "ShutDown", "Destroy"}]
    /\ waiters \in Seq(Controllers)
    /\ dpc \in {"loop", "want", "walk"} /\ probe \in Ids

Init ==
    /\ unauth = {} /\ auth = {}
    /\ clientmap = [s \in Ids |-> None]
    /\ desktopLock = None /\ clientsLock = None
    /\ desktop = 0 /\ made = 0
    /\ pc = [c \in Clients |-> "none"]
    /\ id = [c \in Clients |-> 0]
    /\ closed = {} /\ shared = {} /\ reverse = {}
    /\ buffer = [c \in Clients |-> 0]
    /\ priority \in Priorities
    /\ listening = FALSE /\ retrying = MayRetry
    /\ kpc = [k \in Controllers |-> "idle"]
    /\ task = [k \in Controllers |-> "none"]
    /\ waiters = << >>
    /\ dpc = "loop" /\ probe = 0

GetClient(s) == clientmap[s]
ClientsOf(S) == {GetClient(s) : s \in S} \ {None}

\* omni_mutex_lock l(m_clientsLock) by a thread that does not hold it.
ClientsFree == clientsLock = None

(***************************************************************************)
(* The life of a client.                                                   *)
(***************************************************************************)
\* Slip: the search does not test m_clientmap[clientid].
FreeIds_IgnoresUsed == Ids \ {0}

\* Slip: the search goes up to MAX_CLIENTS itself.
FreeIds_OffByOne == {s \in 1..MaxClients : s \in Ids => clientmap[s] = None}

\* m_nextid stays 0, so the search starts at 1 and gives up at 0.
FreeIds == {s \in Ids \ {0} : clientmap[s] = None}

\* vncSockConnectThread has accepted a connection, or the retry timer of the
\* user interface thread has made one.
Arrives(c, rev) == /\ pc[c] = "none"
                   /\ IF rev THEN retrying ELSE listening
                   /\ reverse' = IF rev THEN reverse \union {c} ELSE reverse

AddClient(c, rev) ==
    /\ Arrives(c, rev) /\ ClientsFree
    /\ \E s \in FreeIds :
         /\ \A r \in FreeIds : s <= r
         /\ clientmap' = [clientmap EXCEPT ![s] = c]
         /\ unauth' = unauth \union {s}
         /\ id' = [id EXCEPT ![c] = s]
    /\ pc' = [pc EXCEPT ![c] = "init"]
    /\ UNCHANGED <<auth, screen, closed, shared, buffer, config, control, walker>>

\* Every id is taken: the socket is deleted.
RefuseClient(c, rev) ==
    /\ Arrives(c, rev) /\ ClientsFree
    /\ FreeIds = {}
    /\ pc' = [pc EXCEPT ![c] = "gone"]
    /\ UNCHANGED <<lists, screen, id, closed, shared, buffer, config, control, walker>>

\* InitVersion or InitAuthenticate fails: a bad answer, a wrong password, a
\* closed socket, or 30 seconds of silence (SetTimeout).
HandshakeFails(c) ==
    /\ pc[c] = "init"
    /\ pc' = [pc EXCEPT ![c] = "leaving"]
    /\ UNCHANGED <<lists, screen, id, closed, shared, reverse, buffer, config, control, walker>>

\* The last read of InitAuthenticate: client_ini, which says shared or not.
HandshakeDone(c, share) ==
    /\ pc[c] = "init" /\ c \notin closed
    /\ pc' = [pc EXCEPT ![c] = "refuse"]
    /\ shared' = IF share THEN shared \union {c} ELSE shared
    /\ UNCHANGED <<lists, screen, id, closed, reverse, buffer, config, control, walker>>

\* ConnectPriority() == 3: one connection at a time.
RefuseAllCheck(c) ==
    LET only == priority = 3 /\ c \notin reverse IN
    /\ pc[c] = "refuse"
    /\ only => ClientsFree
    /\ pc' = [pc EXCEPT ![c] = IF only /\ auth # {} THEN "leaving" ELSE "exclusive"]
    /\ UNCHANGED <<lists, screen, id, closed, shared, reverse, buffer, config, control, walker>>

\* A client that will not share: the old ones go, for which it takes
\* m_clientsLock, or it goes.
ExclusiveCheck(c) ==
    LET exclusive == c \notin shared /\ c \notin reverse IN
    /\ pc[c] = "exclusive"
    /\ exclusive /\ priority # 1 => ClientsFree
    /\ IF exclusive /\ priority < 1
       THEN clientsLock' = c /\ pc' = [pc EXCEPT ![c] = "killing"]
       ELSE /\ pc' = [pc EXCEPT ![c] = IF exclusive /\ priority > 1 /\ auth # {}
                                       THEN "leaving" ELSE "enter"]
            /\ UNCHANGED clientsLock
    /\ UNCHANGED <<lists, screen, id, closed, shared, reverse, buffer, config, control,
                   dpc, probe>>

\* KillAuthClients: to each of them a message, which may take its time.
KillOthers(c) ==
    /\ pc[c] = "killing"
    /\ closed' = closed \union ClientsOf(auth)
    /\ clientsLock' = None
    /\ pc' = [pc EXCEPT ![c] = "enter"]
    /\ UNCHANGED <<lists, screen, id, shared, reverse, buffer, config, control, dpc, probe>>

\* omni_mutex_lock l1(m_desktopLock) of Authenticated and of RemoveClient:
\* from here a client waits for m_clientsLock with m_desktopLock held.
LockDesktop(c) ==
    /\ pc[c] \in {"enter", "leaving"}
    /\ desktopLock = None
    /\ desktopLock' = c
    /\ pc' = [pc EXCEPT ![c] = IF @ = "enter" THEN "entering" ELSE "unlisting"]
    /\ UNCHANGED <<lists, desktop, made, id, closed, shared, reverse, buffer, config,
                   control, walker>>

\* vncServer::Authenticated, under both locks, with the making of the desktop
\* if there is none.
Authenticated(c) ==
    /\ pc[c] = "entering" /\ ClientsFree
    /\ unauth' = unauth \ {id[c]}
    /\ IF id[c] \notin unauth
       THEN UNCHANGED <<auth, desktop, made, buffer>>
       ELSE /\ IF desktop = 0
               THEN desktop' = made + 1 /\ made' = made + 1
               ELSE UNCHANGED <<desktop, made>>
            /\ buffer' = [buffer EXCEPT ![c] = desktop']
            /\ auth' = auth \union {id[c]}
    /\ desktopLock' = None
    /\ pc' = [pc EXCEPT ![c] = "running"]
    /\ UNCHANGED <<clientmap, id, closed, shared, reverse, config, control, walker>>

\* ... and when vncDesktop::Init fails: the client is on neither list now.
DesktopInitFails(c) ==
    /\ DesktopMayFail
    /\ pc[c] = "entering" /\ ClientsFree
    /\ id[c] \in unauth /\ desktop = 0
    /\ unauth' = unauth \ {id[c]}
    /\ made' = made + 1
    /\ closed' = closed \union {c}
    /\ desktopLock' = None
    /\ pc' = [pc EXCEPT ![c] = "leaving"]
    /\ UNCHANGED <<auth, clientmap, desktop, id, shared, reverse, buffer, config, control,
                   walker>>

\* The message loop ends: the peer is gone, or the server closed the socket.
EndSession(c) ==
    /\ pc[c] = "running"
    /\ pc' = [pc EXCEPT ![c] = "quitting"]
    /\ UNCHANGED <<lists, screen, id, closed, shared, reverse, buffer, config, control, walker>>

\* DisableProtocol, and the kill and join of the update thread, have returned
\* (UpdateGate): they wait for what that thread sends.
UpdateThreadEnds(c) ==
    /\ pc[c] = "quitting"
    /\ pc' = [pc EXCEPT ![c] = "leaving"]
    /\ UNCHANGED <<lists, screen, id, closed, shared, reverse, buffer, config, control, walker>>

\* Slip: RemoveClient does not signal.
SignalQuit_Forgotten == UNCHANGED control

\* omni_condition::signal on m_clientquitsig: the oldest sleeper looks again.
SignalQuit ==
    IF waiters = << >>
    THEN UNCHANGED control
    ELSE /\ waiters' = Tail(waiters)
         /\ kpc' = [kpc EXCEPT ![Head(waiters)] =
                      IF @ = "asleepAuth" THEN "waitAuth" ELSE "waitUnauth"]
         /\ UNCHANGED task

\* Slip: m_clientsLock is released at the end of RemoveClient, not before the
\* desktop is deleted.
RemoveClient_KeepsLock(c) ==
    /\ pc[c] = "unlisting" /\ ClientsFree
    /\ unauth' = unauth \ {id[c]}
    /\ auth' = auth \ {id[c]}
    /\ clientmap' = IF id[c] \in unauth \union auth
                    THEN [clientmap EXCEPT ![id[c]] = None] ELSE clientmap
    /\ SignalQuit
    /\ pc' = [pc EXCEPT ![c] = "removing"]
    /\ clientsLock' = c
    /\ UNCHANGED <<screen, id, closed, shared, reverse, buffer, config, dpc, probe>>

\* vncServer::RemoveClient, the part under both locks.
RemoveClient(c) ==
    /\ pc[c] = "unlisting" /\ ClientsFree
    /\ unauth' = unauth \ {id[c]}
    /\ auth' = auth \ {id[c]}
    /\ clientmap' = IF id[c] \in unauth \union auth
                    THEN [clientmap EXCEPT ![id[c]] = None] ELSE clientmap
    /\ SignalQuit
    /\ pc' = [pc EXCEPT ![c] = "removing"]
    /\ UNCHANGED <<screen, id, closed, shared, reverse, buffer, config, walker>>

\* Slip: the desktop goes with every client.
RemoveDesktop_Always(c) ==
    /\ pc[c] = "removing"
    /\ IF desktop # 0
       THEN dpc = "loop" /\ probe = 0 /\ desktop' = 0
       ELSE UNCHANGED desktop
    /\ pc' = [pc EXCEPT ![c] = "notifying"]
    /\ UNCHANGED <<lists, made, desktopLock, id, closed, shared, reverse, buffer, config,
                   control, walker>>

\* Slip: clients that are not authenticated keep the desktop alive.
RemoveDesktop_BothLists(c) ==
    /\ pc[c] = "removing"
    /\ IF unauth \union auth = {} /\ desktop # 0
       THEN dpc = "loop" /\ probe = 0 /\ desktop' = 0
       ELSE UNCHANGED desktop
    /\ pc' = [pc EXCEPT ![c] = "notifying"]
    /\ UNCHANGED <<lists, made, desktopLock, id, closed, shared, reverse, buffer, config,
                   control, walker>>

\* ... and the part under m_desktopLock alone.  Deleting the desktop joins its
\* thread: it has to come back to its loop, from a walk, from the look at the
\* lists without a lock, and from waiting for m_clientsLock.
RemoveDesktop(c) ==
    /\ pc[c] = "removing"
    /\ IF auth = {} /\ desktop # 0
       THEN dpc = "loop" /\ probe = 0 /\ desktop' = 0
       ELSE UNCHANGED desktop
    /\ pc' = [pc EXCEPT ![c] = "notifying"]
    /\ UNCHANGED <<lists, made, desktopLock, id, closed, shared, reverse, buffer, config,
                   control, walker>>

\* DoNotify takes m_clientsLock again (a lock that its holder may take twice),
\* and the end of RemoveClient releases m_desktopLock.
NotifyDisconnect(c) ==
    /\ pc[c] = "notifying"
    /\ clientsLock \in {None, c}
    /\ clientsLock' = None
    /\ desktopLock' = None
    /\ pc' = [pc EXCEPT ![c] = "exiting"]
    /\ UNCHANGED <<lists, desktop, made, id, closed, shared, reverse, buffer, config,
                   control, dpc, probe>>

\* run returns: omni_thread::exit deletes the thread and with it the client,
\* whose members nobody can see any more.
Exit(c) ==
    /\ pc[c] = "exiting"
    /\ pc' = [pc EXCEPT ![c] = "gone"]
    /\ id' = [id EXCEPT ![c] = 0] /\ buffer' = [buffer EXCEPT ![c] = 0]
    /\ closed' = closed \ {c} /\ shared' = shared \ {c} /\ reverse' = reverse \ {c}
    /\ UNCHANGED <<lists, screen, config, control, walker>>

(***************************************************************************)
(* The controllers.  ShutDown and SockConnect(FALSE) kill, wait and then   *)
(* stop the listener; the destructor stops the listener first and frees    *)
(* the desktop in the end.  The menu kills and does not wait.              *)
(***************************************************************************)
Destroying == \E k \in Controllers : task[k] = "Destroy"

Listen(k) ==
    /\ kpc[k] = "idle" /\ ~Destroying
    /\ ~listening
    /\ listening' = TRUE
    /\ UNCHANGED <<lists, screen, client, priority, retrying, control, walker>>

BeginKillAll(k) ==
    /\ kpc[k] = "idle" /\ ~Destroying
    /\ kpc' = [kpc EXCEPT ![k] = "killAuth"]
    /\ task' = [task EXCEPT ![k] = "KillAll"]
    /\ UNCHANGED <<lists, screen, client, config, waiters, walker>>

BeginShutDown(k) ==
    /\ kpc[k] = "idle" /\ ~Destroying
    /\ kpc' = [kpc EXCEPT ![k] = "killAuth"]
    /\ task' = [task EXCEPT ![k] = "ShutDown"]
    /\ UNCHANGED <<lists, screen, client, config, waiters, walker>>

BeginDestroy(k) ==
    /\ MayDestroy
    /\ kpc[k] = "idle" /\ ~Destroying
    /\ retrying' = FALSE
    /\ kpc' = [kpc EXCEPT ![k] = "stopListener"]
    /\ task' = [task EXCEPT ![k] = "Destroy"]
    /\ UNCHANGED <<lists, screen, client, priority, listening, waiters, walker>>

\* KillAuthClients and KillUnauthClients keep m_clientsLock while each client
\* is sent its message.
BeginKill(k) ==
    /\ kpc[k] \in {"killAuth", "killUnauth"} /\ ClientsFree
    /\ clientsLock' = k
    /\ kpc' = [kpc EXCEPT ![k] = IF @ = "killAuth" THEN "closeAuth" ELSE "closeUnauth"]
    /\ UNCHANGED <<lists, screen, client, config, task, waiters, dpc, probe>>

KillAuthClients(k) ==
    /\ kpc[k] = "closeAuth"
    /\ closed' = closed \union ClientsOf(auth)
    /\ clientsLock' = None
    /\ IF task[k] = "KillAll"
       THEN kpc' = [kpc EXCEPT ![k] = "idle"] /\ task' = [task EXCEPT ![k] = "none"]
       ELSE kpc' = [kpc EXCEPT ![k] = "killUnauth"] /\ UNCHANGED task
    /\ UNCHANGED <<lists, screen, pc, id, shared, reverse, buffer, config, waiters, dpc, probe>>

KillUnauthClients(k) ==
    /\ kpc[k] = "closeUnauth"
    /\ closed' = closed \union ClientsOf(unauth)
    /\ clientsLock' = None
    /\ kpc' = [kpc EXCEPT ![k] = "waitAuth"]
    /\ UNCHANGED <<lists, screen, pc, id, shared, reverse, buffer, config, task, waiters,
                   dpc, probe>>

\* while (!m_authClients.empty()) m_clientquitsig->wait();
WaitUntilAuthEmpty(k) ==
    /\ kpc[k] = "waitAuth" /\ ClientsFree
    /\ IF auth = {}
       THEN /\ kpc' = [kpc EXCEPT ![k] = "waitUnauth"]
            /\ UNCHANGED waiters
       ELSE /\ kpc' = [kpc EXCEPT ![k] = "asleepAuth"]
            /\ waiters' = Append(waiters, k)
    /\ UNCHANGED <<lists, screen, client, config, task, walker>>

WaitUntilUnauthEmpty(k) ==
    /\ kpc[k] = "waitUnauth" /\ ClientsFree
    /\ IF unauth = {}
       THEN /\ kpc' = [kpc EXCEPT ![k] =
                         IF task[k] = "Destroy" THEN "lockDesktop" ELSE "stopListener"]
            /\ UNCHANGED waiters
       ELSE /\ kpc' = [kpc EXCEPT ![k] = "asleepUnauth"]
            /\ waiters' = Append(waiters, k)
    /\ UNCHANGED <<lists, screen, client, config, task, walker>>

\* delete m_socketConn, which joins the listening thread.
StopListener(k) ==
    /\ kpc[k] = "stopListener"
    /\ listening' = FALSE
    /\ IF task[k] = "Destroy"
       THEN /\ kpc' = [kpc EXCEPT ![k] = "killAuth"]
            /\ UNCHANGED task
       ELSE /\ kpc' = [kpc EXCEPT ![k] = "idle"]
            /\ task' = [task EXCEPT ![k] = "none"]
    /\ UNCHANGED <<lists, screen, client, priority, retrying, waiters, walker>>

LockToFree(k) ==
    /\ kpc[k] = "lockDesktop"
    /\ desktopLock = None
    /\ desktopLock' = k
    /\ kpc' = [kpc EXCEPT ![k] = "freeDesktop"]
    /\ UNCHANGED <<lists, desktop, made, client, config, task, waiters, walker>>

FreeDesktop(k) ==
    /\ kpc[k] = "freeDesktop"
    /\ desktop # 0 => dpc = "loop" /\ probe = 0
    /\ desktop' = 0
    /\ desktopLock' = None
    /\ kpc' = [kpc EXCEPT ![k] = "done"]
    /\ UNCHANGED <<lists, made, client, config, task, waiters, walker>>

(***************************************************************************)
(* The desktop thread, as far as the registry goes.  It walks over         *)
(* m_authClients under m_clientsLock, in UpdateWanted, UpdateMouse, the    *)
(* posting of updates, UpdateLocalFormat and SetNewSWSize.  The last two   *)
(* may sleep in EnableUpdates with the lock held, and the last kills.      *)
(***************************************************************************)
WantWalk == /\ desktop # 0 /\ dpc = "loop" /\ probe = 0
            /\ dpc' = "want"
            /\ UNCHANGED <<lists, screen, client, config, control, clientsLock, probe>>

BeginWalk == /\ dpc = "want" /\ ClientsFree
             /\ dpc' = "walk" /\ clientsLock' = Desktop
             /\ UNCHANGED <<lists, screen, client, config, control, probe>>

\* KillClient, because SetNewSWSize has failed for a client.
KillClient(s) ==
    /\ DisplayChanges
    /\ dpc = "walk"
    /\ s \in auth
    /\ closed' = closed \union ClientsOf({s})
    /\ UNCHANGED <<lists, screen, pc, id, shared, reverse, buffer, config, control, walker>>

EndWalk == /\ dpc = "walk"
           /\ dpc' = "loop" /\ clientsLock' = None
           /\ UNCHANGED <<lists, screen, client, config, control, probe>>

\* All_clients_initialalized walks m_authClients and follows GetClient(i)
\* without m_clientsLock.
ProbeRead(s) == /\ DisplayChanges
                /\ desktop # 0 /\ dpc = "loop" /\ probe = 0
                /\ s \in auth
                /\ probe' = s
                /\ UNCHANGED <<lists, screen, client, config, control, clientsLock, dpc>>

ProbeUse == /\ probe # 0
            /\ probe' = 0
            /\ UNCHANGED <<lists, screen, client, config, control, clientsLock, dpc>>

Handshake(c) == HandshakeFails(c) \/ \E b \in BOOLEAN : HandshakeDone(c, b)
Enter(c)     == Authenticated(c) \/ DesktopInitFails(c)
KilledEnd(c) == c \in closed /\ EndSession(c)

ClientStep(c) ==
    \/ \E rev \in BOOLEAN : AddClient(c, rev) \/ RefuseClient(c, rev)
    \/ Handshake(c)
    \/ RefuseAllCheck(c) \/ ExclusiveCheck(c) \/ KillOthers(c)
    \/ LockDesktop(c) \/ Enter(c)
    \/ EndSession(c) \/ UpdateThreadEnds(c)
    \/ RemoveClient(c) \/ RemoveDesktop(c) \/ NotifyDisconnect(c) \/ Exit(c)

ControlStep(k) ==
    \/ Listen(k) \/ BeginKillAll(k) \/ BeginShutDown(k) \/ BeginDestroy(k)
    \/ BeginKill(k) \/ KillAuthClients(k) \/ KillUnauthClients(k)
    \/ WaitUntilAuthEmpty(k) \/ WaitUntilUnauthEmpty(k)
    \/ StopListener(k) \/ LockToFree(k) \/ FreeDesktop(k)

DesktopStep ==
    \/ WantWalk \/ BeginWalk \/ EndWalk \/ ProbeUse
    \/ \E s \in Ids : KillClient(s) \/ ProbeRead(s)

Next == \/ \E c \in Clients : ClientStep(c)
        \/ \E k \in Controllers : ControlStep(k)
        \/ DesktopStep

Spec == Init /\ [][Next]_vars

(***************************************************************************)
(* Fairness: a thread that can go on does, a handshake ends (SetTimeout),  *)
(* a read on a socket the server closed returns, and a lock that is free   *)
(* again and again is obtained.  A peer need never leave by itself, and    *)
(* nobody has to connect or to shut the server down.  Nothing is assumed   *)
(* of what waits for a peer or for an update thread: a walk need not end,  *)
(* nor a kill, nor the wait for the update thread (GivenBack).             *)
(***************************************************************************)
ClientProgress(c) == Handshake(c) \/ KilledEnd(c) \/ Exit(c)
ClientLocks(c)    == \/ RefuseAllCheck(c) \/ ExclusiveCheck(c)
                     \/ LockDesktop(c) \/ Enter(c)
                     \/ RemoveClient(c) \/ RemoveDesktop(c) \/ NotifyDisconnect(c)
ControlLocks(k)   == \/ BeginKill(k) \/ WaitUntilAuthEmpty(k) \/ WaitUntilUnauthEmpty(k)
                     \/ LockToFree(k) \/ FreeDesktop(k)

Fairness ==
    /\ \A c \in Clients : WF_vars(ClientProgress(c)) /\ SF_vars(ClientLocks(c))
    /\ \A k \in Controllers : WF_vars(StopListener(k)) /\ SF_vars(ControlLocks(k))
    /\ WF_vars(ProbeUse) /\ SF_vars(BeginWalk)

FairSpec == Spec /\ Fairness
-----------------------------------------------------------------------------
(***************************************************************************)
(* Properties.                                                             *)
(***************************************************************************)
\* Before Authenticated, between it and the end of the update thread, and from
\* there to RemoveClient.
Shaking == {"init", "refuse", "exclusive", "killing", "enter", "entering"}
Using   == {"running", "quitting"}
Going   == {"leaving", "unlisting"}

Listed(c) == id[c] \in unauth \union auth /\ GetClient(id[c]) = c

\* Every id of the two lists leads to the client that owns it, whose thread is
\* still there: the loops that follow GetClient(i) under m_clientsLock never
\* meet a null pointer, a deleted client or somebody else's, and no client is
\* on both lists or listed under two ids.
ListsSound ==
    /\ unauth \intersect auth = {}
    /\ \A s \in unauth \union auth :
         /\ GetClient(s) # None
         /\ id[GetClient(s)] = s
         /\ pc[GetClient(s)] \in Going \union (IF s \in auth THEN Using ELSE Shaking)

\* While a client is authenticated, from SetBuffer to its own RemoveClient,
\* the desktop whose buffer it was given is the one that exists: the client
\* thread never draws on, or locks the m_update_lock of, a deleted desktop.
BufferIsDesktop ==
    \A c \in Clients :
        (pc[c] = "running" \/ (id[c] \in auth /\ Listed(c)))
            => desktop # 0 /\ buffer[c] = desktop

\* The desktop, with its hooks and its polling, exists exactly as long as
\* somebody is authenticated: it is never left running when the last client
\* has gone, and two clients that leave and come at the same time do not
\* leave the newcomer without one.
DesktopOnlyWithClients == desktopLock = None => (desktop # 0 <=> auth # {})

\* A controller sleeps in WaitUntilAuthEmpty only while somebody is
\* authenticated: the quit that empties the list is never missed between the
\* test and the wait.  This needs the controller to be the only one that
\* sleeps: of two, the one signal of the last client wakes one.
AuthSleeperHasReason ==
    \A k \in Controllers : kpc[k] = "asleepAuth" => auth # {}

\* What the locks of the registry cannot help: a walk of the desktop thread
\* that sleeps in EnableUpdates, a kill whose message the peer does not take,
\* and the wait of a leaving thread for its update thread come to an end.  Of
\* none of them the code is sure.
GivenBack ==
    /\ []<>(dpc # "walk")
    /\ \A c \in Clients : []<>(pc[c] \notin {"killing", "quitting"})
    /\ \A k \in Controllers : []<>(kpc[k] \notin {"closeAuth", "closeUnauth"})

\* A client that the server has killed, or whose thread has decided to leave
\* for whatever reason, goes, with its object, if such waits end: the two
\* locks and the join of the desktop thread, which takes one of them while a
\* client holds the other, make no deadlock.
LeavingClientGoes ==
    GivenBack => \A c \in Clients :
                    (c \in closed \/ pc[c] \in {"quitting", "leaving"}) ~> pc[c] = "gone"
=============================================================================
