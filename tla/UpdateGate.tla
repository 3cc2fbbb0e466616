----------------------------- MODULE UpdateGate -----------------------------
(***************************************************************************)
(* The gate between the threads that change a client's format, encoding or *)
(* existence and the thread that sends it updates (miniWinVNC/             *)
(* vncclient.cpp): DisableProtocol and EnableProtocol with their count,    *)
(* vncClientUpdateThread, and the end of vncClientThread::run.             *)
(*                                                                         *)
(* Three kinds of threads: the thread of each client, its update thread,   *)
(* and one thread at a time that holds m_clientsLock and walks over the    *)
(* authenticated clients (Desktop: in the code mostly the desktop thread). *)
(* One update lock serves all clients: GetUpdateLock returns the           *)
(* m_update_lock of the desktop.  A client is here from its Authenticated  *)
(* to its RemoveClient.                                                    *)
(*                                                                         *)
(* What happens under the update lock in one go is one action; only the    *)
(* sending of an update and a file transfer keep it while they talk to the *)
(* network.                                                                *)
(***************************************************************************)
EXTENDS Naturals, FiniteSets

CONSTANTS Clients,   \* the authenticated clients
          Desktop,   \* the thread that walks over them
          None,      \* nobody
          Aims,      \* why a client thread may disable the protocol
          Walks      \* what Desktop may do to the clients

ASSUME GateAssumption == /\ Desktop \notin Clients /\ None \notin Clients
                         /\ Aims \subseteq {"format", "encodings", "leave"}
                         /\ Walks \subseteq {"changed", "format"}

VARIABLES
    lock,      \* the client on whose behalf the update lock is kept, or None
    pc,        \* where each client thread, and Desktop, is
    aim,       \* why a client thread disables the protocol
    op,        \* what Desktop does: nothing, add_changed, UpdateLocalFormat
    todo,      \* the clients Desktop has not come to yet
    target,    \* the client Desktop is at
    count,     \* m_disable_protocol of each client
    thread,    \* m_updatethread is not NULL
    enable,    \* m_enable of the update thread
    active,    \* m_active of the update thread
    upc,       \* where each update thread is
    pending    \* is there something to send that the client asked for

walk == <<op, todo, target>>
upd  == <<thread, enable, active, upc>>
vars == <<lock, pc, aim, walk, count, upd, pending>>

Threads == Clients \union {Desktop}
TargetOf(t) == IF t = Desktop THEN target ELSE t

PC  == {"idle", "next", "disable", "sleepDisable", "wokenDisable", "work",
        "enable", "sleepEnable", "wokenEnable", "transfer",
        "kill", "join", "remove", "removed"}
UPC == {"none", "top", "wait", "send", "encode", "ended"}

TypeOK ==
    /\ lock \in Clients \union {None}
    /\ pc \in [Threads -> PC]
    /\ aim \in [Clients -> {"none", "format", "encodings", "leave"}]
    /\ op \in {"none", "changed", "format"}
    /\ todo \subseteq Clients
    /\ target \in Clients \union {None}
    /\ count \in [Clients -> Nat]
    /\ thread \in [Clients -> BOOLEAN]
    /\ enable \in [Clients -> BOOLEAN]
    /\ active \in [Clients -> BOOLEAN]
    /\ upc \in [Clients -> UPC]
    /\ pending \in [Clients -> BOOLEAN]

\* vncClient::vncClient sets m_disable_protocol to 1; the first thing a new
\* client thread does with the gate is to open it.
Init ==
    /\ lock = None
    /\ pc = [t \in Threads |-> IF t = Desktop THEN "idle" ELSE "enable"]
    /\ aim = [c \in Clients |-> "none"]
    /\ op = "none" /\ todo = {} /\ target = None
    /\ count = [c \in Clients |-> 1]
    /\ thread = [c \in Clients |-> FALSE]
    /\ enable = [c \in Clients |-> FALSE]
    /\ active = [c \in Clients |-> FALSE]
    /\ upc = [c \in Clients |-> "none"]
    /\ pending = [c \in Clients |-> FALSE]

Goto(t, l) == pc' = [pc EXCEPT ![t] = l]

(***************************************************************************)
(* The update thread.                                                      *)
(***************************************************************************)
\* m_signal->signal() for the update thread of client c.
Signalled(c) == [upc EXCEPT ![c] = IF @ = "wait" THEN "top" ELSE @]

\* Slip: a new update thread starts enabled.
TriggerUpdateThread_StartsEnabled(c) ==
    IF thread[c]
    THEN /\ upc' = IF count[c] = 0 THEN Signalled(c) ELSE upc
         /\ UNCHANGED <<thread, enable, active>>
    ELSE /\ thread' = [thread EXCEPT ![c] = TRUE]
         /\ active' = [active EXCEPT ![c] = TRUE]
         /\ enable' = [enable EXCEPT ![c] = TRUE]
         /\ upc' = [upc EXCEPT ![c] = "top"]

\* TriggerUpdateThread, under the update lock: make the thread if there is
\* none, and wake it if the protocol is enabled.
TriggerUpdateThread(c) ==
    IF thread[c]
    THEN /\ upc' = IF count[c] = 0 THEN Signalled(c) ELSE upc
         /\ UNCHANGED <<thread, enable, active>>
    ELSE /\ thread' = [thread EXCEPT ![c] = TRUE]
         /\ active' = [active EXCEPT ![c] = TRUE]
         /\ enable' = [enable EXCEPT ![c] = count[c] = 0]
         /\ upc' = [upc EXCEPT ![c] = "top"]

\* Slip: the synchronisation signal is not issued.
SyncBroadcast_Forgotten(c) == UNCHANGED pc

\* m_sync_sig->broadcast(): wake who waits for this update thread.
SyncBroadcast(c) ==
    pc' = [t \in Threads |->
              CASE TargetOf(t) = c /\ pc[t] = "sleepDisable" -> "wokenDisable"
                [] TargetOf(t) = c /\ pc[t] = "sleepEnable"  -> "wokenEnable"
                [] OTHER -> pc[t]]

\* The loop at the top of run_undetached finds nothing to do.
UpdateWaits(c) ==
    /\ upc[c] = "top" /\ lock = None
    /\ active[c]
    /\ ~enable[c] \/ ~pending[c]
    /\ SyncBroadcast(c)
    /\ upc' = [upc EXCEPT ![c] = "wait"]
    /\ UNCHANGED <<lock, aim, walk, count, thread, enable, active, pending>>

\* Slip: the loop condition does not test m_enable.
UpdateTaken_IgnoresEnable(c) ==
    /\ upc[c] = "top" /\ lock = None
    /\ active[c] /\ pending[c]
    /\ pending' = [pending EXCEPT ![c] = FALSE]
    /\ upc' = [upc EXCEPT ![c] = "send"]
    /\ UNCHANGED <<lock, pc, aim, walk, count, thread, enable, active>>

\* ... finds an update and takes it.
UpdateTaken(c) ==
    /\ upc[c] = "top" /\ lock = None
    /\ active[c] /\ enable[c] /\ pending[c]
    /\ pending' = [pending EXCEPT ![c] = FALSE]
    /\ upc' = [upc EXCEPT ![c] = "send"]
    /\ UNCHANGED <<lock, pc, aim, walk, count, thread, enable, active>>

\* ... finds that it has been killed.
UpdateQuits(c) ==
    /\ upc[c] = "top" /\ lock = None
    /\ ~active[c]
    /\ upc' = [upc EXCEPT ![c] = "ended"]
    /\ UNCHANGED <<lock, pc, aim, walk, count, thread, enable, active, pending>>

\* Something may be left to send again: a header that cannot be sent leaves
\* m_cursor_pos_changed set, and m_NewSWUpdateWaiting stays set for a client
\* that no longer takes new sizes.
Unsent(c) == \E unsent \in BOOLEAN : pending' = [pending EXCEPT ![c] = @ \/ unsent]

\* Clipboard, palette and a new size are sent without a lock; SendUpdate takes
\* it, or finds that there is nothing left to send.
SendUpdate(c) ==
    /\ upc[c] = "send"
    /\ \/ /\ lock = None
          /\ lock' = c
          /\ upc' = [upc EXCEPT ![c] = "encode"]
          /\ UNCHANGED pending
       \/ /\ upc' = [upc EXCEPT ![c] = "top"]
          /\ Unsent(c)
          /\ UNCHANGED lock
    /\ UNCHANGED <<pc, aim, walk, count, thread, enable, active>>

SendUpdateEnd(c) ==
    /\ upc[c] = "encode"
    /\ lock' = None
    /\ upc' = [upc EXCEPT ![c] = "top"]
    /\ Unsent(c)
    /\ UNCHANGED <<pc, aim, walk, count, thread, enable, active>>

(***************************************************************************)
(* DisableProtocol and EnableProtocol, by the client thread or Desktop.    *)
(***************************************************************************)
AfterDisable(t) == IF t \in Clients /\ aim[t] = "leave" THEN "kill" ELSE "work"
AfterEnable(t)  == IF t = Desktop THEN "next" ELSE "idle"

\* vncClientUpdateThread::EnableUpdates up to its wait.
EnableUpdates(c, on) == /\ enable' = [enable EXCEPT ![c] = on]
                        /\ upc' = Signalled(c)
                        /\ UNCHANGED <<thread, active>>

\* Slip: only the first DisableProtocol counts.
DisableProtocol_CountsOnce(t) ==
    LET c == TargetOf(t) IN
    /\ pc[t] = "disable" /\ lock = None
    /\ count' = [count EXCEPT ![c] = 1]
    /\ IF count[c] = 0 /\ thread[c]
       THEN EnableUpdates(c, FALSE) /\ Goto(t, "sleepDisable")
       ELSE UNCHANGED upd /\ Goto(t, AfterDisable(t))
    /\ UNCHANGED <<lock, aim, walk, pending>>

DisableProtocol(t) ==
    LET c == TargetOf(t) IN
    /\ pc[t] = "disable" /\ lock = None
    /\ count' = [count EXCEPT ![c] = @ + 1]
    /\ IF count[c] = 0 /\ thread[c]
       THEN EnableUpdates(c, FALSE) /\ Goto(t, "sleepDisable")
       ELSE UNCHANGED upd /\ Goto(t, AfterDisable(t))
    /\ UNCHANGED <<lock, aim, walk, pending>>

\* Slip: if (--m_disable_protocol == 0) after m_disable_protocol--.
EnableProtocol_DecrementsTwice(t) ==
    LET c == TargetOf(t) IN
    /\ pc[t] = "enable" /\ lock = None
    /\ count' = [count EXCEPT ![c] = @ - 2]
    /\ UNCHANGED upd /\ Goto(t, AfterEnable(t))
    /\ UNCHANGED <<lock, aim, walk, pending>>

EnableProtocol(t) ==
    LET c == TargetOf(t) IN
    /\ pc[t] = "enable" /\ lock = None
    /\ IF count[c] = 0    \* "protocol enabled too many times!"
       THEN UNCHANGED <<count, upd>> /\ Goto(t, AfterEnable(t))
       ELSE /\ count' = [count EXCEPT ![c] = @ - 1]
            /\ IF count[c] = 1 /\ thread[c]
               THEN EnableUpdates(c, TRUE) /\ Goto(t, "sleepEnable")
               ELSE UNCHANGED upd /\ Goto(t, AfterEnable(t))
    /\ UNCHANGED <<lock, aim, walk, pending>>

\* m_sync_sig->wait() has been signalled and gets the lock back.
Synced(t) ==
    /\ lock = None
    /\ \/ pc[t] = "wokenDisable" /\ Goto(t, AfterDisable(t))
       \/ pc[t] = "wokenEnable"  /\ Goto(t, AfterEnable(t))
    /\ UNCHANGED <<lock, aim, walk, count, upd, pending>>

\* What is done while the protocol is disabled.  For rfbSetEncodings that
\* needs m_clientsLock (AuthClientCount); SetNewSWSize leaves a new size to
\* be sent.
WorkDone(t) ==
    /\ pc[t] = "work"
    /\ t \in Clients /\ aim[t] = "encodings" => pc[Desktop] = "idle"
    /\ Goto(t, "enable")
    /\ IF t = Desktop THEN Unsent(target) ELSE UNCHANGED pending
    /\ UNCHANGED <<lock, aim, walk, count, upd>>

(***************************************************************************)
(* The client thread: its messages and its end.                            *)
(***************************************************************************)
\* Slip: a client that leaves does not disable the protocol first.
BeginDisable_LeaveAtOnce(c, why) ==
    /\ pc[c] = "idle"
    /\ aim' = [aim EXCEPT ![c] = why]
    /\ Goto(c, IF why = "leave" THEN "kill" ELSE "disable")
    /\ UNCHANGED <<lock, walk, count, upd, pending>>

\* rfbSetPixelFormat, rfbSetEncodings, and the end of the message loop.
BeginDisable(c, why) ==
    /\ pc[c] = "idle"
    /\ aim' = [aim EXCEPT ![c] = why]
    /\ Goto(c, "disable")
    /\ UNCHANGED <<lock, walk, count, upd, pending>>

\* The server-init message cannot be sent: run leaves by RemoveClient alone,
\* with the protocol still disabled and the update thread, if the desktop has
\* made one already, still there.
SetupFails(c) ==
    /\ pc[c] = "enable" /\ aim[c] = "none"
    /\ Goto(c, "remove")
    /\ UNCHANGED <<lock, aim, walk, count, upd, pending>>

\* rfbFramebufferUpdateRequest.
UpdateRequest(c) ==
    /\ pc[c] = "idle" /\ lock = None
    /\ pending' = [pending EXCEPT ![c] = TRUE]
    /\ TriggerUpdateThread(c)
    /\ UNCHANGED <<lock, pc, aim, walk, count>>

\* rfbFileTransfer keeps the update lock until the handler is done.
FileTransferBegin(c) ==
    /\ pc[c] = "idle" /\ lock = None
    /\ lock' = c
    /\ Goto(c, "transfer")
    /\ UNCHANGED <<aim, walk, count, upd, pending>>

\* Slip: an error path of the handler keeps the update lock.
FileTransferEnd_KeepsLock(c) ==
    /\ pc[c] = "transfer"
    /\ Goto(c, "idle")
    /\ UNCHANGED <<lock, aim, walk, count, upd, pending>>

FileTransferEnd(c) ==
    /\ pc[c] = "transfer"
    /\ lock' = None
    /\ Goto(c, "idle")
    /\ UNCHANGED <<aim, walk, count, upd, pending>>

\* vncClientUpdateThread::Kill, if there is an update thread.
KillUpdateThread(c) ==
    /\ pc[c] = "kill"
    /\ IF thread[c]
       THEN /\ lock = None
            /\ active' = [active EXCEPT ![c] = FALSE]
            /\ upc' = Signalled(c)
            /\ UNCHANGED <<thread, enable>>
            /\ Goto(c, "join")
       ELSE UNCHANGED upd /\ Goto(c, "remove")
    /\ UNCHANGED <<lock, aim, walk, count, pending>>

\* join waits for the thread and deletes it, with m_signal and m_sync_sig.
JoinUpdateThread(c) ==
    /\ pc[c] = "join"
    /\ upc[c] = "ended"
    /\ upc' = [upc EXCEPT ![c] = "none"]
    /\ thread' = [thread EXCEPT ![c] = FALSE]
    /\ Goto(c, "remove")
    /\ UNCHANGED <<lock, aim, walk, count, enable, active, pending>>

\* RemoveClient takes m_clientsLock.
RemoveClient(c) ==
    /\ pc[c] = "remove"
    /\ pc[Desktop] = "idle"
    /\ Goto(c, "removed")
    /\ UNCHANGED <<lock, aim, walk, count, upd, pending>>

(***************************************************************************)
(* Desktop: takes m_clientsLock, goes over the clients, releases it.       *)
(***************************************************************************)
Listed == {c \in Clients : pc[c] # "removed"}

WalkBegin(what) ==
    /\ pc[Desktop] = "idle"
    /\ Listed # {}
    /\ op' = what
    /\ todo' = Listed
    /\ Goto(Desktop, "next")
    /\ UNCHANGED <<lock, aim, target, count, upd, pending>>

\* ServerUpdateTracker::add_changed and its like for one client.
AddChanged(c) ==
    /\ pc[Desktop] = "next" /\ op = "changed" /\ c \in todo
    /\ lock = None
    /\ todo' = todo \ {c}
    /\ pending' = [pending EXCEPT ![c] = TRUE]
    /\ TriggerUpdateThread(c)
    /\ UNCHANGED <<lock, pc, aim, op, target, count>>

\* UpdateLocalFormat or SetNewSWSize for one client.
UpdateLocalFormat(c) ==
    /\ pc[Desktop] = "next" /\ op = "format" /\ c \in todo
    /\ todo' = todo \ {c}
    /\ target' = c
    /\ Goto(Desktop, "disable")
    /\ UNCHANGED <<lock, aim, op, count, upd, pending>>

WalkEnd ==
    /\ pc[Desktop] = "next" /\ todo = {}
    /\ op' = "none"
    /\ target' = None
    /\ Goto(Desktop, "idle")
    /\ UNCHANGED <<lock, aim, todo, count, upd, pending>>

UpdateStep(c) == \/ UpdateWaits(c) \/ UpdateTaken(c) \/ UpdateQuits(c)
                 \/ SendUpdate(c) \/ SendUpdateEnd(c)
GateStep(t)   == DisableProtocol(t) \/ EnableProtocol(t) \/ Synced(t) \/ WorkDone(t)
EndStep(c)    == KillUpdateThread(c) \/ JoinUpdateThread(c) \/ RemoveClient(c)
MessageStep(c) == \/ SetupFails(c)
                  \/ \E a \in Aims : BeginDisable(c, a)
                  \/ UpdateRequest(c) \/ FileTransferBegin(c) \/ FileTransferEnd(c)
WalkStep(c)   == AddChanged(c) \/ UpdateLocalFormat(c)

Next == \/ \E c \in Clients : \/ UpdateStep(c) \/ EndStep(c) \/ MessageStep(c)
                              \/ WalkStep(c)
        \/ \E t \in Threads : GateStep(t)
        \/ \E what \in Walks : WalkBegin(what)
        \/ WalkEnd

Spec == Init /\ [][Next]_vars

(***************************************************************************)
(* Fairness: every thread goes on when it can and gets the update lock if  *)
(* it is free again and again; sends and file transfers end (a socket that *)
(* does not take data times out or is closed).  No client need ask for     *)
(* anything or leave, and the desktop need not change.                     *)
(***************************************************************************)
Fairness == /\ \A c \in Clients : /\ SF_vars(UpdateStep(c))
                                  /\ SF_vars(EndStep(c))
                                  /\ WF_vars(FileTransferEnd(c))
            /\ \A t \in Threads : SF_vars(GateStep(t))
            /\ SF_vars(\E c \in Clients : WalkStep(c))
            /\ WF_vars(WalkEnd)

FairSpec == Spec /\ Fairness
-----------------------------------------------------------------------------
(***************************************************************************)
(* Properties.                                                             *)
(***************************************************************************)
\* Is thread t between its DisableProtocol and its EnableProtocol?  A client
\* that leaves never enables again.
Disabling(t) == pc[t] \in {"sleepDisable", "wokenDisable", "work", "enable",
                           "kill", "join", "remove", "removed"}

\* m_disable_protocol counts exactly the threads that have disabled the client
\* and not yet enabled it, so "protocol enabled too many times!", which closes
\* the connection, never happens however the two threads interleave.
CountIsDepth ==
    \A c \in Clients :
        count[c] = Cardinality({t \in Threads : TargetOf(t) = c /\ Disabling(t)})

\* The update thread's own flag never disagrees with the count, not even for
\* a thread that is made while the client is disabled.
EnableMatchesCount ==
    \A c \in Clients : thread[c] => (enable[c] <=> count[c] = 0)

\* "Disable the protocol to ensure that the update thread is not accessing the
\* desktop and buffer objects": once the DisableProtocol that closed the gate
\* has returned, and until the last EnableProtocol, the update thread sends
\* nothing, whoever else nests in the meantime.
GateClosed ==
    \A c \in Clients :
        /\ count[c] > 0
        /\ \A t \in Threads :
             TargetOf(t) = c => pc[t] \notin {"sleepDisable", "wokenDisable"}
        => upc[c] \notin {"send", "encode"}

\* The update thread is killed and joined only behind a closed gate, so that
\* Trigger, which signals only when the count is 0, never uses the condition
\* variables that go away with the thread.
DyingThreadNotTriggered ==
    \A c \in Clients : thread[c] /\ ~active[c] => count[c] > 0 /\ ~enable[c]

\* A client thread that closes the gate always comes out of DisableProtocol,
\* whatever the update thread is sending and whoever keeps the update lock.
DisableReturns ==
    \A c \in Clients : pc[c] = "sleepDisable" ~> pc[c] \in {"work", "kill"}

\* ... and out of EnableProtocol once there is nothing more to send.
EnableReturnsWhenQuiet ==
    \A c \in Clients :
        <>[](~pending[c]) => (pc[c] = "sleepEnable" ~> pc[c] = "idle")

(***************************************************************************)
(* What comments of the code say and the code does not do.                 *)
(***************************************************************************)
\* The end of vncClientThread::run, on RemoveClient: "It also guarantees that
\* the client will not be passed further updates".  A client that has been
\* removed, and is deleted next, has no update thread.
RemovedHasNoThread == \A c \in Clients : pc[c] = "removed" => ~thread[c]
=============================================================================
