-------------------------- MODULE UpdateGate_proofs --------------------------
(***************************************************************************)
(* Theorems about UpdateGate: for any number of clients, and whatever their *)
(* threads and the desktop thread do, the count of m_disable_protocol is    *)
(* right, m_enable of an update thread agrees with it, and an update thread *)
(* does not send behind a gate that has closed.                             *)
(***************************************************************************)
EXTENDS UpdateGate, FiniteSetTheorems, TLAPS

\* Desktop disables only a client it has picked, and never takes the steps of
\* a client that leaves.
WalkerHasTarget ==
    \/ pc[Desktop] \in {"idle", "next"}
    \/ /\ pc[Desktop] \in {"disable", "sleepDisable", "wokenDisable", "work",
                           "enable", "sleepEnable", "wokenEnable"}
       /\ target \in Clients

\* The two threads that can disable a client: its own and Desktop.
Own(c)    == IF Disabling(c) THEN 1 ELSE 0
Walked(c) == IF target = c /\ Disabling(Desktop) THEN 1 ELSE 0
Depth     == \A c \in Clients : count[c] = Own(c) + Walked(c)

ThreadRuns == \A c \in Clients : thread[c] <=> upc[c] # "none"

DyingIsJoined == \A c \in Clients : thread[c] /\ ~active[c] => pc[c] = "join"

\* Behind a closed gate only an update that was on its way goes on, and
\* whoever closed the gate waits for it.
SenderAwaited ==
    \A c \in Clients :
        count[c] > 0 /\ upc[c] \in {"send", "encode"} =>
            \E t \in Threads : TargetOf(t) = c /\ pc[t] = "sleepDisable"

IInv == /\ TypeOK /\ WalkerHasTarget /\ Depth /\ EnableMatchesCount
        /\ ThreadRuns /\ DyingIsJoined /\ SenderAwaited
-----------------------------------------------------------------------------
(***************************************************************************)
(* Types.                                                                  *)
(***************************************************************************)
LEMMA InitTypeOK == Init => TypeOK
BY GateAssumption DEF Init, TypeOK, PC, UPC, Threads

LEMMA TriggerTypes ==
  ASSUME TypeOK, NEW c \in Clients, TriggerUpdateThread(c)
  PROVE  /\ upc' \in [Clients -> UPC] /\ thread' \in [Clients -> BOOLEAN]
         /\ enable' \in [Clients -> BOOLEAN] /\ active' \in [Clients -> BOOLEAN]
<1>1. Signalled(c) \in [Clients -> UPC]
  BY DEF Signalled, TypeOK, UPC
<1>2. (count[c] = 0) \in BOOLEAN
  OBVIOUS
<1>. QED BY <1>1, <1>2 DEF TriggerUpdateThread, TypeOK, UPC

LEMMA EnableTypes ==
  ASSUME TypeOK, NEW c \in Clients, NEW on \in BOOLEAN, EnableUpdates(c, on)
  PROVE  /\ upc' \in [Clients -> UPC] /\ thread' \in [Clients -> BOOLEAN]
         /\ enable' \in [Clients -> BOOLEAN] /\ active' \in [Clients -> BOOLEAN]
BY DEF EnableUpdates, Signalled, TypeOK, UPC

\* Who is at the gate has a client to close or open it for.
LEMMA AtGate ==
  ASSUME TypeOK, WalkerHasTarget, NEW t \in Threads,
         pc[t] \in {"disable", "sleepDisable", "wokenDisable", "work",
                    "enable", "sleepEnable", "wokenEnable"}
  PROVE  TargetOf(t) \in Clients
BY DEF WalkerHasTarget, Threads, TargetOf

LEMMA Who ==
  /\ Desktop \in Threads /\ Desktop \notin Clients /\ None \notin Clients
  /\ Clients \subseteq Threads
  /\ \A t \in Threads : t \in Clients \/ t = Desktop
  /\ \A c \in Clients : c # Desktop /\ TargetOf(c) = c
  /\ TargetOf(Desktop) = target
BY GateAssumption DEF Threads, TargetOf

\* What the two halves of the gate do to the count and to their caller.
LEMMA Disables ==
  ASSUME TypeOK, NEW t \in Threads, TargetOf(t) \in Clients, DisableProtocol(t)
  PROVE  \E l \in {"sleepDisable", "work", "kill"} :
           /\ pc[t] = "disable" /\ pc' = [pc EXCEPT ![t] = l]
           /\ t = Desktop => l # "kill"
           /\ count' = [count EXCEPT ![TargetOf(t)] = @ + 1]
           /\ l = "sleepDisable" <=> count[TargetOf(t)] = 0 /\ thread[TargetOf(t)]
           /\ IF l = "sleepDisable" THEN EnableUpdates(TargetOf(t), FALSE)
                                    ELSE UNCHANGED upd
<1>. DEFINE c == TargetOf(t)
<1>1. AfterDisable(t) \in {"work", "kill"} /\ (t = Desktop => AfterDisable(t) # "kill")
  BY Who DEF AfterDisable
<1>2. CASE count[c] = 0 /\ thread[c]
  BY <1>2 DEF DisableProtocol, Goto
<1>3. CASE ~(count[c] = 0 /\ thread[c])
  BY <1>1, <1>3 DEF DisableProtocol, Goto
<1>. QED BY <1>2, <1>3

LEMMA Enables ==
  ASSUME TypeOK, NEW t \in Threads, TargetOf(t) \in Clients, EnableProtocol(t)
  PROVE  \E l \in {"sleepEnable", "idle", "next"} :
           /\ pc[t] = "enable" /\ pc' = [pc EXCEPT ![t] = l]
           /\ t = Desktop => l # "idle"
           /\ count[TargetOf(t)] = 0 => count' = count
           /\ count[TargetOf(t)] # 0 => count' = [count EXCEPT ![TargetOf(t)] = @ - 1]
           /\ l = "sleepEnable" <=> count[TargetOf(t)] = 1 /\ thread[TargetOf(t)]
           /\ IF l = "sleepEnable" THEN EnableUpdates(TargetOf(t), TRUE)
                                   ELSE UNCHANGED upd
<1>. DEFINE c == TargetOf(t)
<1>1. AfterEnable(t) \in {"idle", "next"} /\ (t = Desktop => AfterEnable(t) # "idle")
  BY DEF AfterEnable
<1>2. CASE count[c] = 0
  BY <1>1, <1>2 DEF EnableProtocol, Goto
<1>3. CASE count[c] = 1 /\ thread[c]
  <2>1. count[c] # 0
    BY <1>3
  <2>2. /\ pc[t] = "enable" /\ count' = [count EXCEPT ![c] = @ - 1]
        /\ EnableUpdates(c, TRUE) /\ pc' = [pc EXCEPT ![t] = "sleepEnable"]
    BY <1>3, <2>1, Zenon DEF EnableProtocol, Goto
  <2>. QED BY <1>3, <2>1, <2>2
<1>4. CASE count[c] # 0 /\ ~(count[c] = 1 /\ thread[c])
  BY <1>1, <1>4 DEF EnableProtocol, Goto
<1>. QED BY <1>2, <1>3, <1>4

LEMMA NextTypeOK ==
  ASSUME TypeOK, WalkerHasTarget, [Next]_vars
  PROVE  TypeOK'
<1>1. ASSUME NEW c \in Clients, UpdateWaits(c) PROVE TypeOK'
  BY <1>1, Who DEF UpdateWaits, SyncBroadcast, walk, TypeOK, PC, UPC
<1>2. ASSUME NEW c \in Clients, UpdateTaken(c) \/ UpdateQuits(c) PROVE TypeOK'
  BY <1>2 DEF UpdateTaken, UpdateQuits, walk, TypeOK, UPC
<1>3. ASSUME NEW c \in Clients, SendUpdate(c) \/ SendUpdateEnd(c) PROVE TypeOK'
  BY <1>3 DEF SendUpdate, SendUpdateEnd, Unsent, walk, TypeOK, UPC
<1>4. ASSUME NEW c \in Clients, KillUpdateThread(c) PROVE TypeOK'
  BY <1>4, Who DEF KillUpdateThread, Signalled, Goto, walk, upd, TypeOK, PC, UPC
<1>5. ASSUME NEW c \in Clients, JoinUpdateThread(c) \/ RemoveClient(c) PROVE TypeOK'
  BY <1>5, Who DEF JoinUpdateThread, RemoveClient, Goto, walk, upd, TypeOK, PC, UPC
<1>6. ASSUME NEW c \in Clients, MessageStep(c) PROVE TypeOK'
  <2>1. CASE SetupFails(c)
    BY <2>1, Who DEF SetupFails, Goto, walk, upd, TypeOK, PC
  <2>2. ASSUME NEW a \in Aims, BeginDisable(c, a) PROVE TypeOK'
    BY <2>2, Who, GateAssumption DEF BeginDisable, Goto, walk, upd, TypeOK, PC
  <2>3. CASE UpdateRequest(c)
    BY <2>3, TriggerTypes DEF UpdateRequest, walk, TypeOK
  <2>4. CASE FileTransferBegin(c) \/ FileTransferEnd(c)
    BY <2>4, Who DEF FileTransferBegin, FileTransferEnd, Goto, walk, upd, TypeOK, PC
  <2>. QED BY <1>6, <2>1, <2>2, <2>3, <2>4 DEF MessageStep
<1>7. ASSUME NEW c \in Clients, WalkStep(c) PROVE TypeOK'
  <2>1. CASE AddChanged(c)
    BY <2>1, TriggerTypes DEF AddChanged, TypeOK
  <2>2. CASE UpdateLocalFormat(c)
    BY <2>2, Who DEF UpdateLocalFormat, Goto, upd, TypeOK, PC
  <2>. QED BY <1>7, <2>1, <2>2 DEF WalkStep
<1>8. ASSUME NEW t \in Threads, GateStep(t) PROVE TypeOK'
  <2>1. AfterDisable(t) \in PC /\ AfterEnable(t) \in PC
    BY DEF AfterDisable, AfterEnable, PC
  <2>2. CASE DisableProtocol(t)
    <3>1. TargetOf(t) \in Clients
      BY <2>2, AtGate DEF DisableProtocol
    <3>2. PICK l \in {"sleepDisable", "work", "kill"} :
            /\ pc' = [pc EXCEPT ![t] = l]
            /\ count' = [count EXCEPT ![TargetOf(t)] = @ + 1]
            /\ IF l = "sleepDisable" THEN EnableUpdates(TargetOf(t), FALSE)
                                     ELSE UNCHANGED upd
      BY <2>2, <3>1, Disables
    <3>3. /\ upc' \in [Clients -> UPC] /\ thread' \in [Clients -> BOOLEAN]
          /\ enable' \in [Clients -> BOOLEAN] /\ active' \in [Clients -> BOOLEAN]
      BY <3>1, <3>2, EnableTypes DEF upd, TypeOK
    <3>4. count' \in [Clients -> Nat] /\ pc' \in [Threads -> PC]
      BY <3>1, <3>2 DEF TypeOK, PC
    <3>. QED BY <2>2, <3>3, <3>4 DEF DisableProtocol, walk, TypeOK
  <2>3. CASE EnableProtocol(t)
    <3>1. TargetOf(t) \in Clients
      BY <2>3, AtGate DEF EnableProtocol
    <3>2. PICK l \in {"sleepEnable", "idle", "next"} :
            /\ pc' = [pc EXCEPT ![t] = l]
            /\ count[TargetOf(t)] = 0 => count' = count
            /\ count[TargetOf(t)] # 0 =>
                 count' = [count EXCEPT ![TargetOf(t)] = @ - 1]
            /\ IF l = "sleepEnable" THEN EnableUpdates(TargetOf(t), TRUE)
                                    ELSE UNCHANGED upd
      BY <2>3, <3>1, Enables
    <3>3. /\ upc' \in [Clients -> UPC] /\ thread' \in [Clients -> BOOLEAN]
          /\ enable' \in [Clients -> BOOLEAN] /\ active' \in [Clients -> BOOLEAN]
      BY <3>1, <3>2, EnableTypes DEF upd, TypeOK
    <3>4. count' \in [Clients -> Nat] /\ pc' \in [Threads -> PC]
      BY <3>1, <3>2 DEF TypeOK, PC
    <3>. QED BY <2>3, <3>3, <3>4 DEF EnableProtocol, walk, TypeOK
  <2>4. CASE Synced(t)
    BY <2>1, <2>4 DEF Synced, Goto, walk, upd, TypeOK
  <2>5. CASE WorkDone(t)
    <3>1. pending' \in [Clients -> BOOLEAN]
      BY <2>5 DEF WorkDone, Unsent, TypeOK
    <3>. QED BY <2>5, <3>1 DEF WorkDone, Goto, walk, upd, TypeOK, PC
  <2>. QED BY <1>8, <2>2, <2>3, <2>4, <2>5 DEF GateStep
<1>9. ASSUME NEW what \in Walks, WalkBegin(what) PROVE TypeOK'
  BY <1>9, Who, GateAssumption DEF WalkBegin, Listed, Goto, upd, TypeOK, PC
<1>10. CASE WalkEnd
  BY <1>10, Who DEF WalkEnd, Goto, upd, TypeOK, PC
<1>11. CASE UNCHANGED vars
  BY <1>11 DEF vars, walk, upd, TypeOK
<1>. QED
  BY <1>1, <1>2, <1>3, <1>4, <1>5, <1>6, <1>7, <1>8, <1>9, <1>10, <1>11
  DEF Next, UpdateStep, EndStep
-----------------------------------------------------------------------------
(***************************************************************************)
(* The count, the flags and the gate.                                      *)
(***************************************************************************)
\* The invariant without the types, in terms of one client where it can be.
Counted(c) == /\ count[c] = Own(c) + Walked(c)
              /\ thread[c] => (enable[c] <=> count[c] = 0)
              /\ thread[c] <=> upc[c] # "none"
              /\ thread[c] /\ ~active[c] => pc[c] = "join"

LEMMA Parts ==
  /\ IInv <=> /\ TypeOK /\ WalkerHasTarget /\ SenderAwaited
              /\ \A c \in Clients : Counted(c)
  /\ IInv' <=> /\ TypeOK' /\ WalkerHasTarget' /\ SenderAwaited'
               /\ \A c \in Clients : Counted(c)'
BY DEF IInv, Depth, EnableMatchesCount, ThreadRuns, DyingIsJoined, Counted

\* A step that wakes nobody and lets no update through a closed gate.
LEMMA KeepsAwaited ==
  ASSUME SenderAwaited,
         \A t \in Threads : pc[t] = "sleepDisable" =>
             pc'[t] = "sleepDisable" /\ (t = Desktop => target' = target),
         \A c \in Clients : count'[c] > 0 /\ upc'[c] \in {"send", "encode"} =>
             count[c] > 0 /\ upc[c] \in {"send", "encode"}
  PROVE  SenderAwaited'
BY Who DEF SenderAwaited, TargetOf

\* A step of one client's thread that goes from l to m, both on the same side
\* of the gate, and touches nothing of it.
LEMMA Moves ==
  ASSUME IInv, NEW c \in Clients, NEW m \in PC, pc' = [pc EXCEPT ![c] = m],
         UNCHANGED <<target, count, upd>>,
         pc[c] \notin {"sleepDisable", "join"},
         LET closed == {"sleepDisable", "wokenDisable", "work", "enable",
                        "kill", "join", "remove", "removed"}
         IN  pc[c] \in closed <=> m \in closed
  PROVE  WalkerHasTarget' /\ SenderAwaited' /\ \A d \in Clients : Counted(d)'
<1>1. \A t \in Threads : pc'[t] = IF t = c THEN m ELSE pc[t]
  BY DEF IInv, TypeOK
<1>2. SenderAwaited'
  BY <1>1, KeepsAwaited DEF IInv, upd
<1>3. WalkerHasTarget'
  BY <1>1, Who DEF IInv, WalkerHasTarget
<1>. QED BY <1>1, <1>2, <1>3, Parts, Who DEF Counted, Own, Walked, Disabling, upd

\* A thread made or woken by TriggerUpdateThread obeys the gate.
LEMMA Triggers ==
  ASSUME IInv, NEW c \in Clients, TriggerUpdateThread(c),
         UNCHANGED <<pc, target, count>>
  PROVE  WalkerHasTarget' /\ SenderAwaited' /\ \A d \in Clients : Counted(d)'
<1>1. /\ \A d \in Clients \ {c} : /\ upc'[d] = upc[d] /\ thread'[d] = thread[d]
                                  /\ enable'[d] = enable[d] /\ active'[d] = active[d]
      /\ thread[c] => /\ enable'[c] = enable[c] /\ active'[c] = active[c]
                      /\ upc'[c] # upc[c] => upc[c] = "wait" /\ upc'[c] = "top"
      /\ ~thread[c] => /\ (enable'[c] <=> count[c] = 0) /\ active'[c]
                       /\ upc'[c] = "top"
      /\ thread'[c]
  <2>1. CASE thread[c]
    BY <2>1 DEF TriggerUpdateThread, Signalled, IInv, TypeOK
  <2>2. CASE ~thread[c]
    BY <2>2 DEF TriggerUpdateThread, IInv, TypeOK
  <2>. QED BY <2>1, <2>2
<1>2. SenderAwaited'
  BY <1>1, KeepsAwaited, Who DEF IInv
<1>3. WalkerHasTarget'
  BY DEF IInv, WalkerHasTarget
<1>. QED BY <1>1, <1>2, <1>3, Parts DEF Counted, Own, Walked, Disabling

\* The steps of an update thread.
LEMMA UpdateKeeps ==
  ASSUME IInv, NEW c \in Clients, UpdateStep(c)
  PROVE  WalkerHasTarget' /\ SenderAwaited' /\ \A d \in Clients : Counted(d)'
<1>1. CASE UpdateWaits(c)
  <2>1. \A t \in Threads : /\ pc'[t] # pc[t] => TargetOf(t) = c
                           /\ pc[t] = "sleepDisable" => pc'[t] \in {"sleepDisable", "wokenDisable"}
                           /\ pc[t] = "sleepEnable" => pc'[t] \in {"sleepEnable", "wokenEnable"}
                           /\ pc[t] \notin {"sleepDisable", "sleepEnable"} => pc'[t] = pc[t]
    BY <1>1, GateAssumption DEF UpdateWaits, SyncBroadcast
  <2>2. /\ UNCHANGED <<count, thread, enable, active, target>>
        /\ upc[c] = "top" /\ upc'[c] = "wait"
        /\ \A d \in Clients \ {c} : upc'[d] = upc[d]
    BY <1>1 DEF UpdateWaits, walk, IInv, TypeOK
  <2>3. WalkerHasTarget'
    BY <2>1, <2>2, Who DEF IInv, WalkerHasTarget
  <2>4. ASSUME NEW d \in Clients, count'[d] > 0, upc'[d] \in {"send", "encode"}
        PROVE  \E t \in Threads : TargetOf(t)' = d /\ pc'[t] = "sleepDisable"
    <3>1. d # c /\ count[d] > 0 /\ upc[d] \in {"send", "encode"}
      BY <2>2, <2>4
    <3>2. PICK t \in Threads : TargetOf(t) = d /\ pc[t] = "sleepDisable"
      BY <3>1 DEF IInv, SenderAwaited
    <3>3. pc'[t] = pc[t] /\ TargetOf(t)' = TargetOf(t)
      BY <2>1, <2>2, <3>1, <3>2 DEF TargetOf
    <3>. QED BY <3>2, <3>3
  <2>5. SenderAwaited'
    BY <2>4 DEF SenderAwaited
  <2>6. ASSUME NEW d \in Clients PROVE Counted(d)'
    <3>1. Own(d)' = Own(d) /\ Walked(d)' = Walked(d)
      BY <2>1, <2>2, Who DEF Own, Walked, Disabling
    <3>2. pc[d] = "join" => pc'[d] = "join"
      BY <2>1, Who
    <3>. QED BY <2>2, <3>1, <3>2, Parts DEF Counted
  <2>. QED BY <2>3, <2>5, <2>6
<1>2. CASE UpdateTaken(c)
  <2>1. /\ UNCHANGED <<pc, count, thread, enable, active, target>>
        /\ enable[c] /\ upc[c] = "top" /\ upc'[c] = "send"
        /\ \A d \in Clients \ {c} : upc'[d] = upc[d]
    BY <1>2 DEF UpdateTaken, walk, IInv, TypeOK
  <2>2. count[c] = 0
    BY <2>1, Parts DEF Counted
  <2>3. SenderAwaited'
    BY <2>1, <2>2, KeepsAwaited DEF IInv
  <2>. QED BY <2>1, <2>3, Parts DEF IInv, WalkerHasTarget, Counted, Own, Walked, Disabling
<1>3. CASE UpdateQuits(c) \/ SendUpdate(c) \/ SendUpdateEnd(c)
  <2>1. /\ UNCHANGED <<pc, count, thread, enable, active, target>>
        /\ upc[c] # "none" /\ upc'[c] # "none"
        /\ upc'[c] \in {"send", "encode"} => upc[c] \in {"send", "encode"}
        /\ \A d \in Clients \ {c} : upc'[d] = upc[d]
    BY <1>3 DEF UpdateQuits, SendUpdate, SendUpdateEnd, walk, IInv, TypeOK
  <2>2. SenderAwaited'
    BY <2>1, KeepsAwaited DEF IInv
  <2>. QED BY <2>1, <2>2, Parts DEF IInv, WalkerHasTarget, Counted, Own, Walked, Disabling
<1>. QED BY <1>1, <1>2, <1>3 DEF UpdateStep

\* The gate is closed: the first to close it stops the update thread.
LEMMA DisableKeeps ==
  ASSUME IInv, NEW t \in Threads, DisableProtocol(t)
  PROVE  WalkerHasTarget' /\ SenderAwaited' /\ \A d \in Clients : Counted(d)'
<1>. DEFINE c == TargetOf(t)
<1>1. c \in Clients
  BY AtGate DEF DisableProtocol, IInv
<1>2. PICK l \in {"sleepDisable", "work", "kill"} :
        /\ pc[t] = "disable" /\ pc' = [pc EXCEPT ![t] = l]
        /\ t = Desktop => l # "kill"
        /\ count' = [count EXCEPT ![c] = @ + 1]
        /\ l = "sleepDisable" <=> count[c] = 0 /\ thread[c]
        /\ IF l = "sleepDisable" THEN EnableUpdates(c, FALSE) ELSE UNCHANGED upd
  BY <1>1, Disables DEF IInv
<1>3. /\ \A u \in Threads : pc'[u] = IF u = t THEN l ELSE pc[u]
      /\ \A d \in Clients : count'[d] = IF d = c THEN count[d] + 1 ELSE count[d]
      /\ \A d \in Clients : count[d] \in Nat
      /\ UNCHANGED <<target, thread, active>>
  BY <1>1, <1>2 DEF DisableProtocol, EnableUpdates, walk, upd, IInv, TypeOK
<1>4. /\ l # "sleepDisable" => UNCHANGED <<upc, enable>>
      /\ l = "sleepDisable" =>
           /\ \A d \in Clients : enable'[d] = IF d = c THEN FALSE ELSE enable[d]
           /\ \A d \in Clients :
                upc'[d] # upc[d] => upc[d] = "wait" /\ upc'[d] = "top"
  BY <1>1, <1>2 DEF EnableUpdates, Signalled, upd, IInv, TypeOK
<1>5. WalkerHasTarget'
  BY <1>2, <1>3, Who DEF IInv, WalkerHasTarget
<1>6. ASSUME NEW d \in Clients, count'[d] > 0, upc'[d] \in {"send", "encode"}
      PROVE  \E u \in Threads : TargetOf(u)' = d /\ pc'[u] = "sleepDisable"
  <2>1. upc[d] \in {"send", "encode"} /\ thread[d]
    BY <1>4, <1>6, Parts DEF Counted
  <2>2. \A u \in Threads : TargetOf(u)' = TargetOf(u)
    BY <1>3 DEF TargetOf
  <2>3. CASE count[d] > 0
    <3>1. PICK u \in Threads : TargetOf(u) = d /\ pc[u] = "sleepDisable"
      BY <2>1, <2>3 DEF IInv, SenderAwaited
    <3>. QED BY <1>2, <1>3, <2>2, <3>1
  <2>4. CASE ~(count[d] > 0)
    BY <1>2, <1>3, <1>6, <2>1, <2>2, <2>4
  <2>. QED BY <2>3, <2>4
<1>7. SenderAwaited'
  BY <1>6 DEF SenderAwaited
<1>8. ASSUME NEW d \in Clients PROVE Counted(d)'
  <2>1. Own(d)' = IF t = d THEN 1 ELSE Own(d)
    BY <1>2, <1>3, Who DEF Own, Disabling
  <2>2. Walked(d)' = IF t = Desktop /\ target = d THEN 1 ELSE Walked(d)
    BY <1>2, <1>3, Who DEF Walked, Disabling
  <2>3. t = d => Own(d) = 0
    BY <1>2 DEF Own, Disabling
  <2>4. t = Desktop => Walked(d) = 0
    BY <1>2 DEF Walked, Disabling
  <2>5. c = d <=> t = d \/ (t = Desktop /\ target = d)
    BY Who DEF TargetOf
  <2>6. count'[d] = Own(d)' + Walked(d)'
    <3>1. count[d] = Own(d) + Walked(d) /\ Own(d) \in {0, 1} /\ Walked(d) \in {0, 1}
      BY Parts DEF Counted, Own, Walked
    <3>2. CASE c = d
      BY <1>3, <2>1, <2>2, <2>3, <2>4, <2>5, <3>1, <3>2, Who
    <3>3. CASE c # d
      BY <1>3, <2>1, <2>2, <2>5, <3>1, <3>3
    <3>. QED BY <3>2, <3>3
  <2>7. pc[d] = "join" => pc'[d] = "join"
    BY <1>2, <1>3, Who
  <2>8. thread'[d] => (enable'[d] <=> count'[d] = 0)
    <3>1. thread[d] => (enable[d] <=> count[d] = 0)
      BY Parts DEF Counted
    <3>2. CASE c = d
      <4>1. count[d] \in Nat /\ count'[d] = count[d] + 1 /\ thread'[d] = thread[d]
        BY <1>3, <3>2
      <4>2. thread[d] => ~enable'[d]
        BY <1>2, <1>4, <3>1, <3>2
      <4>. QED BY <4>1, <4>2
    <3>3. CASE c # d
      BY <1>3, <1>4, <3>1, <3>3
    <3>. QED BY <3>2, <3>3
  <2>9. thread'[d] <=> upc'[d] # "none"
    BY <1>3, <1>4, Parts DEF Counted
  <2>. QED BY <1>3, <2>6, <2>7, <2>8, <2>9, Parts DEF Counted
<1>. QED BY <1>5, <1>7, <1>8

\* The gate is opened: who closed it is counted, so the count is not 0 and
\* "protocol enabled too many times!" is not reached.
LEMMA EnableKeeps ==
  ASSUME IInv, NEW t \in Threads, EnableProtocol(t)
  PROVE  WalkerHasTarget' /\ SenderAwaited' /\ \A d \in Clients : Counted(d)'
<1>. DEFINE c == TargetOf(t)
<1>1. c \in Clients /\ pc[t] = "enable"
  BY AtGate DEF EnableProtocol, IInv
<1>2. count[c] \in Nat /\ count[c] # 0
  <2>1. Own(c) \in {0, 1} /\ Walked(c) \in {0, 1} /\ count[c] = Own(c) + Walked(c)
    BY <1>1, Parts DEF Counted, Own, Walked
  <2>2. CASE t \in Clients
    BY <1>1, <2>1, <2>2, Who DEF Own, Disabling
  <2>3. CASE t = Desktop
    BY <1>1, <2>1, <2>3, Who DEF Walked, Disabling
  <2>. QED BY <2>1, <2>2, <2>3, Who
<1>3. PICK l \in {"sleepEnable", "idle", "next"} :
        /\ pc' = [pc EXCEPT ![t] = l]
        /\ t = Desktop => l # "idle"
        /\ count' = [count EXCEPT ![c] = @ - 1]
        /\ l = "sleepEnable" <=> count[c] = 1 /\ thread[c]
        /\ IF l = "sleepEnable" THEN EnableUpdates(c, TRUE) ELSE UNCHANGED upd
  BY <1>1, <1>2, Enables DEF IInv
<1>4. /\ \A u \in Threads : pc'[u] = IF u = t THEN l ELSE pc[u]
      /\ \A d \in Clients : count'[d] = IF d = c THEN count[d] - 1 ELSE count[d]
      /\ \A d \in Clients : count[d] \in Nat
      /\ UNCHANGED <<target, thread, active>>
  BY <1>1, <1>3 DEF EnableProtocol, EnableUpdates, walk, upd, IInv, TypeOK
<1>5. /\ l # "sleepEnable" => UNCHANGED <<upc, enable>>
      /\ l = "sleepEnable" =>
           /\ \A d \in Clients : enable'[d] = IF d = c THEN TRUE ELSE enable[d]
           /\ \A d \in Clients :
                upc'[d] # upc[d] => upc[d] = "wait" /\ upc'[d] = "top"
  BY <1>1, <1>3 DEF EnableUpdates, Signalled, upd, IInv, TypeOK
<1>6. WalkerHasTarget'
  BY <1>1, <1>3, <1>4, Who DEF IInv, WalkerHasTarget
<1>7. SenderAwaited'
  <2>1. \A d \in Clients : count'[d] > 0 => count[d] > 0
    BY <1>4
  <2>2. \A d \in Clients : upc'[d] \in {"send", "encode"} => upc[d] \in {"send", "encode"}
    BY <1>5
  <2>. QED BY <1>1, <1>4, <2>1, <2>2, KeepsAwaited DEF IInv
<1>8. ASSUME NEW d \in Clients PROVE Counted(d)'
  <2>1. Own(d)' = IF t = d THEN 0 ELSE Own(d)
    BY <1>3, <1>4, Who DEF Own, Disabling
  <2>2. Walked(d)' = IF t = Desktop /\ target = d THEN 0 ELSE Walked(d)
    BY <1>3, <1>4, Who DEF Walked, Disabling
  <2>3. t = d => Own(d) = 1
    BY <1>1 DEF Own, Disabling
  <2>4. t = Desktop /\ target = d => Walked(d) = 1
    BY <1>1 DEF Walked, Disabling
  <2>5. c = d <=> t = d \/ (t = Desktop /\ target = d)
    BY Who DEF TargetOf
  <2>6. count'[d] = Own(d)' + Walked(d)'
    <3>1. count[d] = Own(d) + Walked(d) /\ Own(d) \in {0, 1} /\ Walked(d) \in {0, 1}
      BY Parts DEF Counted, Own, Walked
    <3>2. CASE c = d
      BY <1>4, <2>1, <2>2, <2>3, <2>4, <2>5, <3>1, <3>2, Who
    <3>3. CASE c # d
      BY <1>4, <2>1, <2>2, <2>5, <3>1, <3>3
    <3>. QED BY <3>2, <3>3
  <2>7. pc[d] = "join" => pc'[d] = "join"
    BY <1>1, <1>4, Who
  <2>8. thread'[d] => (enable'[d] <=> count'[d] = 0)
    <3>1. thread[d] => (enable[d] <=> count[d] = 0)
      BY Parts DEF Counted
    <3>2. CASE c = d
      <4>1. count[d] # 0 /\ count'[d] = count[d] - 1 /\ thread'[d] = thread[d]
        BY <1>2, <1>4, <3>2
      <4>2. CASE l = "sleepEnable"
        <5>1. count[d] = 1 /\ enable'[d]
          BY <1>3, <1>5, <3>2, <4>2
        <5>. QED BY <4>1, <5>1
      <4>3. CASE l # "sleepEnable"
        <5>1. ~(count[d] = 1 /\ thread[d]) /\ enable'[d] = enable[d]
          BY <1>3, <1>5, <3>2, <4>3
        <5>2. count[d] \in Nat
          BY <1>4
        <5>. QED BY <3>1, <4>1, <5>1, <5>2
      <4>. QED BY <4>2, <4>3
    <3>3. CASE c # d
      BY <1>4, <1>5, <3>1, <3>3
    <3>. QED BY <3>2, <3>3
  <2>9. thread'[d] <=> upc'[d] # "none"
    BY <1>4, <1>5, Parts DEF Counted
  <2>. QED BY <1>4, <2>6, <2>7, <2>8, <2>9, Parts DEF Counted
<1>. QED BY <1>6, <1>7, <1>8

\* The other steps at the gate: who has been woken goes on, and the work done
\* while the gate is closed.
LEMMA OthersKeep ==
  ASSUME IInv, NEW t \in Threads, Synced(t) \/ WorkDone(t)
  PROVE  WalkerHasTarget' /\ SenderAwaited' /\ \A d \in Clients : Counted(d)'
<1>1. PICK m \in {"work", "kill", "idle", "next", "enable"} :
        /\ pc' = [pc EXCEPT ![t] = m]
        /\ pc[t] \in {"wokenDisable", "wokenEnable", "work"}
        /\ pc[t] = "wokenEnable" <=> m \in {"idle", "next"}
        /\ t = Desktop => m \notin {"kill", "idle"}
  BY Who DEF Synced, WorkDone, AfterDisable, AfterEnable, Goto
<1>2. UNCHANGED <<target, count, thread, enable, active, upc>>
  BY DEF Synced, WorkDone, walk, upd
<1>3. \A u \in Threads : pc'[u] = IF u = t THEN m ELSE pc[u]
  BY <1>1 DEF IInv, TypeOK
<1>4. SenderAwaited'
  BY <1>1, <1>2, <1>3, KeepsAwaited DEF IInv
<1>5. WalkerHasTarget'
  BY <1>1, <1>2, <1>3, Who DEF IInv, WalkerHasTarget
<1>6. ASSUME NEW d \in Clients PROVE Counted(d)'
  <2>1. Own(d)' = Own(d) /\ Walked(d)' = Walked(d) /\ (pc[d] = "join" => pc'[d] = "join")
    BY <1>1, <1>2, <1>3, Who DEF Own, Walked, Disabling
  <2>. QED BY <1>2, <2>1, Parts DEF Counted
<1>. QED BY <1>4, <1>5, <1>6

\* The end of a client: its update thread dies behind the closed gate.
LEMMA EndKeeps ==
  ASSUME IInv, NEW c \in Clients, EndStep(c)
  PROVE  WalkerHasTarget' /\ SenderAwaited' /\ \A d \in Clients : Counted(d)'
<1>1. CASE KillUpdateThread(c) /\ thread[c]
  <2>1. /\ pc[c] = "kill"
        /\ \A u \in Threads : pc'[u] = IF u = c THEN "join" ELSE pc[u]
        /\ \A d \in Clients \ {c} : active'[d] = active[d]
        /\ \A d \in Clients : upc'[d] # upc[d] => upc[d] = "wait" /\ upc'[d] = "top"
        /\ UNCHANGED <<target, count, thread, enable>>
    BY <1>1 DEF KillUpdateThread, Signalled, Goto, walk, IInv, TypeOK
  <2>2. SenderAwaited'
    BY <2>1, KeepsAwaited DEF IInv
  <2>3. WalkerHasTarget'
    BY <2>1, Who DEF IInv, WalkerHasTarget
  <2>4. ASSUME NEW d \in Clients PROVE Counted(d)'
    <3>1. Own(d)' = Own(d) /\ Walked(d)' = Walked(d)
      BY <2>1, Who DEF Own, Walked, Disabling
    <3>2. CASE d = c
      BY <2>1, <3>1, <3>2, Parts, Who DEF Counted
    <3>3. CASE d # c
      BY <2>1, <3>1, <3>3, Parts, Who DEF Counted
    <3>. QED BY <3>2, <3>3
  <2>. QED BY <2>2, <2>3, <2>4
<1>2. CASE KillUpdateThread(c) /\ ~thread[c]
  BY <1>2, Moves, Who DEF KillUpdateThread, Goto, walk, PC
<1>3. CASE JoinUpdateThread(c)
  <2>1. /\ pc[c] = "join"
        /\ \A u \in Threads : pc'[u] = IF u = c THEN "remove" ELSE pc[u]
        /\ \A d \in Clients \ {c} : upc'[d] = upc[d] /\ thread'[d] = thread[d]
        /\ upc'[c] = "none" /\ ~thread'[c]
        /\ UNCHANGED <<target, count, enable, active>>
    BY <1>3 DEF JoinUpdateThread, Goto, walk, IInv, TypeOK
  <2>2. SenderAwaited'
    BY <2>1, KeepsAwaited DEF IInv
  <2>3. WalkerHasTarget'
    BY <2>1, Who DEF IInv, WalkerHasTarget
  <2>4. ASSUME NEW d \in Clients PROVE Counted(d)'
    <3>1. Own(d)' = Own(d) /\ Walked(d)' = Walked(d)
      BY <2>1, Who DEF Own, Walked, Disabling
    <3>2. CASE d = c
      BY <2>1, <3>1, <3>2, Parts DEF Counted
    <3>3. CASE d # c
      BY <2>1, <3>1, <3>3, Parts, Who DEF Counted
    <3>. QED BY <3>2, <3>3
  <2>. QED BY <2>2, <2>3, <2>4
<1>4. CASE RemoveClient(c)
  BY <1>4, Moves, Who DEF RemoveClient, Goto, walk, PC
<1>. QED BY <1>1, <1>2, <1>3, <1>4 DEF EndStep

\* The messages of a client.
LEMMA MessageKeeps ==
  ASSUME IInv, NEW c \in Clients, MessageStep(c)
  PROVE  WalkerHasTarget' /\ SenderAwaited' /\ \A d \in Clients : Counted(d)'
<1>1. CASE SetupFails(c)
  BY <1>1, Moves DEF SetupFails, Goto, walk, PC
<1>2. ASSUME NEW a \in Aims, BeginDisable(c, a)
      PROVE  WalkerHasTarget' /\ SenderAwaited' /\ \A d \in Clients : Counted(d)'
  BY <1>2, Moves DEF BeginDisable, Goto, walk, PC
<1>3. CASE UpdateRequest(c)
  BY <1>3, Triggers DEF UpdateRequest, walk
<1>4. CASE FileTransferBegin(c)
  BY <1>4, Moves DEF FileTransferBegin, Goto, walk, PC
<1>5. CASE FileTransferEnd(c)
  BY <1>5, Moves DEF FileTransferEnd, Goto, walk, PC
<1>. QED BY <1>1, <1>2, <1>3, <1>4, <1>5 DEF MessageStep

\* Desktop on its way from client to client, between its own disables.
LEMMA Walking ==
  ASSUME IInv, pc[Desktop] \in {"idle", "next"},
         NEW m \in {"idle", "next", "disable"}, pc' = [pc EXCEPT ![Desktop] = m],
         m = "disable" => target' \in Clients, UNCHANGED <<count, upd>>
  PROVE  WalkerHasTarget' /\ SenderAwaited' /\ \A d \in Clients : Counted(d)'
<1>1. \A t \in Threads : pc'[t] = IF t = Desktop THEN m ELSE pc[t]
  BY DEF IInv, TypeOK
<1>2. SenderAwaited'
  BY <1>1, KeepsAwaited DEF IInv, upd
<1>3. WalkerHasTarget'
  BY <1>1, Who DEF WalkerHasTarget
<1>4. ASSUME NEW d \in Clients PROVE Counted(d)'
  <2>1. Own(d)' = Own(d) /\ Walked(d)' = Walked(d) /\ pc'[d] = pc[d]
    BY <1>1, Who DEF Own, Walked, Disabling
  <2>. QED BY <2>1, Parts DEF Counted, upd
<1>. QED BY <1>2, <1>3, <1>4

LEMMA WalkKeeps ==
  ASSUME IInv, \/ \E c \in Clients : WalkStep(c)
               \/ \E what \in Walks : WalkBegin(what)
               \/ WalkEnd
  PROVE  WalkerHasTarget' /\ SenderAwaited' /\ \A d \in Clients : Counted(d)'
<1>1. ASSUME NEW c \in Clients, AddChanged(c)
      PROVE  WalkerHasTarget' /\ SenderAwaited' /\ \A d \in Clients : Counted(d)'
  BY <1>1, Triggers DEF AddChanged
<1>2. ASSUME NEW c \in Clients, UpdateLocalFormat(c)
      PROVE  WalkerHasTarget' /\ SenderAwaited' /\ \A d \in Clients : Counted(d)'
  BY <1>2, Walking DEF UpdateLocalFormat, Goto
<1>3. ASSUME NEW what \in Walks, WalkBegin(what)
      PROVE  WalkerHasTarget' /\ SenderAwaited' /\ \A d \in Clients : Counted(d)'
  BY <1>3, Walking DEF WalkBegin, Goto
<1>4. CASE WalkEnd
  BY <1>4, Walking DEF WalkEnd, Goto
<1>. QED BY <1>1, <1>2, <1>3, <1>4 DEF WalkStep

LEMMA InitIInv == Init => IInv
<1>. SUFFICES ASSUME Init PROVE IInv
  OBVIOUS
<1>1. TypeOK
  BY InitTypeOK
<1>2. WalkerHasTarget /\ SenderAwaited
  BY Who DEF Init, WalkerHasTarget, SenderAwaited
<1>3. \A c \in Clients : Counted(c)
  BY Who DEF Init, Counted, Own, Walked, Disabling
<1>. QED BY <1>1, <1>2, <1>3, Parts

LEMMA NextIInv == IInv /\ [Next]_vars => IInv'
<1>. SUFFICES ASSUME IInv, [Next]_vars PROVE IInv'
  OBVIOUS
<1>. DEFINE Kept == WalkerHasTarget' /\ SenderAwaited' /\ \A d \in Clients : Counted(d)'
<1>1. TypeOK'
  BY NextTypeOK DEF IInv
<1>2. CASE UNCHANGED vars
  BY <1>2 DEF vars, walk, upd, IInv, TypeOK, WalkerHasTarget, Depth, Own, Walked, Disabling,
              EnableMatchesCount, ThreadRuns, DyingIsJoined, SenderAwaited, TargetOf
<1>3. ASSUME NEW c \in Clients, UpdateStep(c) \/ EndStep(c) \/ MessageStep(c) PROVE Kept
  BY <1>3, UpdateKeeps, EndKeeps, MessageKeeps
<1>4. ASSUME NEW t \in Threads, GateStep(t) PROVE Kept
  BY <1>4, DisableKeeps, EnableKeeps, OthersKeep DEF GateStep
<1>5. (\/ \E c \in Clients : WalkStep(c)
       \/ \E what \in Walks : WalkBegin(what)
       \/ WalkEnd) => Kept
  BY WalkKeeps
<1>6. CASE Next
  <2>1. Kept
    BY <1>3, <1>4, <1>5, <1>6 DEF Next
  <2>. QED BY <1>1, <2>1, Parts
<1>. QED BY <1>2, <1>6

-----------------------------------------------------------------------------
(***************************************************************************)
(* The theorems.                                                           *)
(***************************************************************************)
\* The invariant of the gate, for any set of clients.
THEOREM Invariance == Spec => []IInv
<1>. QED BY InitIInv, NextIInv, PTL DEF Spec

\* Every variable of the gate keeps its type.
THEOREM TypeCorrect == Spec => []TypeOK
<1>1. IInv => TypeOK
  BY DEF IInv
<1>. QED BY <1>1, Invariance, PTL

\* m_disable_protocol is the number of threads that keep the client disabled:
\* at most its own and Desktop.
THEOREM CountIsRight == Spec => []CountIsDepth
<1>1. IInv => CountIsDepth
  <2>. SUFFICES ASSUME IInv, NEW c \in Clients
                PROVE  count[c] = Cardinality({t \in Threads : TargetOf(t) = c /\ Disabling(t)})
    BY DEF CountIsDepth
  <2>. DEFINE S == {t \in Threads : TargetOf(t) = c /\ Disabling(t)}
  <2>1. count[c] = Own(c) + Walked(c)
    BY Parts DEF Counted
  <2>2. c # Desktop /\ S \subseteq {c, Desktop}
    BY Who
  <2>3. (c \in S <=> Disabling(c)) /\ (Desktop \in S <=> target = c /\ Disabling(Desktop))
    BY Who
  <2>4. CASE c \in S /\ Desktop \in S
    <3>1. S = {c} \union {Desktop} /\ Own(c) = 1 /\ Walked(c) = 1
      BY <2>2, <2>3, <2>4 DEF Own, Walked
    <3>2. Cardinality({c} \union {Desktop}) = Cardinality({c}) + 1
      BY <2>2, FS_Singleton, FS_AddElement
    <3>. QED BY <2>1, <3>1, <3>2, FS_Singleton
  <2>5. CASE c \in S /\ Desktop \notin S
    <3>1. S = {c} /\ Own(c) = 1 /\ Walked(c) = 0
      BY <2>2, <2>3, <2>5 DEF Own, Walked
    <3>. QED BY <2>1, <3>1, FS_Singleton
  <2>6. CASE c \notin S /\ Desktop \in S
    <3>1. S = {Desktop} /\ Own(c) = 0 /\ Walked(c) = 1
      BY <2>2, <2>3, <2>6 DEF Own, Walked
    <3>. QED BY <2>1, <3>1, FS_Singleton
  <2>7. CASE c \notin S /\ Desktop \notin S
    <3>1. S = {} /\ Own(c) = 0 /\ Walked(c) = 0
      BY <2>2, <2>3, <2>7 DEF Own, Walked
    <3>. QED BY <2>1, <3>1, FS_EmptySet
  <2>. QED BY <2>4, <2>5, <2>6, <2>7
<1>. QED BY <1>1, Invariance, PTL

\* m_enable of an update thread is true exactly while nobody has disabled it.
THEOREM FlagFollowsCount == Spec => []EnableMatchesCount
<1>1. IInv => EnableMatchesCount
  BY DEF IInv
<1>. QED BY <1>1, Invariance, PTL

\* When all who were let wait by DisableProtocol have come out of it, the
\* update thread of the client does not send until the gate is open again.
THEOREM GateHolds == Spec => []GateClosed
<1>1. IInv => GateClosed
  BY DEF IInv, SenderAwaited, GateClosed
<1>. QED BY <1>1, Invariance, PTL

\* An update thread that has been killed is disabled until it has been joined.
THEOREM DyingIsQuiet == Spec => []DyingThreadNotTriggered
<1>1. ASSUME IInv, NEW c \in Clients, thread[c], ~active[c]
      PROVE  count[c] > 0 /\ ~enable[c]
  <2>1. pc[c] = "join" /\ count[c] = Own(c) + Walked(c) /\ (enable[c] <=> count[c] = 0)
    BY <1>1, Parts DEF Counted
  <2>2. Own(c) = 1 /\ Walked(c) \in {0, 1}
    BY <2>1 DEF Own, Walked, Disabling
  <2>. QED BY <2>1, <2>2
<1>2. IInv => DyingThreadNotTriggered
  BY <1>1 DEF DyingThreadNotTriggered
<1>. QED BY <1>2, Invariance, PTL
=============================================================================
