--------------------------- MODULE VncServer_proofs ---------------------------
(***************************************************************************)
(* Proofs about VncServer, for any number of clients, controllers and ids. *)
(*                                                                         *)
(* The lists are sound because an id belongs to one thread from AddClient  *)
(* to its RemoveClient: the map leads back to the client (Owned), and      *)
(* until Authenticated the id stays where AddClient has put it.  The       *)
(* desktop argument needs the server to be alive (MayDestroy = FALSE): it  *)
(* follows m_desktopLock, which covers the test of RemoveClient and the    *)
(* whole of Authenticated.                                                 *)
(* The last part is about the threads that sleep until the list is empty:  *)
(* there is a client left to wake the sleeper, if there is one sleeper.    *)
(***************************************************************************)
EXTENDS VncServer, TLAPS

Owned ==
    \A c \in Clients :
        /\ pc[c] \in Shaking \union Using \union Going => clientmap[id[c]] = c
        /\ pc[c] \in Shaking => id[c] \in unauth
        /\ pc[c] \in Using => id[c] \in auth

IInv == TypeOK /\ ListsSound /\ Owned

\* The constructor satisfies the invariant.
LEMMA InitIInv == Init => IInv
<1>. SUFFICES ASSUME Init PROVE IInv
  OBVIOUS
<1>1. 0 \in Ids
  BY ServerAssumption DEF Ids
<1>2. /\ unauth \subseteq Ids /\ auth \subseteq Ids
      /\ clientmap \in [Ids -> Clients \union {None}]
      /\ desktopLock \in Clients \union Controllers \union {None}
      /\ clientsLock \in Clients \union Controllers \union {Desktop, None}
      /\ desktop \in Nat /\ made \in Nat
      /\ pc \in [Clients -> ClientPC]
      /\ id \in [Clients -> Ids]
      /\ closed \subseteq Clients /\ shared \subseteq Clients /\ reverse \subseteq Clients
      /\ buffer \in [Clients -> Nat]
  BY <1>1 DEF Init, ClientPC
<1>3. priority \in 0..3 /\ listening \in BOOLEAN /\ retrying \in BOOLEAN
  BY ServerAssumption DEF Init
<1>4. /\ kpc \in [Controllers -> ControlPC]
      /\ task \in [Controllers -> {"none", "KillAll", "ShutDown", "Destroy"}]
      /\ waiters \in Seq(Controllers)
      /\ dpc \in {"loop", "want", "walk"} /\ probe \in Ids
  BY <1>1 DEF Init, ControlPC
<1>5. TypeOK
  BY <1>2, <1>3, <1>4 DEF TypeOK
<1>6. ListsSound /\ Owned
  BY DEF Init, ListsSound, Owned, Shaking, Using, Going
<1>. QED BY <1>5, <1>6 DEF IInv
-----------------------------------------------------------------------------
(***************************************************************************)
(* Types.                                                                  *)
(***************************************************************************)
\* Signalling a controller keeps the types of the controllers.
LEMMA SignalTypes ==
  ASSUME TypeOK, SignalQuit
  PROVE  /\ kpc' \in [Controllers -> ControlPC]
         /\ task' \in [Controllers -> {"none", "KillAll", "ShutDown", "Destroy"}]
         /\ waiters' \in Seq(Controllers)
<1>1. CASE waiters = << >>
  BY <1>1 DEF TypeOK, SignalQuit, control
<1>2. CASE waiters # << >>
  <2>1. Head(waiters) \in Controllers /\ Tail(waiters) \in Seq(Controllers)
    BY <1>2 DEF TypeOK
  <2>. QED BY <1>2, <2>1 DEF TypeOK, SignalQuit, ControlPC
<1>. QED BY <1>1, <1>2

\* GetClient leads from the ids of a list to clients.
LEMMA KilledAreClients ==
  ASSUME TypeOK
  PROVE  /\ ClientsOf(unauth) \subseteq Clients
         /\ ClientsOf(auth) \subseteq Clients
         /\ \A s \in Ids : ClientsOf({s}) \subseteq Clients
  BY DEF TypeOK, ClientsOf, GetClient

\* A step of a client keeps every variable's type.
LEMMA ClientTypes ==
  ASSUME TypeOK, NEW c \in Clients, ClientStep(c)
  PROVE  TypeOK'
<1>1. ASSUME NEW rev \in BOOLEAN, AddClient(c, rev) \/ RefuseClient(c, rev)
      PROVE  TypeOK'
  <2>1. reverse' \subseteq Clients
    BY <1>1 DEF TypeOK, AddClient, RefuseClient, Arrives
  <2>2. ASSUME NEW s \in Ids,
               clientmap' = [clientmap EXCEPT ![s] = c],
               unauth' = unauth \union {s},
               id' = [id EXCEPT ![c] = s]
        PROVE  /\ unauth' \subseteq Ids
               /\ clientmap' \in [Ids -> Clients \union {None}]
               /\ id' \in [Clients -> Ids]
    BY <2>2 DEF TypeOK
  <2>3. CASE AddClient(c, rev)
    <3>1. PICK s \in FreeIds : /\ clientmap' = [clientmap EXCEPT ![s] = c]
                               /\ unauth' = unauth \union {s}
                               /\ id' = [id EXCEPT ![c] = s]
      BY <2>3 DEF AddClient
    <3>2. s \in Ids
      BY DEF FreeIds
    <3>. QED
      BY <2>1, <2>2, <2>3, <3>1, <3>2 DEF TypeOK, AddClient, ClientPC, screen, config,
                                          control, walker
  <2>4. CASE RefuseClient(c, rev)
    BY <2>1, <2>4 DEF TypeOK, RefuseClient, ClientPC, lists, screen, config,
                       control, walker
  <2>. QED BY <1>1, <2>3, <2>4
<1>2. CASE Handshake(c)
  BY <1>2 DEF TypeOK, Handshake, HandshakeFails, HandshakeDone, ClientPC,
              lists, screen, config, control, walker
<1>3. CASE RefuseAllCheck(c)
  BY <1>3 DEF TypeOK, RefuseAllCheck, ClientPC, lists, screen, config, control, walker
<1>4. CASE ExclusiveCheck(c) \/ KillOthers(c)
  <2>1. pc' \in [Clients -> ClientPC]
    BY <1>4 DEF TypeOK, ExclusiveCheck, KillOthers, ClientPC
  <2>2. closed' \subseteq Clients
    BY <1>4, KilledAreClients DEF TypeOK, ExclusiveCheck, KillOthers
  <2>3. clientsLock' \in Clients \union Controllers \union {Desktop, None}
    BY <1>4 DEF TypeOK, ExclusiveCheck, KillOthers
  <2>4. UNCHANGED <<lists, screen, id, shared, reverse, buffer, config, control, dpc, probe>>
    BY <1>4 DEF ExclusiveCheck, KillOthers
  <2>. QED
    BY <2>1, <2>2, <2>3, <2>4 DEF TypeOK, lists, screen, config, control
<1>5. CASE LockDesktop(c)
  BY <1>5 DEF TypeOK, LockDesktop, ClientPC, lists, config, control, walker
<1>6. CASE Authenticated(c)
  <2>1. unauth' \subseteq Ids /\ pc' \in [Clients -> ClientPC] /\ desktopLock' = None
    BY <1>6 DEF TypeOK, Authenticated, ClientPC
  <2>2. /\ auth' \subseteq Ids /\ desktop' \in Nat /\ made' \in Nat
        /\ buffer' \in [Clients -> Nat]
    <3>1. id[c] \in Ids /\ desktop \in Nat /\ made \in Nat /\ auth \subseteq Ids
      BY DEF TypeOK
    <3>2. desktop' \in Nat /\ made' \in Nat /\ auth' \subseteq Ids
      BY <1>6, <3>1 DEF Authenticated
    <3>. QED BY <1>6, <3>2 DEF TypeOK, Authenticated
  <2>3. UNCHANGED <<clientmap, id, closed, shared, reverse, config, control, walker>>
    BY <1>6 DEF Authenticated
  <2>. QED  BY <2>1, <2>2, <2>3 DEF TypeOK, config, control, walker
<1>7. CASE DesktopInitFails(c)
  BY <1>7 DEF TypeOK, DesktopInitFails, ClientPC, config, control, walker
<1>8. CASE EndSession(c) \/ UpdateThreadEnds(c)
  BY <1>8 DEF TypeOK, EndSession, UpdateThreadEnds, ClientPC,
              lists, screen, config, control, walker
<1>9. CASE RemoveClient(c)
  BY <1>9, SignalTypes DEF TypeOK, RemoveClient, ClientPC, screen, config, walker
<1>10. CASE RemoveDesktop(c) \/ NotifyDisconnect(c)
  <2>1. CASE RemoveDesktop(c)
    BY <2>1 DEF TypeOK, RemoveDesktop, ClientPC, lists, config, control, walker
  <2>2. CASE NotifyDisconnect(c)
    BY <2>2 DEF TypeOK, NotifyDisconnect, ClientPC, lists, config, control
  <2>. QED BY <1>10, <2>1, <2>2
<1>11. CASE Exit(c)
  <2>1. id' \in [Clients -> Ids] /\ buffer' \in [Clients -> Nat]
    <3>1. 0 \in Ids
      BY ServerAssumption DEF Ids
    <3>. QED BY <1>11, <3>1 DEF TypeOK, Exit
  <2>2. /\ pc' \in [Clients -> ClientPC]
        /\ closed' \subseteq Clients /\ shared' \subseteq Clients /\ reverse' \subseteq Clients
    BY <1>11 DEF TypeOK, Exit, ClientPC
  <2>3. UNCHANGED <<lists, screen, config, control, walker>>
    BY <1>11 DEF Exit
  <2>. QED BY <2>1, <2>2, <2>3 DEF TypeOK, lists, screen, config, control, walker
<1>. QED
  BY <1>1, <1>2, <1>3, <1>4, <1>5, <1>6, <1>7, <1>8, <1>9, <1>10, <1>11
  DEF ClientStep, Enter

\* A step of a controller keeps every variable's type.
LEMMA ControlTypes ==
  ASSUME TypeOK, NEW k \in Controllers, ControlStep(k)
  PROVE  TypeOK'
<1>1. CASE Listen(k) \/ BeginKillAll(k) \/ BeginShutDown(k) \/ BeginDestroy(k)
  BY <1>1 DEF TypeOK, Listen, BeginKillAll, BeginShutDown, BeginDestroy, ControlPC,
              lists, screen, client, config, control, walker
<1>2. CASE BeginKill(k) \/ KillAuthClients(k) \/ KillUnauthClients(k)
  <2>1. kpc' \in [Controllers -> ControlPC]
    BY <1>2 DEF TypeOK, BeginKill, KillAuthClients, KillUnauthClients, ControlPC
  <2>2. task' \in [Controllers -> {"none", "KillAll", "ShutDown", "Destroy"}]
    BY <1>2 DEF TypeOK, BeginKill, KillAuthClients, KillUnauthClients
  <2>3. closed' \subseteq Clients
    BY <1>2, KilledAreClients DEF TypeOK, BeginKill, KillAuthClients, KillUnauthClients,
                                  client
  <2>4. clientsLock' \in Clients \union Controllers \union {Desktop, None}
    BY <1>2 DEF BeginKill, KillAuthClients, KillUnauthClients
  <2>5. UNCHANGED <<lists, screen, pc, id, shared, reverse, buffer, config, waiters,
                    dpc, probe>>
    BY <1>2 DEF BeginKill, KillAuthClients, KillUnauthClients, client
  <2>. QED
    BY <2>1, <2>2, <2>3, <2>4, <2>5 DEF TypeOK, lists, screen, config
<1>3. CASE WaitUntilAuthEmpty(k) \/ WaitUntilUnauthEmpty(k)
  <2>1. Append(waiters, k) \in Seq(Controllers)
    BY DEF TypeOK
  <2>2. waiters' \in Seq(Controllers)
    BY <1>3, <2>1 DEF TypeOK, WaitUntilAuthEmpty, WaitUntilUnauthEmpty
  <2>3. kpc' \in [Controllers -> ControlPC]
    BY <1>3 DEF TypeOK, WaitUntilAuthEmpty, WaitUntilUnauthEmpty, ControlPC
  <2>4. UNCHANGED <<lists, screen, client, config, task, walker>>
    BY <1>3 DEF WaitUntilAuthEmpty, WaitUntilUnauthEmpty
  <2>. QED
    BY <2>2, <2>3, <2>4 DEF TypeOK, lists, screen, client, config, walker
<1>4. CASE StopListener(k)
  <2>1. /\ kpc' \in [Controllers -> ControlPC]
        /\ task' \in [Controllers -> {"none", "KillAll", "ShutDown", "Destroy"}]
        /\ listening' = FALSE
    BY <1>4 DEF TypeOK, StopListener, ControlPC
  <2>2. UNCHANGED <<lists, screen, client, priority, retrying, waiters, walker>>
    BY <1>4 DEF StopListener
  <2>. QED BY <2>1, <2>2 DEF TypeOK, lists, screen, client, walker
<1>5. CASE LockToFree(k) \/ FreeDesktop(k)
  <2>1. /\ kpc' \in [Controllers -> ControlPC] /\ desktop' \in Nat
        /\ desktopLock' \in Clients \union Controllers \union {None}
    <3>1. CASE LockToFree(k)
      BY <3>1 DEF TypeOK, LockToFree, ControlPC
    <3>2. CASE FreeDesktop(k)
      BY <3>2 DEF TypeOK, FreeDesktop, ControlPC
    <3>. QED BY <1>5, <3>1, <3>2
  <2>2. UNCHANGED <<lists, made, client, config, task, waiters, walker>>
    BY <1>5 DEF LockToFree, FreeDesktop
  <2>. QED BY <2>1, <2>2 DEF TypeOK, lists, client, config, walker
<1>. QED BY <1>1, <1>2, <1>3, <1>4, <1>5 DEF ControlStep

\* A step of the desktop thread keeps every variable's type.
LEMMA DesktopTypes ==
  ASSUME TypeOK, DesktopStep
  PROVE  TypeOK'
<1>1. ASSUME NEW s \in Ids, KillClient(s) PROVE TypeOK'
  BY <1>1, KilledAreClients DEF TypeOK, KillClient, lists, screen, config, control, walker
<1>2. ASSUME NEW s \in Ids, ProbeRead(s) PROVE TypeOK'
  BY <1>2 DEF TypeOK, ProbeRead, lists, screen, client, config, control
<1>3. CASE WantWalk \/ BeginWalk \/ EndWalk
  BY <1>3 DEF TypeOK, WantWalk, BeginWalk, EndWalk, lists, screen, client, config, control
<1>4. CASE ProbeUse
  BY <1>4, ServerAssumption DEF TypeOK, ProbeUse, Ids, lists, screen, client, config, control
<1>. QED BY <1>1, <1>2, <1>3, <1>4 DEF DesktopStep

\* Every step keeps every variable's type.
LEMMA NextTypes == TypeOK /\ [Next]_vars => TypeOK'
<1>. SUFFICES ASSUME TypeOK, [Next]_vars PROVE TypeOK'
  OBVIOUS
<1>1. CASE UNCHANGED vars
  BY <1>1 DEF TypeOK, vars, lists, screen, client, config, control, walker
<1>2. CASE DesktopStep
  BY <1>2, DesktopTypes
<1>. QED BY <1>1, <1>2, ClientTypes, ControlTypes DEF Next
-----------------------------------------------------------------------------
(***************************************************************************)
(* The lists.                                                              *)
(***************************************************************************)
ListInv == ListsSound /\ Owned

\* What is on the lists, spelled out.
LEMMA Members ==
  ASSUME IInv, NEW s \in unauth \union auth
  PROVE  /\ s \in Ids /\ clientmap[s] \in Clients
         /\ id[clientmap[s]] = s
  BY DEF IInv, TypeOK, ListsSound, GetClient

\* AddClient gives a new client an id that nobody owns.
LEMMA AddClientLists ==
  ASSUME IInv, NEW c \in Clients, NEW rev \in BOOLEAN, AddClient(c, rev)
  PROVE  ListInv'
<1>1. PICK s \in FreeIds : /\ clientmap' = [clientmap EXCEPT ![s] = c]
                           /\ unauth' = unauth \union {s}
                           /\ id' = [id EXCEPT ![c] = s]
  BY DEF AddClient
<1>2. s \in Ids /\ clientmap[s] = None /\ c # None
  BY ServerAssumption DEF FreeIds
<1>3. s \notin unauth \union auth
  BY <1>2, Members, ServerAssumption
<1>4. /\ pc[c] = "none" /\ pc' = [pc EXCEPT ![c] = "init"] /\ auth' = auth
  BY DEF AddClient, Arrives
<1>5. \A d \in Clients : id'[d] = IF d = c THEN s ELSE id[d]
  BY <1>1 DEF IInv, TypeOK
<1>6. \A d \in Clients : pc'[d] = IF d = c THEN "init" ELSE pc[d]
  BY <1>4 DEF IInv, TypeOK
<1>7. \A i \in Ids : clientmap'[i] = IF i = s THEN c ELSE clientmap[i]
  BY <1>1 DEF IInv, TypeOK
<1>8. ASSUME NEW i \in unauth \union auth
      PROVE  i # s /\ clientmap[i] # c /\ clientmap[i] \in Clients /\ i \in Ids
  <2>1. i # s /\ clientmap[i] \in Clients /\ i \in Ids
    BY <1>3, Members
  <2>2. pc[clientmap[i]] \in Shaking \union Using \union Going
    BY DEF IInv, ListsSound, GetClient
  <2>. QED BY <1>4, <2>1, <2>2 DEF Shaking, Using, Going
<1>9. ListsSound'
  <2>1. (unauth \intersect auth)' = {}
    <3>1. unauth \intersect auth = {}
      BY DEF IInv, ListsSound
    <3>. QED BY <1>1, <1>3, <1>4, <3>1
  <2>2. ASSUME NEW i \in unauth \union auth
        PROVE  /\ clientmap'[i] = clientmap[i] /\ id'[clientmap[i]] = id[clientmap[i]]
               /\ pc'[clientmap[i]] = pc[clientmap[i]]
    BY <1>5, <1>6, <1>7, <1>8
  <2>3. ASSUME NEW i \in (unauth \union auth)'
        PROVE  /\ clientmap'[i] # None /\ id'[clientmap'[i]] = i
               /\ pc'[clientmap'[i]] \in
                     Going \union (IF i \in auth' THEN Using ELSE Shaking)
    <3>1. CASE i = s
      <4>1. clientmap'[i] = c /\ id'[c] = i /\ pc'[c] = "init" /\ i \notin auth' /\ c # None
        BY <1>2, <1>3, <1>4, <1>5, <1>6, <1>7, <3>1
      <4>. QED BY <4>1 DEF Shaking
    <3>2. CASE i # s
      BY <1>1, <1>4, <2>2, <3>2 DEF IInv, ListsSound, GetClient
    <3>. QED BY <3>1, <3>2
  <2>. QED BY <2>1, <2>3 DEF ListsSound, GetClient
<1>10. Owned'
  <2>. SUFFICES ASSUME NEW d \in Clients
                PROVE  /\ pc'[d] \in Shaking \union Using \union Going => clientmap'[id'[d]] = d
                       /\ pc'[d] \in Shaking => id'[d] \in unauth'
                       /\ pc'[d] \in Using => id'[d] \in auth'
    BY DEF Owned
  <2>1. CASE d = c
    BY <1>1, <1>2, <1>5, <1>6, <1>7, <2>1 DEF Shaking, Using, Going
  <2>2. CASE d # c
    <3>1. id'[d] = id[d] /\ pc'[d] = pc[d] /\ id[d] \in Ids
      BY <1>5, <1>6, <2>2 DEF IInv, TypeOK
    <3>2. clientmap[id[d]] = d => id[d] # s
      BY <1>2, ServerAssumption
    <3>. QED BY <1>1, <1>4, <1>7, <3>1, <3>2 DEF IInv, Owned
  <2>. QED BY <2>1, <2>2
<1>. QED BY <1>9, <1>10 DEF ListInv

\* A client moves to the other list with its id.
LEMMA AuthenticatedLists ==
  ASSUME IInv, NEW c \in Clients, Authenticated(c)
  PROVE  ListInv'
<1>1. /\ pc[c] = "entering" /\ id[c] \in unauth /\ clientmap[id[c]] = c
  BY DEF IInv, Owned, Shaking, Authenticated
<1>2. /\ unauth' = unauth \ {id[c]} /\ auth' = auth \union {id[c]}
      /\ UNCHANGED <<clientmap, id>>
      /\ \A d \in Clients : pc'[d] = IF d = c THEN "running" ELSE pc[d]
  BY <1>1 DEF IInv, TypeOK, Authenticated
<1>3. \A d \in Clients : d # c /\ pc[d] \in Shaking => id[d] # id[c]
  BY <1>1 DEF IInv, Owned
<1>4. ListsSound'
  BY <1>1, <1>2, Members DEF IInv, ListsSound, GetClient, Shaking, Using, Going
<1>5. Owned'
  BY <1>1, <1>2, <1>3 DEF IInv, Owned, Shaking, Using, Going
<1>. QED BY <1>4, <1>5 DEF ListInv

\* ... or is on neither list for the rest of its life.
LEMMA DesktopInitFailsLists ==
  ASSUME IInv, NEW c \in Clients, DesktopInitFails(c)
  PROVE  ListInv'
<1>1. /\ pc[c] = "entering" /\ id[c] \in unauth /\ clientmap[id[c]] = c
  BY DEF IInv, Owned, Shaking, DesktopInitFails
<1>2. /\ unauth' = unauth \ {id[c]}
      /\ UNCHANGED <<auth, clientmap, id>>
      /\ \A d \in Clients : pc'[d] = IF d = c THEN "leaving" ELSE pc[d]
  BY <1>1 DEF IInv, TypeOK, DesktopInitFails
<1>3. \A d \in Clients : d # c /\ pc[d] \in Shaking => id[d] # id[c]
  BY <1>1 DEF IInv, Owned
<1>4. ListsSound'
  BY <1>1, <1>2, Members DEF IInv, ListsSound, GetClient, Shaking, Using, Going
<1>5. Owned'
  BY <1>1, <1>2, <1>3 DEF IInv, Owned, Shaking, Using, Going
<1>. QED BY <1>4, <1>5 DEF ListInv

\* RemoveClient takes off the lists only the id of the client that leaves.
LEMMA RemoveClientLists ==
  ASSUME IInv, NEW c \in Clients, RemoveClient(c)
  PROVE  ListInv'
<1>1. /\ pc[c] = "unlisting" /\ clientmap[id[c]] = c /\ id[c] \in Ids
  BY DEF IInv, TypeOK, Owned, RemoveClient, Going
<1>2. /\ unauth' = unauth \ {id[c]} /\ auth' = auth \ {id[c]}
      /\ id' = id
      /\ \A d \in Clients : pc'[d] = IF d = c THEN "removing" ELSE pc[d]
      /\ \A s \in Ids \ {id[c]} : clientmap'[s] = clientmap[s]
  BY DEF IInv, TypeOK, RemoveClient
<1>3. ASSUME NEW d \in Clients, d # c,
             pc[d] \in Shaking \union Using \union Going
      PROVE  id[d] # id[c] /\ id[d] \in Ids
  BY <1>1, <1>3 DEF IInv, TypeOK, Owned
<1>4. ASSUME NEW s \in (unauth \union auth) \ {id[c]}
      PROVE  s \in Ids /\ clientmap[s] # c
  BY <1>4, Members
<1>5. ListsSound'
  BY <1>2, <1>4, Members DEF IInv, ListsSound, GetClient
<1>6. Owned'
  BY <1>2, <1>3 DEF IInv, Owned, Shaking, Using, Going
<1>. QED BY <1>5, <1>6 DEF ListInv

\* Not on the lists any more, or not yet.
Outside == {"none", "removing", "notifying", "exiting", "gone"}

\* A thread goes on from one part of the handshake to the next, leaves, or
\* ends: the lists stay as they are.
LEMMA MoveLists ==
  ASSUME IInv, NEW c \in Clients, NEW l \in ClientPC,
         pc' = [pc EXCEPT ![c] = l], UNCHANGED <<unauth, auth, clientmap, id>>,
         \/ pc[c] \in Shaking /\ l \in Shaking \union Going
         \/ pc[c] \in Using \union Going /\ l \in Going
         \/ pc[c] \in Using /\ l \in Using
         \/ pc[c] \in Outside /\ l \in Outside
  PROVE  ListInv'
<1>1. \A d \in Clients : pc'[d] = IF d = c THEN l ELSE pc[d]
  BY DEF IInv, TypeOK
<1>2. pc[c] \in Outside => \A s \in unauth \union auth : clientmap[s] # c
  BY DEF IInv, ListsSound, GetClient, Outside, Shaking, Using, Going
<1>3. ListsSound'
  <2>. SUFFICES ASSUME NEW s \in unauth \union auth
                PROVE  /\ clientmap[s] # None
                       /\ id[clientmap[s]] = s
                       /\ pc'[clientmap[s]] \in Going \union (IF s \in auth THEN Using
                                                               ELSE Shaking)
    BY DEF IInv, ListsSound, GetClient
  <2>1. /\ clientmap[s] \in Clients /\ clientmap[s] # None /\ id[clientmap[s]] = s
        /\ pc[clientmap[s]] \in Going \union (IF s \in auth THEN Using ELSE Shaking)
    BY Members DEF IInv, ListsSound, GetClient
  <2>. QED BY <1>1, <1>2, <2>1 DEF IInv, Owned, Shaking, Using, Going
<1>4. Owned'
  BY <1>1 DEF IInv, Owned, Shaking, Using, Going, Outside
<1>. QED BY <1>3, <1>4 DEF ListInv

\* Steps that touch neither the lists nor where a client thread is.
LEMMA SameLists ==
  ASSUME IInv, UNCHANGED <<unauth, auth, clientmap, pc, id>>
  PROVE  ListInv'
  BY DEF IInv, ListInv, ListsSound, Owned, GetClient

\* No list leads to a client that is deleted.
LEMMA Unlisted ==
  ASSUME IInv, NEW c \in Clients, pc[c] \in Outside, NEW s \in unauth \union auth
  PROVE  clientmap[s] \in Clients \ {c}
<1>1. /\ clientmap[s] \in Clients
      /\ pc[clientmap[s]] \in Going \union Using \union Shaking
  BY Members DEF IInv, ListsSound, GetClient
<1>. QED BY <1>1 DEF Outside, Shaking, Using, Going

LEMMA ExitLists ==
  ASSUME IInv, NEW c \in Clients, Exit(c)
  PROVE  ListInv'
<1>1. /\ UNCHANGED <<unauth, auth, clientmap>> /\ pc[c] \in Outside
      /\ \A d \in Clients : /\ pc'[d] = IF d = c THEN "gone" ELSE pc[d]
                            /\ id'[d] = IF d = c THEN 0 ELSE id[d]
  BY DEF IInv, TypeOK, Exit, lists, Outside
<1>2. ListsSound'
  BY <1>1, Unlisted DEF IInv, ListsSound, GetClient
<1>3. Owned'
  BY <1>1 DEF IInv, Owned, Shaking, Using, Going
<1>. QED BY <1>2, <1>3 DEF ListInv

LEMMA ClientLists ==
  ASSUME IInv, NEW c \in Clients, ClientStep(c)
  PROVE  ListInv'
<1>1. ASSUME NEW rev \in BOOLEAN, AddClient(c, rev) PROVE ListInv'
  BY <1>1, AddClientLists
<1>2. CASE Authenticated(c)
  BY <1>2, AuthenticatedLists
<1>3. CASE DesktopInitFails(c)
  BY <1>3, DesktopInitFailsLists
<1>4. CASE RemoveClient(c)
  BY <1>4, RemoveClientLists
<1>5. ASSUME NEW rev \in BOOLEAN, RefuseClient(c, rev) PROVE ListInv'
  BY <1>5, MoveLists DEF RefuseClient, Arrives, lists, ClientPC, Outside
<1>6. CASE Handshake(c)
  BY <1>6, MoveLists DEF Handshake, HandshakeFails, HandshakeDone, lists, ClientPC,
                         Shaking, Going
<1>7. CASE RefuseAllCheck(c)
  <2>1. PICK l \in {"leaving", "exclusive"} : pc' = [pc EXCEPT ![c] = l]
    BY <1>7 DEF RefuseAllCheck
  <2>2. l \in ClientPC /\ l \in Shaking \union Going /\ pc[c] \in Shaking
    BY <1>7 DEF ClientPC, Shaking, Going, RefuseAllCheck
  <2>3. UNCHANGED <<unauth, auth, clientmap, id>>
    BY <1>7 DEF RefuseAllCheck, lists
  <2>. QED BY <2>1, <2>2, <2>3, MoveLists
<1>8. CASE ExclusiveCheck(c) \/ KillOthers(c)
  <2>1. PICK l \in {"leaving", "killing", "enter"} : pc' = [pc EXCEPT ![c] = l]
    BY <1>8 DEF ExclusiveCheck, KillOthers
  <2>2. l \in ClientPC /\ l \in Shaking \union Going /\ pc[c] \in Shaking
    BY <1>8 DEF ClientPC, Shaking, Going, ExclusiveCheck, KillOthers
  <2>3. UNCHANGED <<unauth, auth, clientmap, id>>
    BY <1>8 DEF ExclusiveCheck, KillOthers, lists
  <2>. QED BY <2>1, <2>2, <2>3, MoveLists
<1>9. CASE LockDesktop(c)
  <2>1. PICK l \in {"entering", "unlisting"} :
           /\ pc' = [pc EXCEPT ![c] = l]
           /\ \/ pc[c] \in Shaking /\ l \in Shaking
              \/ pc[c] \in Going /\ l \in Going
    BY <1>9 DEF LockDesktop, Shaking, Going
  <2>2. l \in ClientPC
    BY <2>1 DEF ClientPC
  <2>3. UNCHANGED <<unauth, auth, clientmap, id>>
    BY <1>9 DEF LockDesktop, lists
  <2>. QED BY <2>1, <2>2, <2>3, MoveLists
<1>10. CASE EndSession(c) \/ UpdateThreadEnds(c)
  BY <1>10, MoveLists DEF EndSession, UpdateThreadEnds, lists, ClientPC, Using, Going
<1>11. CASE RemoveDesktop(c) \/ NotifyDisconnect(c)
  BY <1>11, MoveLists DEF RemoveDesktop, NotifyDisconnect, lists, ClientPC, Outside
<1>12. CASE Exit(c)
  BY <1>12, ExitLists
<1>. QED
  BY <1>1, <1>2, <1>3, <1>4, <1>5, <1>6, <1>7, <1>8, <1>9, <1>10, <1>11, <1>12
  DEF ClientStep, Enter

LEMMA ControlLists ==
  ASSUME IInv, NEW k \in Controllers, ControlStep(k)
  PROVE  ListInv'
<1>1. UNCHANGED <<unauth, auth, clientmap, pc, id>>
  BY DEF ControlStep, Listen, BeginKillAll, BeginShutDown, BeginDestroy, BeginKill,
         KillAuthClients, KillUnauthClients, WaitUntilAuthEmpty, WaitUntilUnauthEmpty,
         StopListener, LockToFree, FreeDesktop, lists, client
<1>. QED BY <1>1, SameLists

\* The invariant is inductive.
LEMMA NextIInv == IInv /\ [Next]_vars => IInv'
<1>. SUFFICES ASSUME IInv, [Next]_vars PROVE IInv'
  OBVIOUS
<1>1. TypeOK'
  BY NextTypes DEF IInv
<1>2. ListInv'
  <2>1. CASE UNCHANGED vars
    BY <2>1, SameLists DEF vars, lists, client
  <2>2. CASE DesktopStep
    BY <2>2, SameLists DEF DesktopStep, WantWalk, BeginWalk, EndWalk, ProbeUse,
                           KillClient, ProbeRead, lists, client
  <2>. QED BY <2>1, <2>2, ClientLists, ControlLists DEF Next
<1>. QED BY <1>1, <1>2 DEF IInv, ListInv

\* The invariant holds in every state of the server.
THEOREM Invariance == Spec => []IInv
  BY InitIInv, NextIInv, PTL DEF Spec

\* Every variable of the server keeps its type; every id is one of m_clientmap.
THEOREM TypeCorrect == Spec => []TypeOK
<1>1. IInv => TypeOK
  BY DEF IInv
<1>. QED BY Invariance, <1>1, PTL

\* The loops that follow GetClient(i) for the ids of a list, under
\* m_clientsLock, never meet a null pointer or a client that is gone.
THEOREM ListsAreSound == Spec => []ListsSound
<1>1. IInv => ListsSound
  BY DEF IInv
<1>. QED BY Invariance, <1>1, PTL
-----------------------------------------------------------------------------
(***************************************************************************)
(* The desktop, while nobody runs the destructor.                          *)
(***************************************************************************)
Alive == \A k \in Controllers :
            task[k] # "Destroy" /\ kpc[k] \notin {"lockDesktop", "freeDesktop"}

\* Where a client holds m_desktopLock.
Holding == {"entering", "unlisting", "removing", "notifying"}

DesktopInv ==
    /\ \A c \in Clients : pc[c] \in Holding <=> desktopLock = c
    /\ auth # {} => desktop # 0
    /\ auth = {} /\ desktop # 0 => \E c \in Clients : pc[c] = "removing"
    /\ \A s \in auth : buffer[clientmap[s]] = desktop

DInv == IInv /\ Alive /\ DesktopInv

LEMMA InitDInv == Init => DInv
<1>1. Init => Alive /\ DesktopInv
  BY ServerAssumption DEF Init, Alive, DesktopInv, Holding
<1>. QED BY <1>1, InitIInv DEF DInv

\* Only BeginDestroy starts a destructor.
LEMMA StaysAlive ==
  ASSUME ~MayDestroy, TypeOK, Alive, [Next]_vars
  PROVE  Alive'
<1>1. CASE UNCHANGED vars
  BY <1>1 DEF Alive, vars, control
<1>2. ASSUME NEW c \in Clients, ClientStep(c) PROVE Alive'
  <2>1. CASE RemoveClient(c)
    <3>1. CASE waiters = << >>
      BY <2>1, <3>1 DEF RemoveClient, SignalQuit, Alive, control
    <3>2. CASE waiters # << >>
      <4>1. Head(waiters) \in Controllers
        BY <3>2 DEF TypeOK
      <4>2. /\ task' = task
            /\ \A k \in Controllers : kpc'[k] \in {kpc[k], "waitAuth", "waitUnauth"}
        BY <2>1, <3>2, <4>1 DEF RemoveClient, SignalQuit, TypeOK
      <4>. QED BY <4>2 DEF Alive
    <3>. QED BY <3>1, <3>2
  <2>2. CASE ~RemoveClient(c)
    <3>1. UNCHANGED control
      BY <1>2, <2>2
      DEF ClientStep, AddClient, RefuseClient, Handshake, HandshakeFails, HandshakeDone,
          RefuseAllCheck, ExclusiveCheck, KillOthers, LockDesktop, Enter, Authenticated,
          DesktopInitFails, EndSession, UpdateThreadEnds, RemoveDesktop, NotifyDisconnect,
          Exit
    <3>. QED BY <3>1 DEF Alive, control
  <2>. QED BY <2>1, <2>2
<1>3. ASSUME NEW k \in Controllers, ControlStep(k) PROVE Alive'
  <2>1. CASE Listen(k)
    BY <2>1 DEF Listen, Alive, control
  <2>2. CASE BeginKillAll(k) \/ BeginShutDown(k)
    BY <2>2 DEF BeginKillAll, BeginShutDown, Alive, TypeOK
  <2>3. CASE BeginKill(k) \/ KillAuthClients(k) \/ KillUnauthClients(k)
    BY <2>3 DEF BeginKill, KillAuthClients, KillUnauthClients, Alive, TypeOK
  <2>4. CASE WaitUntilAuthEmpty(k) \/ WaitUntilUnauthEmpty(k)
    BY <2>4 DEF WaitUntilAuthEmpty, WaitUntilUnauthEmpty, Alive, TypeOK
  <2>5. CASE StopListener(k)
    BY <2>5 DEF StopListener, Alive, TypeOK
  <2>6. ~BeginDestroy(k) /\ ~LockToFree(k) /\ ~FreeDesktop(k)
    BY DEF BeginDestroy, LockToFree, FreeDesktop, Alive
  <2>. QED BY <1>3, <2>1, <2>2, <2>3, <2>4, <2>5, <2>6 DEF ControlStep
<1>4. CASE DesktopStep
  BY <1>4 DEF DesktopStep, WantWalk, BeginWalk, EndWalk, ProbeUse, KillClient, ProbeRead,
              Alive, control
<1>. QED BY <1>1, <1>2, <1>3, <1>4 DEF Next

\* Whoever waits at m_desktopLock takes it: nobody removes a client then.
LEMMA LockDesktopDesktop ==
  ASSUME DInv, NEW c \in Clients, LockDesktop(c)
  PROVE  DesktopInv'
<1>1. PICK l \in {"entering", "unlisting"} : pc' = [pc EXCEPT ![c] = l]
  BY DEF LockDesktop
<1>2. /\ UNCHANGED <<auth, clientmap, desktop, buffer>>
      /\ desktopLock = None /\ desktopLock' = c
      /\ \A d \in Clients : pc'[d] = IF d = c THEN l ELSE pc[d]
  BY <1>1 DEF LockDesktop, DInv, IInv, TypeOK, lists
<1>3. \A d \in Clients : d # None
  BY ServerAssumption
<1>4. \A d \in Clients : pc'[d] \in Holding <=> desktopLock' = d
  BY <1>2, <1>3 DEF DInv, DesktopInv, Holding
<1>5. ~(auth = {} /\ desktop # 0)
  BY <1>2, <1>3 DEF DInv, DesktopInv, Holding
<1>. QED BY <1>2, <1>4, <1>5 DEF DInv, DesktopInv

\* A newcomer is given the desktop that exists, or the one made for it.
LEMMA AuthenticatedDesktop ==
  ASSUME DInv, NEW c \in Clients, Authenticated(c)
  PROVE  DesktopInv'
<1>1. /\ pc[c] = "entering" /\ id[c] \in unauth /\ id[c] \in Ids /\ clientmap[id[c]] = c
      /\ desktopLock = c /\ c # None
  BY ServerAssumption
  DEF DInv, DesktopInv, IInv, TypeOK, Owned, Shaking, Holding, Authenticated
<1>2. /\ auth' = auth \union {id[c]} /\ clientmap' = clientmap
      /\ desktopLock' = None
      /\ \A d \in Clients : pc'[d] = IF d = c THEN "running" ELSE pc[d]
      /\ \A d \in Clients : buffer'[d] = IF d = c THEN desktop' ELSE buffer[d]
  BY <1>1 DEF DInv, IInv, TypeOK, Authenticated
<1>3. /\ desktop = 0 => desktop' # 0 /\ auth = {}
      /\ desktop # 0 => desktop' = desktop
  BY <1>1 DEF DInv, DesktopInv, IInv, TypeOK, Authenticated
<1>4. desktop' # 0
  BY <1>3
<1>5. \A d \in Clients : pc'[d] \in Holding <=> desktopLock' = d
  BY <1>1, <1>2, ServerAssumption DEF DInv, DesktopInv, Holding
<1>6. ASSUME NEW s \in auth' PROVE buffer'[clientmap'[s]] = desktop'
  <2>1. CASE s = id[c]
    BY <1>1, <1>2, <2>1
  <2>2. CASE s \in auth
    BY <1>2, <1>3, <2>2, Members DEF DInv, DesktopInv
  <2>. QED BY <1>2, <2>1, <2>2
<1>. QED BY <1>2, <1>4, <1>5, <1>6 DEF DesktopInv

\* If no desktop can be made, there is none, and nobody is authenticated.
LEMMA DesktopInitFailsDesktop ==
  ASSUME DInv, NEW c \in Clients, DesktopInitFails(c)
  PROVE  DesktopInv'
<1>1. /\ pc[c] = "entering" /\ desktopLock = c /\ desktop = 0 /\ desktopLock' = None
      /\ UNCHANGED <<auth, clientmap, desktop, buffer>>
      /\ \A d \in Clients : pc'[d] = IF d = c THEN "leaving" ELSE pc[d]
  BY DEF DInv, DesktopInv, IInv, TypeOK, Holding, DesktopInitFails
<1>2. \A d \in Clients : pc'[d] \in Holding <=> desktopLock' = d
  BY <1>1, ServerAssumption DEF DInv, DesktopInv, Holding
<1>. QED BY <1>1, <1>2 DEF DInv, DesktopInv

\* From the moment a client is off the list, the lock keeps newcomers out
\* until the desktop has been looked at.
LEMMA RemoveClientDesktop ==
  ASSUME DInv, NEW c \in Clients, RemoveClient(c)
  PROVE  DesktopInv'
<1>1. /\ clientmap[id[c]] = c /\ id[c] \in Ids
  BY DEF DInv, IInv, TypeOK, Owned, Going, RemoveClient
<1>2. /\ auth' = auth \ {id[c]} /\ desktop' = desktop /\ buffer' = buffer
      /\ desktopLock = c /\ desktopLock' = desktopLock /\ pc[c] = "unlisting"
      /\ \A d \in Clients : pc'[d] = IF d = c THEN "removing" ELSE pc[d]
      /\ \A s \in Ids \ {id[c]} : clientmap'[s] = clientmap[s]
  BY <1>1 DEF DInv, DesktopInv, IInv, TypeOK, Holding, RemoveClient, screen
<1>3. \A d \in Clients : pc'[d] \in Holding <=> desktopLock' = d
  BY <1>2 DEF DInv, DesktopInv, Holding
<1>4. auth' # {} => desktop' # 0
  BY <1>2 DEF DInv, DesktopInv
<1>5. \A s \in auth' : buffer'[clientmap'[s]] = desktop'
  BY <1>2 DEF DInv, DesktopInv, IInv, TypeOK
<1>6. \E d \in Clients : pc'[d] = "removing"
  BY <1>2
<1>. QED BY <1>3, <1>4, <1>5, <1>6 DEF DesktopInv

\* The desktop goes with its last client, and the lock is kept for DoNotify.
LEMMA RemoveDesktopDesktop ==
  ASSUME DInv, NEW c \in Clients, RemoveDesktop(c)
  PROVE  DesktopInv'
<1>1. /\ desktopLock = c /\ pc[c] = "removing"
      /\ UNCHANGED <<auth, clientmap, buffer, desktopLock>>
      /\ \A d \in Clients : pc'[d] = IF d = c THEN "notifying" ELSE pc[d]
      /\ auth # {} => desktop' = desktop
      /\ auth = {} => desktop' = 0
  BY DEF DInv, DesktopInv, IInv, TypeOK, Holding, RemoveDesktop, lists
<1>2. \A d \in Clients : pc'[d] \in Holding <=> desktopLock' = d
  BY <1>1 DEF DInv, DesktopInv, Holding
<1>. QED BY <1>1, <1>2 DEF DInv, DesktopInv

\* The end of RemoveClient, which nobody else has been in, releases the lock.
LEMMA NotifyDisconnectDesktop ==
  ASSUME DInv, NEW c \in Clients, NotifyDisconnect(c)
  PROVE  DesktopInv'
<1>1. /\ desktopLock = c /\ pc[c] = "notifying" /\ desktopLock' = None
      /\ UNCHANGED <<auth, clientmap, desktop, buffer>>
      /\ \A d \in Clients : pc'[d] = IF d = c THEN "exiting" ELSE pc[d]
  BY DEF DInv, DesktopInv, IInv, TypeOK, Holding, NotifyDisconnect, lists
<1>2. \A d \in Clients : pc'[d] \in Holding <=> desktopLock' = d
  BY <1>1, ServerAssumption DEF DInv, DesktopInv, Holding
<1>3. \A d \in Clients : pc[d] = "removing" => d = c
  BY <1>1 DEF DInv, DesktopInv, Holding
<1>4. ~(auth = {} /\ desktop # 0)
  BY <1>1, <1>3 DEF DInv, DesktopInv
<1>. QED BY <1>1, <1>2, <1>4 DEF DInv, DesktopInv

\* Every other step of a client leaves the desktop and the lock alone.
LEMMA OtherDesktop ==
  ASSUME DInv, NEW c \in Clients,
         UNCHANGED <<auth, desktop, desktopLock, buffer>>,
         \A s \in auth : clientmap'[s] = clientmap[s],
         pc[c] \notin Holding, NEW l \in ClientPC \ Holding,
         pc' = [pc EXCEPT ![c] = l]
  PROVE  DesktopInv'
<1>1. \A d \in Clients : pc'[d] = IF d = c THEN l ELSE pc[d]
  BY DEF DInv, IInv, TypeOK
<1>2. "removing" \in Holding
  BY DEF Holding
<1>. QED BY <1>1, <1>2 DEF DInv, DesktopInv

\* A deleted client was nobody's, and held nothing.
LEMMA ExitDesktop ==
  ASSUME DInv, NEW c \in Clients, Exit(c)
  PROVE  DesktopInv'
<1>1. /\ UNCHANGED <<auth, clientmap, desktop, desktopLock>> /\ pc[c] = "exiting"
      /\ \A d \in Clients : /\ pc'[d] = IF d = c THEN "gone" ELSE pc[d]
                            /\ buffer'[d] = IF d = c THEN 0 ELSE buffer[d]
  BY DEF DInv, IInv, TypeOK, Exit, lists, screen
<1>2. \A s \in auth : clientmap[s] \in Clients \ {c}
  BY <1>1, Unlisted DEF DInv, Outside
<1>3. \A d \in Clients : /\ pc'[d] \in Holding <=> pc[d] \in Holding
                         /\ pc'[d] = "removing" <=> pc[d] = "removing"
  BY <1>1 DEF Holding
<1>4. \A d \in Clients : pc'[d] \in Holding <=> desktopLock' = d
  BY <1>1, <1>3 DEF DInv, DesktopInv
<1>5. auth' = {} /\ desktop' # 0 => \E d \in Clients : pc'[d] = "removing"
  BY <1>1, <1>3 DEF DInv, DesktopInv
<1>6. \A s \in auth' : buffer'[clientmap'[s]] = desktop'
  BY <1>1, <1>2 DEF DInv, DesktopInv
<1>7. auth' # {} => desktop' # 0
  BY <1>1 DEF DInv, DesktopInv
<1>. QED BY <1>4, <1>5, <1>6, <1>7 DEF DesktopInv

LEMMA ClientDesktop ==
  ASSUME DInv, NEW c \in Clients, ClientStep(c)
  PROVE  DesktopInv'
<1>1. ASSUME NEW rev \in BOOLEAN, AddClient(c, rev) PROVE DesktopInv'
  <2>1. PICK s \in FreeIds : clientmap' = [clientmap EXCEPT ![s] = c]
    BY <1>1 DEF AddClient
  <2>2. s \in Ids /\ clientmap[s] = None
    BY DEF FreeIds
  <2>3. \A i \in auth : clientmap'[i] = clientmap[i]
    BY <2>1, <2>2, Members, ServerAssumption DEF DInv, IInv, TypeOK
  <2>. QED BY <1>1, <2>3, OtherDesktop DEF AddClient, Arrives, screen, ClientPC, Holding
<1>2. ASSUME NEW rev \in BOOLEAN, RefuseClient(c, rev) PROVE DesktopInv'
  BY <1>2, OtherDesktop DEF RefuseClient, Arrives, lists, screen, ClientPC, Holding
<1>3. CASE Handshake(c)
  BY <1>3, OtherDesktop
  DEF Handshake, HandshakeFails, HandshakeDone, lists, screen, ClientPC, Holding
<1>4. CASE RefuseAllCheck(c)
  <2>1. PICK l \in {"leaving", "exclusive"} : pc' = [pc EXCEPT ![c] = l]
    BY <1>4 DEF RefuseAllCheck
  <2>. QED BY <1>4, <2>1, OtherDesktop DEF RefuseAllCheck, lists, screen, ClientPC, Holding
<1>5. CASE ExclusiveCheck(c)
  <2>1. PICK l \in {"leaving", "killing", "enter"} : pc' = [pc EXCEPT ![c] = l]
    BY <1>5 DEF ExclusiveCheck
  <2>. QED BY <1>5, <2>1, OtherDesktop DEF ExclusiveCheck, lists, screen, ClientPC, Holding
<1>6. CASE KillOthers(c)
  BY <1>6, OtherDesktop DEF KillOthers, lists, screen, ClientPC, Holding
<1>7. CASE LockDesktop(c)
  BY <1>7, LockDesktopDesktop
<1>8. CASE Enter(c)
  BY <1>8, AuthenticatedDesktop, DesktopInitFailsDesktop DEF Enter
<1>9. CASE EndSession(c) \/ UpdateThreadEnds(c)
  BY <1>9, OtherDesktop DEF EndSession, UpdateThreadEnds, lists, screen, ClientPC, Holding
<1>10. CASE RemoveClient(c)
  BY <1>10, RemoveClientDesktop
<1>11. CASE RemoveDesktop(c) \/ NotifyDisconnect(c)
  BY <1>11, RemoveDesktopDesktop, NotifyDisconnectDesktop
<1>12. CASE Exit(c)
  BY <1>12, ExitDesktop
<1>. QED
  BY <1>1, <1>2, <1>3, <1>4, <1>5, <1>6, <1>7, <1>8, <1>9, <1>10, <1>11, <1>12
  DEF ClientStep

LEMMA NextDInv == ~MayDestroy /\ DInv /\ [Next]_vars => DInv'
<1>. SUFFICES ASSUME ~MayDestroy, DInv, [Next]_vars PROVE DInv'
  OBVIOUS
<1>1. IInv' /\ Alive'
  BY NextIInv, StaysAlive DEF DInv, IInv
<1>2. ASSUME UNCHANGED <<auth, clientmap, desktop, desktopLock, pc, buffer>>
      PROVE  DesktopInv'
  BY <1>2 DEF DInv, DesktopInv
<1>3. DesktopInv'
  <2>1. CASE UNCHANGED vars
    BY <1>2, <2>1 DEF vars, lists, screen, client
  <2>2. CASE DesktopStep
    BY <1>2, <2>2 DEF DesktopStep, WantWalk, BeginWalk, EndWalk, ProbeUse, KillClient,
                      ProbeRead, lists, screen, client
  <2>3. ASSUME NEW k \in Controllers, ControlStep(k) PROVE DesktopInv'
    <3>1. ~LockToFree(k) /\ ~FreeDesktop(k)
      BY DEF LockToFree, FreeDesktop, DInv, Alive
    <3>2. UNCHANGED <<auth, clientmap, desktop, desktopLock, pc, buffer>>
      BY <2>3, <3>1
      DEF ControlStep, Listen, BeginKillAll, BeginShutDown, BeginDestroy, BeginKill,
          KillAuthClients, KillUnauthClients, WaitUntilAuthEmpty, WaitUntilUnauthEmpty,
          StopListener, lists, screen, client
    <3>. QED BY <1>2, <3>2
  <2>. QED BY <2>1, <2>2, <2>3, ClientDesktop DEF Next
<1>. QED BY <1>1, <1>3 DEF DInv

\* While no destructor runs, the desktop and its lock stay in order.
THEOREM DesktopInvariance == ~MayDestroy /\ Spec => []DInv
<1>. SUFFICES ASSUME ~MayDestroy PROVE Spec => []DInv
  OBVIOUS
<1>1. DInv /\ [Next]_vars => DInv'
  BY NextDInv
<1>. QED BY InitDInv, <1>1, PTL DEF Spec

\* A client that is authenticated has the buffer of the desktop that exists,
\* however clients come and go and whoever kills them.
THEOREM BuffersAreDesktops == ~MayDestroy /\ Spec => []BufferIsDesktop
<1>. SUFFICES ASSUME ~MayDestroy PROVE Spec => []BufferIsDesktop
  OBVIOUS
<1>1. DInv => BufferIsDesktop
  <2>. SUFFICES ASSUME DInv, NEW c \in Clients,
                       pc[c] = "running" \/ (id[c] \in auth /\ Listed(c))
                PROVE  desktop # 0 /\ buffer[c] = desktop
    BY DEF BufferIsDesktop
  <2>1. id[c] \in auth /\ clientmap[id[c]] = c
    BY DEF DInv, IInv, Owned, Using, Listed, GetClient
  <2>. QED BY <2>1 DEF DInv, DesktopInv
<1>. QED BY DesktopInvariance, <1>1, PTL

\* The desktop exists exactly while somebody is authenticated.
THEOREM DesktopsHaveClients == ~MayDestroy /\ Spec => []DesktopOnlyWithClients
<1>. SUFFICES ASSUME ~MayDestroy PROVE Spec => []DesktopOnlyWithClients
  OBVIOUS
<1>1. DInv => DesktopOnlyWithClients
  BY ServerAssumption DEF DInv, DesktopInv, Holding, DesktopOnlyWithClients
<1>. QED BY DesktopInvariance, <1>1, PTL
-----------------------------------------------------------------------------
(***************************************************************************)
(* The sleep in WaitUntilAuthEmpty, with one controller at a time.  Of two *)
(* sleepers the signal of the last client wakes one only, and the other    *)
(* sleeps on although the list is empty: the property is not true of them. *)
(***************************************************************************)
OneController == \A j, k \in Controllers : j = k

Asleep(k) == kpc[k] \in {"asleepAuth", "asleepUnauth"}

SleepInv ==
    /\ waiters # << >> => \E k \in Controllers : waiters = <<k>> /\ Asleep(k)
    /\ \A k \in Controllers : Asleep(k) => waiters = <<k>>
    /\ AuthSleeperHasReason

\* What touches neither the controllers nor the end of the list keeps them.
LEMMA SameSleep ==
  ASSUME SleepInv, UNCHANGED <<kpc, waiters>>, auth # {} => auth' # {}
  PROVE  SleepInv'
  BY DEF SleepInv, Asleep, AuthSleeperHasReason

\* The one sleeper is woken by every client that leaves.
LEMMA RemoveClientSleep ==
  ASSUME TypeOK, SleepInv, NEW c \in Clients, RemoveClient(c)
  PROVE  SleepInv'
<1>1. SignalQuit
  BY DEF RemoveClient
<1>2. CASE waiters = << >>
  BY <1>1, <1>2 DEF SignalQuit, control, SleepInv, Asleep, AuthSleeperHasReason
<1>3. CASE waiters # << >>
  <2>1. PICK k \in Controllers : waiters = <<k>> /\ Asleep(k)
    BY <1>3 DEF SleepInv
  <2>2. Head(waiters) = k /\ Tail(waiters) = << >>
    BY <2>1
  <2>3. /\ waiters' = << >>
        /\ \A j \in Controllers :
              kpc'[j] = IF j = k THEN (IF kpc[k] = "asleepAuth" THEN "waitAuth" ELSE "waitUnauth")
                                 ELSE kpc[j]
    BY <1>1, <1>3, <2>2 DEF SignalQuit, TypeOK
  <2>4. \A j \in Controllers : Asleep(j) => j = k
    BY <2>1 DEF SleepInv
  <2>5. \A j \in Controllers : ~Asleep(j)'
    BY <2>3, <2>4 DEF Asleep
  <2>. QED BY <2>3, <2>5 DEF SleepInv, Asleep, AuthSleeperHasReason
<1>. QED BY <1>2, <1>3

\* Every other step of a client leaves the controllers alone and takes nobody
\* off the list of the authenticated.
LEMMA ClientSleep ==
  ASSUME TypeOK, SleepInv, NEW c \in Clients, ClientStep(c)
  PROVE  SleepInv'
<1>1. CASE RemoveClient(c)
  BY <1>1, RemoveClientSleep
<1>2. CASE ~RemoveClient(c)
  <2>1. UNCHANGED control /\ (auth # {} => auth' # {})
    BY <1>2
    DEF ClientStep, AddClient, RefuseClient, Handshake, HandshakeFails, HandshakeDone,
        RefuseAllCheck, ExclusiveCheck, KillOthers, LockDesktop, Enter, Authenticated,
        DesktopInitFails, EndSession, UpdateThreadEnds, RemoveDesktop, NotifyDisconnect,
        Exit, lists
  <2>. QED BY <2>1, SameSleep DEF control
<1>. QED BY <1>1, <1>2

\* The one controller goes to sleep only after it has seen the list not empty.
LEMMA ControlSleep ==
  ASSUME OneController, TypeOK, SleepInv, NEW k \in Controllers, ControlStep(k)
  PROVE  SleepInv'
<1>1. CASE Listen(k)
  BY <1>1, SameSleep DEF Listen, lists, control
<1>2. ASSUME ~Asleep(k), NEW l \in ControlPC \ {"asleepAuth", "asleepUnauth"},
             kpc' = [kpc EXCEPT ![k] = l], UNCHANGED <<waiters, auth>>
      PROVE  SleepInv'
  <2>1. kpc'[k] = l /\ \A j \in Controllers : j = k
    BY <1>2 DEF TypeOK, OneController
  <2>2. waiters = << >>
    BY <1>2, <2>1 DEF SleepInv
  <2>. QED BY <1>2, <2>1, <2>2 DEF SleepInv, Asleep, AuthSleeperHasReason
<1>3. ASSUME ~Asleep(k), NEW l \in {"asleepAuth", "asleepUnauth"},
             kpc' = [kpc EXCEPT ![k] = l], waiters' = Append(waiters, k),
             auth' = auth, l = "asleepAuth" => auth # {}
      PROVE  SleepInv'
  <2>1. kpc'[k] = l /\ \A j \in Controllers : j = k
    BY <1>3 DEF TypeOK, OneController
  <2>2. waiters = << >>
    BY <1>3, <2>1 DEF SleepInv
  <2>3. waiters' = <<k>>
    BY <1>3, <2>2
  <2>. QED BY <1>3, <2>1, <2>3 DEF SleepInv, Asleep, AuthSleeperHasReason
<1>4. CASE BeginKillAll(k) \/ BeginShutDown(k) \/ BeginDestroy(k)
  BY <1>2, <1>4 DEF BeginKillAll, BeginShutDown, BeginDestroy, Asleep, ControlPC, lists
<1>5. CASE BeginKill(k) \/ KillAuthClients(k) \/ KillUnauthClients(k)
  <2>1. PICK l \in {"closeAuth", "closeUnauth", "idle", "killUnauth", "waitAuth"} :
           kpc' = [kpc EXCEPT ![k] = l]
    BY <1>5 DEF BeginKill, KillAuthClients, KillUnauthClients, TypeOK
  <2>2. ~Asleep(k) /\ UNCHANGED <<waiters, auth>>
    BY <1>5 DEF BeginKill, KillAuthClients, KillUnauthClients, Asleep, lists
  <2>. QED BY <1>2, <2>1, <2>2 DEF ControlPC
<1>6. CASE WaitUntilAuthEmpty(k)
  <2>1. CASE auth = {}
    BY <1>2, <1>6, <2>1 DEF WaitUntilAuthEmpty, Asleep, ControlPC, lists
  <2>2. CASE auth # {}
    BY <1>3, <1>6, <2>2 DEF WaitUntilAuthEmpty, Asleep, lists
  <2>. QED BY <2>1, <2>2
<1>7. CASE WaitUntilUnauthEmpty(k)
  <2>1. CASE unauth = {}
    <3>. DEFINE l == IF task[k] = "Destroy" THEN "lockDesktop" ELSE "stopListener"
    <3>1. l \in ControlPC \ {"asleepAuth", "asleepUnauth"}
      BY DEF ControlPC
    <3>2. ~Asleep(k) /\ kpc' = [kpc EXCEPT ![k] = l] /\ UNCHANGED <<waiters, auth>>
      BY <1>7, <2>1 DEF WaitUntilUnauthEmpty, Asleep, lists
    <3>. HIDE DEF l
    <3>. QED BY <1>2, <3>1, <3>2
  <2>2. CASE unauth # {}
    BY <1>3, <1>7, <2>2 DEF WaitUntilUnauthEmpty, Asleep, lists
  <2>. QED BY <2>1, <2>2
<1>8. CASE StopListener(k) \/ LockToFree(k) \/ FreeDesktop(k)
  BY <1>2, <1>8 DEF StopListener, LockToFree, FreeDesktop, Asleep, ControlPC, lists
<1>. QED
  BY <1>1, <1>4, <1>5, <1>6, <1>7, <1>8 DEF ControlStep

\* One controller sleeps in WaitUntilAuthEmpty only while somebody is
\* authenticated: between its test of the list and its wait no client can
\* slip out unnoticed, however many clients come and go.
THEOREM SleepersHaveReason == OneController /\ Spec => []AuthSleeperHasReason
<1>. SUFFICES ASSUME OneController PROVE Spec => []AuthSleeperHasReason
  OBVIOUS
<1>1. Init => SleepInv
  BY DEF Init, SleepInv, Asleep, AuthSleeperHasReason
<1>2. TypeOK /\ SleepInv /\ [Next]_vars => SleepInv'
  <2>. SUFFICES ASSUME TypeOK, SleepInv, [Next]_vars PROVE SleepInv'
    OBVIOUS
  <2>1. CASE UNCHANGED vars
    BY <2>1, SameSleep DEF vars, lists, control
  <2>2. CASE DesktopStep
    BY <2>2, SameSleep DEF DesktopStep, WantWalk, BeginWalk, EndWalk, ProbeUse,
                           KillClient, ProbeRead, lists, control
  <2>. QED BY <2>1, <2>2, ClientSleep, ControlSleep DEF Next
<1>3. SleepInv => AuthSleeperHasReason
  BY DEF SleepInv
<1>. QED BY TypeCorrect, <1>1, <1>2, <1>3, PTL DEF Spec
=============================================================================
