# TLA+ models of the echoVNC / instantVNC server

This directory is the verification project of the server program in this
repository (`src/miniWinVNC` on top of `src/omnithread`): TLA+ modules of its
concurrent core, TLC configurations for small instances, and theorems checked
by TLAPS.  Line numbers are those of the commit it stands beside; which
definition models which lines is in `PROJECT.json` under `map`.

Contents: 1 the system, 2 the modules, 3 the runs, 4 fairness, 5 the proofs,
6 what the code does not keep, 7 what is not modelled, 8 the plan.

## 1. The system

A VNC server for Windows.  A *listener* thread accepts connections and makes a
*client* object with a *client thread* for each; that thread shakes hands and
then reads messages until the connection ends.  A *desktop* object, made for
the first authenticated client and deleted with the last, runs the *desktop
thread*, which polls and hooks the screen and tells every client what has
changed.  Each client that has asked for updates has an *update thread* that
encodes and sends them.  The window, service and pipe threads of the
application (here: *controllers*) start the listener, shut the server down and
delete it.

| component | state | operations | hard parts |
|---|---|---|---|
| omnithread (`nt.cpp`) | recursive mutex; per condition a linked list of waiting threads, a critical section, a semaphore per thread | lock, unlock, wait, timedwait, signal, broadcast | a time-out races a signal; pointers are unlinked from the middle; the semaphore must not carry a left-over signal |
| client registry (`vncserver.cpp`) | `m_unauthClients`, `m_authClients`, `m_clientmap`, `m_nextid`, `m_desktop`, `m_clientsLock`, `m_desktopLock`, `m_clientquitsig` | AddClient, Authenticated, RemoveClient, KillClient, Kill/WaitUntil…Empty, SockConnect, destructor | clients move between lists while loops kill and wait for them; the desktop is deleted while the next client is let in; one condition variable for two conditions |
| update gate of a client (`vncclient.cpp`) | `m_disable_protocol`, `m_updatethread`, `m_enable`, `m_active`, `m_signal`, `m_sync_sig`, the update lock | DisableProtocol, EnableProtocol, TriggerUpdateThread, run_undetached, Kill, the end of run | two threads nest disables with one count; the update thread may be sending, sleeping or dying; one update lock serves all clients |
| desktop thread (`vncdesktopthread.cpp`) | the changed region, the foreground window, the previous cursor and screen | the cycle (copies, grab, compare, tell), walks over all clients, polling, display change | walks some lists without the lock; is joined by a client thread that holds `m_desktopLock`; the display changes while updates are on their way |
| desktop, frame buffer (`vncdesktop.cpp`, `vncbuffer.cpp`) | main, back and cache buffers, hooks | CalcCopyRects, GrabRegion, CheckRegion, CopyRect, Startup, Shutdown | a copy goes to the back buffer unseen; order of start-up, failure in the middle |
| update trackers and regions (`rfbUpdateTracker.cpp`) | changed, copied and cached regions, one copy vector | add_changed, add_copied, add_cached, get_update, flush_update | a copy whose source has changed; a copy of a copy |
| updates of a client (`vncclient.cpp`) | `m_update_tracker`, `m_incr_rgn`, the local update of the update thread, `m_NewSWUpdateWaiting` | the request handler, run_undetached, SendUpdate, SetNewSWSize | an update is taken under one lock and encoded under a later one; a request that finds nothing; a new size in between |
| socket (`vsocket.cpp`) | send queue, timeouts | ReadExact, SendExact, queueing | partial sends, a timeout in the middle of a message |
| file transfer (`vncclient.cpp`) | per direction a flag, a handle and its file pointer; two buffers for both directions; the checksums of the receiver and an offset into them; posted messages in the window's queue | the rfbFileTransfer handlers, ReceiveFileChunk, FinishFileReception, SendFileChunk, FinishFileSending | an upload lives on a chain of posted messages that aborts and new requests cut and cross; the offset must follow the file pointer; every way out must close and free |
| text chat (`TextChat.cpp`) | the dialog, the text in progress | SendTextChatRequest, SendLocalText | sends from the dialog's thread |
| encoders (`vncencode*.cpp`) | per client: CoRRE's size and statistics, the queue of Zlib, Ultra and ZlibHex, LastRect, the streams of the compressor | GetNumCodedRects, EncodeRect, LastRect | the number of rectangles is counted before the lock and by other code than sends them; rectangles are divided again and again; pieces wait in a queue |
| proxy connection (`EchowareDll.cpp`) | state of each proxy | connect, disconnect, retry | callbacks of an external DLL |
| application shell (`winvnc.cpp`, `vncmenu.cpp`, service, dialogs) | window state, pipes | start, shut down, add a client | several threads shut the server down |

Interactions: the desktop thread takes `m_clientsLock` and, under it, the update
lock of each client, and may sleep in EnableUpdates with the first (UpdateLocalFormat,
SetNewSWSize); who kills clients sends to each with that lock held; a client thread takes `m_desktopLock` before `m_clientsLock`
in Authenticated and RemoveClient, and in the latter keeps the first after it has
released the second, while it joins the desktop thread; the quit of a client signals `m_clientquitsig`, on which
controllers sleep with `m_clientsLock` released; a client thread starts an upload
and the window thread goes on with it, one chunk for each message that the last
chunk has posted, both under the update lock.  A change of the screen comes to the
desktop thread as a hint, goes under the update lock through the buffers into the
tracker of every client, is taken out by the client's update thread when the
viewer has asked for it, and is encoded from the back buffer when that thread has
the lock again.

What makes each part correct: omnithread's condition is the one its header
describes; the registry never follows an id to nothing, never shows a client a
desktop that is gone, and lets killed clients leave; the gate keeps an update
thread from sending while it is closed, counts correctly and does not hang; a
file transfer gives the receiver the sender's file and ends without leaving a
handle, a buffer or a running flag behind; no change of the screen is lost on its
way to a viewer's picture; a message has as many rectangles as it announces, and
however an encoder divides them they cover what has changed, once.

## 2. The modules

| module | models | state and actions |
|---|---|---|
| `CondVar` | the condition variable as `omnithread.h` promises it | a queue of waiters, those woken and those expired; Wait, Timeout, Signal, Broadcast, Return |
| `OmniCondition` | `omni_mutex` and `omni_condition` of `nt.cpp` | `waiting_head`, `cond_next`, `cond_prev`, `cond_waiting`, `cond_semaphore` under the source's names; wait and timedwait are cut where another thread can come in: after the list is joined, after the mutex is released, between the end of the timed wait and the look at `cond_waiting`, before the second wait |
| `VncServer` | `vncserver.cpp`'s registry and life cycle, the listener, the handshake of a client as far as it decides about the lists, the desktop's existence, the desktop thread's walks over the clients | both locks are variables, with their holder; RemoveClient is LockDesktop, RemoveClient (the list), RemoveDesktop (the join) and NotifyDisconnect; each kill loop takes the lock in one action (BeginKill, ExclusiveCheck) and gives it back in another (KillAuthClients, KillUnauthClients, KillOthers), each walk of the desktop thread in BeginWalk and EndWalk; each wait loop is a test-and-sleep |
| `UpdateGate` | `vncclient.cpp`'s gate and update thread, and the desktop thread's walks | one action per critical section of the update lock; sends and file transfers keep the lock over several steps |
| `FileTransfer` | the rfbFileTransfer messages that move one file, with delta transfer | one action per message the client thread takes, one for the window thread's SendFileChunk, one for the setting, and a viewer (external); the two directions of the connection are queues |
| `UpdateFlow` | the cycle of the desktop thread, CalcCopyRects, the buffers, the update trackers, the request handler, the update thread and SendUpdate, the display change | one action per critical section of the update lock: TakeHint, UpdateWanted, Cycle, DisplayChange, TellSize; TakeUpdate, NothingToSend, SendNewSize, SendUpdate per client; Request is the handler of what the viewer asks; Paint and MoveWindow are the desktop's user |
| `UpdateMessage` | SendUpdate's count and its message, and how Raw (and all that make one rectangle of one), CoRRE, Zlib, Ultra, ZlibHex and Tight count, divide, queue and flush rectangles | `todo` is what the recursion and the loops of the encoder have still to do; Count, SendHeader, Encode, ScanRow, ScanEnds, SendSolid, SendPiece, QueuePiece, EndMessage are the update thread's, CursorMoves, ForgetSettings, SetEncoding, RestoreSettings, DisableCache what others change meanwhile |
| `MC_*` | constants for TLC | model values and the symmetry set |
| `*_proofs`, `FileTransfer_delivery`, `UpdateFlow_picture` | theorems about the module named | see 5 |

What is abstracted.  In `VncServer` a client id is a number below `MaxClients`
(128 in the code, counted from `m_nextid`; the model tries every free id, a
superset of the order of the search), a desktop is the number of its making (so
that a buffer of an older one can be told apart), a handshake is *fails* or *is
done with shared or not*, and the connection priorities are the four of the code.
A section of `m_clientsLock` that waits for nothing is one action that needs the
lock free; it is kept from one action to another by the desktop thread's walks and
by who sends while it kills.  Left out are the walks of GetScreenInfo and of the
clipboard, which wait for nothing, the kill by the desktop thread that loses its
desktop (`vncdesktopthread.cpp:507`, 515: BeginKillAll has the same effect), and
the send of Kill where Init of the desktop fails (`vncserver.cpp:429`), which
DesktopInitFails does in its one step.  UpdateThreadEnds is the return of
DisableProtocol, Kill and join at the end of a client thread.  In `UpdateGate`
what there is to send is one flag per client, and a client is there from
Authenticated to RemoveClient; Desktop stands for whoever walks the list under
`m_clientsLock`. Fields that no guard reads are left out.  In `FileTransfer` a
file is a sequence of blocks and `adler32` of a block is the block itself, so
equal sums of different blocks are not considered; a write or a read may fail at
any time; a packet whose payload stays unread ends the session at once
(`LoseSync`), where the code takes the bytes for messages until it meets one it
does not know.  The update lock is not a variable: each handler keeps it from its
first read to its last send.  How many bytes were transferred, names and times of
files, and impersonation are left out.  The viewer is as the handlers expect it:
one transfer at a time, a block for each block of its file, an abort whenever it
likes.

In `UpdateFlow` the screen is one row of cells.  A cell is a block of pixels that
CheckRect compares as a whole, its content a number, and -1 is what a new buffer
holds.  CheckRect does not look at every pixel of a block (section 6); the model
takes its answer as right.  A region is a set of cells, and "area" the number of
cells of its bounding rectangle.  A picture is what the viewer will show once it
has read what was sent, so the connection is not in the state.  `crossed` is a
history variable: the clients for which a copy or a cached cell has been decided
while another change of the same cells, or a whole new picture, was on its way,
which the code does not guard against (section 6).  The cursor, the number of rectangles, polling and
scaling are left out.

In `UpdateMessage` a rectangle is a record of corner and size and a pixel a pair;
bytes are left out, so whether a piece is queued, compressed or can be compressed
is a choice, and so is whether a change of CoRRE's size has paid.  The picture
under an update has any content, of which only Tight's search takes notice; it is
chosen when the message begins, for the back buffer is changed under the same lock.
The search of FindBestSolidArea and ExtendSolidArea is given by what it finds, the
largest solid area of whole tiles and its maximal extension, the order of the
directions included.  Positions are those of the viewer; with scaling the
server's rectangles are multiples of them.  There are two history variables.
`disturbed`: a setting that had been counted on has changed before the lock was
taken, or SendCacheZip has failed, or a queue held pieces of an earlier message.
`recut`: the limits of the pieces have changed since the count, that is Tight's
level or LastRect (rfbSetEncodings sets both without a lock, so also in the middle
of the rectangles), or CoRRE's size, which begins anew when the encoder is made
anew.  `level` is `m_compresslevel`, and a rectangle in `todo` carries the level
that the code has read into a local variable for it.  `asking` says where the
client thread is in rfbSetEncodings: ForgetSettings is what it does before
DisableProtocol, SetEncoding the choice of the encoder under the update lock,
RestoreSettings the pseudo-encodings the viewer lists after it, which come back in
one step.  `stray` are rectangles whose bytes are in the queue of Zlib or Ultra
while Init has forgotten their number (`vncEncodeZlib.cpp:121`); that their bytes
may also fill the queue earlier is left to the choice that QueuePiece has anyway.
The message of a new size (`vncclient.cpp:3047`) is `UpdateFlow`'s, a viewer asks
for the same encodings each time, with its encoder before its pseudo-encodings, and
no message begins between SetEncoding and RestoreSettings (Count): the gate is
closed.  Count reads every setting once, where the code reads them for one
rectangle after the other (3071, 3090, 3104).

`Slip:` operators stand before the definitions they distort.  They are
plausible mistakes in the code, used to see that a property notices them.

## 3. The runs

| run | instance | checks |
|---|---|---|
| `OmniCondition_safety` | 3 threads, not nested | types; the linked list is intact; semaphores are in step with signals; the second wait never blocks; refinement of `CondVar!Spec` |
| `OmniCondition_live` | 2 threads | refinement of `CondVar!LiveSpec`: waits that were signalled return, those that a broadcast woke, too, and timed waits expire |
| `VncServer_safety` | 2 clients, 1 controller, priorities 0–3, Init of the desktop may fail, the display may change, the listener may restart | buffers are those of the desktop; the desktop goes with the last client |
| `VncServer_destroy` | 3 clients for 2 usable ids, priority 1, the display may change, the destructor | types, lists sound and sleepers with reason while ids run out, are reused, and the server is deleted |
| `VncServer_live` | 2 clients, 1 controller, priority 0 (a newcomer kills), the desktop thread walks | killed and leaving clients go if walks, sends under the lock and the waits for update threads end: no deadlock of the two locks and the join |
| `UpdateGate_safety` | 2 clients and Desktop, all aims, both walks | types; the count is the depth; `m_enable` agrees with it; a closed gate is closed; a dying thread is not triggered |
| `UpdateGate_live` | 2 clients and Desktop, pixel-format changes, changed regions | DisableProtocol returns; EnableProtocol returns once there is nothing to send |
| `FileTransfer_safety` | files of up to 2 blocks out of 2 contents, 2 messages in the connection, a stale posted message when the viewer asks again | types; the chain of posted messages; buffers and handles of a running transfer; nothing left open; the file arrives, in both directions |
| `FileTransfer_live` | files of up to 1 block, 1 message in the connection | transfers end; offers are answered |
| `UpdateFlow` | one viewer with CopyRect and cache that asks for parts too, widths 1 and 2, a window of width 1, contents may return, 2 events on the desktop | types; the desktop thread loses no change; a cell about which nothing is under way is right in the picture; requests and new sizes are kept; a viewer that keeps asking comes to show the screen |
| `UpdateMessage` | 8 viewers, one for each way to count; 5 updates in a picture of 4x3 pixels, of 2 colours where Tight searches; tiles of 2, strips of 8 pixels, a queue of 2, two levels of Tight with different limits, at most 2 stray rectangles | types; as many rectangles as announced; exactly the changed pixels arrive, once, and no queue keeps any; solid areas are solid; every message ends |
| `UpdateGate_orphan` | the smallest that shows it | an expected violation, see 6 |

Bounds, and why they are enough.  The list of waiters needs three threads for a
withdrawal from its middle; a nested mutex (`MaxDepth` above 1) is excluded
because wait unlocks it once only (see 6).  Two clients and one controller show
every pair of steps that share a list; a third client adds only the lack of
ids, which is why `VncServer_destroy` has it.  Each client thread has one life
(there is no reuse of a thread in the code; reuse of ids is there), and a proof
carries `ListsSound` to every number of clients and to a listener that restarts.  In
`UpdateGate` the count of a client is bounded by the threads that can disable it,
its own and Desktop, so no bound is needed; two clients show the effects of the
shared lock.  `m_desktop` counts its makings: at most one per client.
`VncServer_live` has the priority 0 at which a newcomer sends under `m_clientsLock`,
and leaves out what adds no lock (`DisplayChanges` is the KillClient of a walk that
is under way anyway, and the look without a lock).
Deadlock is not checked, because all clients may have gone and the server have
been shut down, and the viewer may have left.  In `FileTransfer` two blocks are
needed for an offset that falls behind and one old block for a tail that is not
cut off; two contents for a block that differs; two messages in the connection
for an abort that overtakes nothing but meets packets on the way.  The number of
posted messages has no bound: `MaxPosted` only keeps the viewer from asking again
while there are more, and one stale message is enough to cross a new upload.

In `UpdateFlow` an event is a painted cell, a moved window, a display change or
clipboard text (`MaxEvents`).  Two cells and a window of one are a copy with a
source; a copy that overlaps its source needs three cells, and merged copies three
events.  These larger instances hold too, they only take longer than a run
should: widths {2} with 3 events, {1,2} with 3, {2,3} with 3 and whole requests,
{3} with 2; viewers that ask again before they are answered; viewers that refresh
({2}, 7.1 million states); two viewers with one or both of them copying.

In `UpdateMessage` the constants of the encoders shrink with the picture, so that
each limit is below, at and above the size of some rectangle: strips that do not
divide the height, tiles cut off by the edge, solid areas that grow up and to the
left, strips sent in the middle of Tight's search, a queue that overflows, and an
announced number that is 2^16 - 1 by chance or does not fit (`MaxRects` is 9).  Of
levels two are enough, the one the viewer asks for and the 6 it falls back to, with
limits that differ.  `MaxStray` bounds what rfbSetEncodings, sent again and again,
leaves in a queue that a broken message did not flush.  A
picture of 4x3 is the smallest in which an area found in the second row of tiles
grows upwards and then, higher than before, sideways.

`DownloadDelivers`, `LiveBuffers` and `NothingLeftOpen` exclude histories in which
the owner has forbidden file transfer in the middle of a download (`refused`), and
`UploadDelivers` and `TransfersEnd` those in which a read has failed
(`readFailed`): section 6 says what happens in them.  `CountIsKept`, `PixelsArrive`
and `SentOnce` exclude `disturbed` histories, the first also `recut` ones, scaling
and numbers of more than 16 bits, the last Tight with LastRect: section 6 again.  `SentOnce`
also allows for pixels that two rectangles of an update have (`GivenTwice`), for
the trackers may give one as changed and as cached (`rfbUpdateTracker.cpp:200`);
one of the updates has such rectangles.

## 4. Fairness

A thread inside a library or server function goes on when it can (weak
fairness); a lock that is free again and again is obtained in the end (strong
fairness on the steps that need a lock: Windows' critical sections and the list
of waiters are first-come first-served in the large, and nobody polls a lock
here).  The peer ends a handshake, because `SetTimeout(30000)` ends the read
otherwise; a send or a file-transfer message ends, because the socket breaks or
the peer reads.  The client thread and the window thread obtain the update lock
in turn (strong fairness of both: either may be kept waiting by a full
connection); the viewer reads what it gets, and sends the file it has offered to
the end or aborts.  A read on a socket the server has closed returns.
Of three waits in `VncServer` nothing is assumed: that the desktop thread comes back
from a walk with `m_clientsLock` (EnableUpdates may sleep for ever, section 6), that
the send of a kill ends with that lock held, and that the update thread of a leaving
client ends.  That they do is the premise `GivenBack` of `LeavingClientGoes`: what is
left to show is that the locks themselves make no circle.  In `UpdateFlow` the desktop thread empties its message queue (strong fairness of
TakeHint: it goes on with other messages between), sees in its idle time that an
update is wanted, and ends its cycle; an update thread that can be woken is, and
SendUpdate ends.  In `UpdateMessage` only SendUpdate's own steps are fair (weakly:
it has the lock, and sends end as above).  Viewers owe nothing: `EventuallySame` is about one whose whole
picture is asked for time and again.  Nothing
else is assumed: nobody has to connect, ask, leave, change the screen, signal or
shut down.  EnableProtocol returns only when the update thread runs out of
updates, so `EnableReturnsWhenQuiet` has that as its premise.

## 5. The proofs

`tlapm` checks all of them; they hold for every value of the constants that
satisfies the module's assumption (`Clients` need not even be finite).

- `OmniCondition_proofs`: `TypeCorrect`, `ListStaysIntact`, `SemaphoresInStep`,
  `SecondWaitNeverBlocks`, `Refinement`.  The pointers are handled by way of one
  sequence: `ChainInv` says that there is a sequence which `waiting_head`,
  `cond_next` and `cond_prev` spell in both directions, and that it holds exactly
  the threads marked `cond_waiting`, each once.  A wait appends to it, a signal
  takes its head, a timed-out wait an element out of its middle; `ListIntact`
  says no more than this.  There is only one such sequence (`ChainUnique`, by the
  first place where two would differ), so it is a function of the state, and it is
  the queue of `CondVar` in the refinement mapping.  `SemaphoreInStep` needs
  besides that a thread is on the list only from its Enqueue to the Unlink or Pop
  that takes it off (`WaitInv`).  `Refinement` then goes action by action.  Its
  premise is `[]WaitsUnnested`: a thread that waits with the recursive mutex held
  twice keeps it (section 6), which no condition variable does.
  `RefinementUnnested` is the same with the premise replaced by `MaxDepth = 1`.
- `VncServer_proofs`: `TypeCorrect` and `ListsAreSound` from `IInv`, which ties
  each program counter of a client to the list its id may be on and to
  `m_clientmap`; `BuffersAreDesktops` and `DesktopsHaveClients` from `DInv`,
  which adds the lock (a client's `pc` is in `Holding` exactly for the holder of
  `m_desktopLock`: from LockDesktop to the end of Authenticated or RemoveClient), and
  needs `~MayDestroy`: the destructor frees the desktop
  without regard to clients (see 6).  `Alive` states that the destructor's
  program points are not reached then.  `SleepersHaveReason` assumes that there is
  one controller: of two that sleep the last client wakes one (section 6), and for
  the other the property is false.  It goes by `SleepInv`, which says that who
  sleeps is the one in `waiters`.
- `UpdateGate_proofs`: `TypeCorrect`, `CountIsRight`, `FlagFollowsCount`,
  `GateHolds`, `DyingIsQuiet`.  The count is the sum of two parts, the client's
  own disable and Desktop's (`Depth`); `SenderAwaited` is the strengthening of
  `GateClosed`: an update thread that still sends behind a closed gate is
  awaited by a thread that sleeps in DisableProtocol.  `CountIsRight` then
  turns the sum into the cardinality that the property speaks of.
- `FileTransfer_proofs`: `TypeCorrect` from `IInv`, which adds to the types that a
  file that is open, offered, sent or received exists; lemmas say what writing,
  cutting off and summing a file yield, and what the messages carry.
  `ChainNeverBreaks` is inductive given `posted \in Nat`: a chunk posts the next
  one in the very step that uses up its own message, and everything else that
  takes a message leaves no upload running.
- `FileTransfer_delivery`: `BuffersAreLive`, `NothingIsLeftOpen`,
  `DownloadsDeliver`, `UploadsDeliver`.  The server has no state for the protocol
  but its flags, so the invariant `Order` ties them to what is in the connection:
  `Modes` (a download, a file opened for an upload, a running upload, or nothing,
  with the buffers and handles of each) and `Shape` (a download has packets up to
  an end or an abort before it, the answer to an offer or a request is the last
  message and nothing else is under way, a header finds its file open and no
  upload running).  On it rest `DownloadInSync` and `UploadInSync`: up to the
  receiver's file pointer the files agree, the packets in the connection carry the
  blocks between the two pointers, one each, or say *Here* of a block the two
  files share, and checksums are right for what has not been written.  At the end
  of the file the pointers meet, and SetEndOfFile does the rest.

- `UpdateFlow_proofs`: `Types` adds to the types that a copy, in a tracker or on its
  way, reads from inside the buffers, without which a step may leave them;
  `TypeCorrect` is its first half.  `DesktopLosesNothing` is inductive with the
  types: a copied cell is not compared, but it is in the next cycle's region.
  `RequestsAreKept` goes by `RegionHeld` (what the update thread took is in `clip`
  until it is answered) and `SizeIsOnItsWay` by `TheRightSize` (only the newest
  size is ever in `newsize` of a client that has been told).
- `UpdateFlow_picture`: `QuietPicturesAreRight`, that is `QuietCellIsRight`.
  `BaseInv` holds in any case; `NoCopyBehind` in it says that the tracker of a
  client whose update has left holds no copy unless it is `crossed`, which is what
  lets the two halves be applied one after the other.  Then the argument is made
  twice, for the assumption leaves two cases: no viewer has a cache, or the only
  one has.  Without a cache, the invariant follows what each viewer would show if
  it were sent first what its update thread holds and then its whole tracker
  (`After`): in every cell that is not sent as changed it is the back buffer
  (`PictureFollows`).  With a cache, the invariant has both buffers of the server
  and both of the viewer in it (`Mirrors`): what a cell would show is the back
  buffer's, what the viewer would keep of it is the cache buffer's, and of a changed
  cell it must keep the right content already.  A cell may be blank in the cache
  buffer, which then promises nothing: so are the cells of a copy, and all cells
  while the viewer is to be renewed (`CacheFollows`).  The lemmas say what adding
  a change, a copy, or a copy that continues another does to `After`, inside of the
  copy (`AddAgrees`) and outside (`CopyElsewhere`), and what flush_update leaves.

- `UpdateMessage_proofs`: `MessagesCover` and `SolidAreasAreSolid`, for any size of
  picture, any updates and any limits that leave a piece at least one pixel
  (`MaxRectWidth <= MaxRectSize`, as on every line of `m_conf`).  The invariant
  says that every changed pixel is shown, dropped, queued or still to be done
  (`Covered`), and that every job lies in the rectangle it came from (`Sound`),
  which is what makes the fall back of a search harmless.  That the queue is empty
  in the end needs the count made before: if anything can be queued, the number of
  rectangles is "until the last" (`Counted`, `CountMarks`), so LastRect is called;
  and that nothing is stray in a message that is not disturbed, and no cache is
  enabled while the settings are taken back.  None of it depends on the levels,
  which may change at any time.
  Below that are the lemmas of cutting a rectangle, of the four rectangles around
  a solid area, and of sequences of jobs.

  `CountStands` is `CountIsKept`.  The invariant (`Kept`) says that from the count
  to the end what has gone out and what the jobs will still make (`Remain`, a
  running total over `todo`) add up to what was counted, and that no rectangle is
  searched or queued (`Plain`), as long as the number is not "until the last".
  That is where the formulas of GetNumCodedRects meet the loops that divide:
  `CutCounts` shows, with the two lemmas on rounding up below it, that a rectangle
  has one piece more than the parts that a cut leaves, with the limits of every
  encoder.  The limits are those of the count as long as the message is not `recut`
  (`LimitsStand`); of the others the theorem says nothing, for there the numbers do
  differ (section 6).  `Numbers` adds that a message ends with LastRect exactly if "until the
  last" was announced, which takes `MaxRects > 1` (the code has 2^16).

  `NothingTwice` is `SentOnce`.  `Once` says of each pixel that only one rectangle
  of the update has that it is in one place: shown, in the queue, or in one of the
  jobs; `CutOnce` says that the piece and the parts a cut leaves are apart, and
  `ReplacedOnce` follows it through a queue that is flushed before or after the
  piece is added.  `TypesHold` is `TypeOK`: every part is a rectangle inside the
  picture and not empty.

Only model-checked: the liveness properties, `ImplementsLiveCondVar` among them,
which are outside the prover's reach.  Nothing
is proved of `VncServer` with two sleeping controllers, nor of `FileTransfer` after
a message of a running download was refused or, for uploads, a read has failed:
there the properties are false.

## 6. What the code does not keep

A run that is expected to find a violation, of something a comment says:

- `UpdateGate_orphan` — a client is removed and deleted with a live update
  thread: made by add_changed before a set-up that fails, or between the join
  of the old one and RemoveClient.
The models also reach the following, which no run states as a property.
Two clients that want exclusive access check the authenticated list before either
is on it (`vncclient.cpp:856`–873), and both stay.  A client thread kills the update
thread that the desktop thread waits for in EnableUpdates (275); the dying thread
breaks out of its loop without the broadcast (307), and the desktop thread sleeps
for ever with `m_clientsLock`.  Then the leaving client, and every other, waits for
that lock in RemoveClient (`vncserver.cpp:842`), with `m_desktopLock` held: nobody
leaves or comes in any more.  This is why `LeavingClientGoes` has `GivenBack` as its
premise.
Of two controllers that sleep on `m_clientquitsig` the last client wakes one
(`vncserver.cpp:879`), and the other sleeps on.  All_clients_initialalized and
IsClient (`vncserver.cpp:2076`, 2089) follow an id they read without the lock to
a client that has been removed (`ProbeRead`, a removal, `ProbeUse`).
Authenticated can move the last client off `m_unauthClients` without a signal,
so a controller in WaitUntilUnauthEmpty sleeps on.  A client that moves between
the lists while the destructor kills (`vncserver.cpp:264`) or waits (268) is not
killed or not waited for.  When vncDesktop::Init fails the client is on neither
list, and RemoveClient does not free its id.  A DisableProtocol that finds the
count above zero does not wait, so its caller may work while an update is still
being sent.  SendUpdate keeps the update lock of all clients while it writes to
one socket.  With `MaxDepth = 2` a thread that holds the mutex twice sleeps with
it held.  A packet that follows a failed write, or comes while file transfer is
forbidden, leaves its payload in the stream and so ends the session
(`vncclient.cpp:2166`, 3711).  Forbidden in the middle, a download keeps running
with its file open, and the next upload shares its buffers.  A read that fails
with no bytes makes SendFileChunk send packets of length 0 for ever
(`vncclient.cpp:3888`).  A client that leaves in the middle of a transfer leaves
its handles and buffers behind.

Of `UpdateFlow`, and excluded by `crossed`: an update that has left the tracker is
encoded later, under another lock (`vncclient.cpp:372`, 3139).  A cycle in between
copies a cell of it and changes it: the viewer gets the new content first and then
copies that.  The comparison that is to find wrong copies
(`vncdesktopthread.cpp:922`) is with the server's own copy, which is right.
Also, add_copied does not look at the cached cells (`rfbUpdateTracker.cpp:87`–155):
the viewer may copy a cell it has yet to swap in, and what was to be swapped in
where it copies to is swapped in after the copy, over it.  The server's cache runs
ahead of the viewer's when a cell is compared again before the viewer has taken it
(`vncbuffer.cpp:427`), and when one is compared while a new size or a whole new
picture is on its way to the viewer, whose cache then begins empty: a cached
rectangle of that cell would show what the viewer never had.  A partial request takes changes and leaves a copy behind
whose source they were.  A refresh makes the viewer's cache forget what the
server's keeps.

Of `UpdateMessage`, and excluded by its properties.  The cursor may move, and the
settings may be taken back or the cache disabled for another client's sake, between
the count and the lock: the number announced is then not the number sent
(`vncclient.cpp:3064`–3139).  So it is when Tight's level, LastRect or CoRRE's
encoder change on the way (`recut`).  "Prevent updates while the encoder is changed"
(`vncclient.cpp:1281`) comes after the changes: ten lines above it, the level of the
encoder at work goes to 6 and LastRect off, at once and without a lock
(`vncencodemgr.h:750`), and Tight divides a rectangle (`vncEncodeTight.cpp:428`) with
another line of `m_conf` than it was counted with (142).  Without `~recut` in
`CountIsKept` TLC finds such a message within a second.  For CoRRE it takes a
DisableProtocol that does not wait, because the desktop thread has disabled the
client already.  The number is sent in 16 bits; more rectangles than that are
announced wrongly.  With scaling, rectangles are counted at the server's size and
sent at the viewer's (3085, 3226), so CoRRE, Zlib and Tight announce too many.
Ultra and ZlibHex mark the last rectangle whether or not the viewer knows LastRect
(`vncEncodeUltra.cpp:126`).  SendCacheZip that fails to compress breaks the message
off after its header (3577).  Where compression gains nothing Ultra means to send
the queue as it is, but has set its length to 0 before (`vncEncodeUltra.cpp:360`,
369), and Zlib gives up the pieces of a queue it cannot compress: these pixels are
in `lost`.  Tight that finds no solid area after it has sent strips sends the whole
rectangle again (`vncEncodeTight.cpp:199`, 291).

Read in the code and not modelled.  An update that was taken before a display
change, for a size that stays, is encoded from new, smaller buffers
(`vncdesktopthread.cpp:469`, `vncclient.cpp:3042`).
EnableCache frees the cache buffer from a client thread without a
lock (`vncbuffer.cpp:1043`). TriggerUpdate may post between the desktop thread's
look at its queue and its sleep (`vncdesktop.cpp:445`,
`vncdesktopthread.cpp:407`), which the time-out of the wait makes good.  CheckRect
compares one in `m_nAccuracyDiv` pixels of a row and rotates the first, "so that
we don't always miss the same changed pixels" (`vncbuffer.cpp:385`), but
SetAccuracy, called in every cycle (`vncdesktopthread.cpp:722`), sets the rotation
back; for a block narrower than that it compares nothing, and for a small
rectangle it does not advance in the cache (402–431).  `DesktopPending` is
therefore about cells that CheckRect can tell apart.

## 7. What is not modelled

Cryptography and Windows logon, compression and other library code, window
procedures and dialogs, device input, service-manager calls, logging: no state
another component depends on, or the operating system's.  The remaining
components of section 1 are planned.  Outside `src/`, only what the modelled
code uses of Windows is assumed: a critical section, a semaphore with a timed
wait, a socket whose read returns when it is closed.

## 8. The plan

1. *done* — `CondVar`, `OmniCondition`, `VncServer`, `UpdateGate`,
   `FileTransfer`, `UpdateFlow`, `UpdateMessage` with their runs and proofs.
2. `AuthHosts` (`vncserver.cpp` 1509–1774): the blacklist with its times, the
   reading of the host list as an operator on sequences of entries against a
   reference definition, the query setting.
3. `Socket` (`vsocket.cpp`): queue and flush, exact reads, time-outs.
4. The rest of file transfer (`vncclient.cpp` 2227–2548: listings, commands) and
   text chat, on `Socket`: a chat message between the parts of a packet.
5. `DesktopThread` (`vncdesktop.cpp`, `vncdesktopthread.cpp`): start-up,
   its failures and its return signal, shut-down; polling, the cursor.
6. `OmniThread`: start, join, exit, the dummies of foreign threads.
7. The application's shut-down: controllers that both delete `m_socketConn`,
   composed with `VncServer`; proxy connection states.
8. Proofs: the invariants of the new modules.

Runs are few on purpose: a later module's run replaces one of section 6 when it
says more.
