----------------------------- MODULE UpdateFlow -----------------------------
(***************************************************************************)
(* The way of a change from the screen to the pictures of the viewers:     *)
(* the cycle of the desktop thread (miniWinVNC/vncdesktopthread.cpp, with  *)
(* CalcCopyRects of vncdesktop.cpp and the buffers of vncbuffer.cpp), the  *)
(* update trackers (rfbUpdateTracker.cpp), the update thread of a client   *)
(* and its SendUpdate, and the request handler (vncclient.cpp).            *)
(*                                                                         *)
(* The screen is one row of cells.  A cell stands for a block of pixels    *)
(* that CheckRect compares as a whole; its content is a number.  A region  *)
(* is a set of cells, and a picture what the viewer will show once it has  *)
(* read what was sent.  What happens under the one update lock, which is   *)
(* the m_update_lock of the desktop for every client, is one action.       *)
(***************************************************************************)
EXTENDS Integers, FiniteSets

CONSTANTS
    Clients,      \* the authenticated clients
    CopyRect,     \* those whose viewer listed the CopyRect encoding
    CacheRect,    \* those whose viewer listed the cache encoding
    Pipelining,   \* those whose viewer asks again before it got an answer
    Refreshing,   \* those whose viewer asks for everything when it pleases
    Partial,      \* those whose viewer asks for parts of the screen
    Sizes,        \* the widths of the screen
    WindowWidth,  \* the width of the foreground window
    Returning,    \* may a cell show again what it, or another, once showed?
    MaxEvents     \* bound: how many things happen on the desktop

ASSUME FlowAssumption ==
    /\ IsFiniteSet(Sizes) /\ Sizes # {} /\ Sizes \subseteq Nat \ {0}
    /\ CopyRect \subseteq Clients /\ CacheRect \subseteq Clients
    /\ Pipelining \subseteq Clients /\ Refreshing \subseteq Clients
    /\ Partial \subseteq Clients
    \* DisableCacheForAllClients: a cache only while there is one client.
    /\ CacheRect # {} => Clients = CacheRect /\ \A j, k \in Clients : j = k
    /\ WindowWidth \in Nat \ {0} /\ Returning \in BOOLEAN
    /\ MaxEvents \in Nat

VARIABLES
    \* what the user of the desktop sees
    size,      \* the width of the screen
    screen,    \* the content of each cell
    window,    \* the leftmost cell of the foreground window
    done,      \* how many things have happened
    \* the desktop thread
    hints,     \* cells in RFB_SCREEN_UPDATE messages not yet taken
    dpc,       \* where the desktop thread is
    known,     \* m_foreground_window_rect, its leftmost cell
    rgncache,  \* the cells to look at in the next cycle
    main,      \* m_mainbuff
    back,      \* m_backbuff
    cache,     \* m_cachebuff
    untold,    \* clients that SetNewSWSize has not come to yet
    crossed,   \* clients for which a copy or a cached cell has crossed another
               \* change on its way, see Overtakes (history)
    \* the clients
    tracker,   \* m_update_tracker
    incr,      \* m_incr_rgn
    upc,       \* where the update thread is
    upd,       \* its local update
    clip,      \* its local clipregion
    sent,      \* has it sent an update, updates_sent > 0?
    poke,      \* is there clipboard text for the client?
    newsize,   \* m_NewSWUpdateWaiting and the size to send, or 0
    \* the viewers
    vsize,     \* the width of the picture
    pic,       \* the picture
    vcache,    \* what the picture showed before
    asked,     \* a request is not answered
    full       \* the next request is for the full picture

desk    == <<size, screen, window, done>>
grabber == <<hints, dpc, known, rgncache, main, back, cache, untold, crossed>>
sender  == <<upc, upd, clip, sent>>
viewer  == <<vsize, pic, vcache, asked, full>>
vars    == <<desk, grabber, tracker, incr, sender, poke, newsize, viewer>>

Cells   == UNION {1 .. s : s \in Sizes}
Screen  == 1 .. size
Content == -1 .. MaxEvents + 1
Blank   == -1   \* what BlackBack and ClearCache leave: no screen shows it
UseCache == CacheRect # {}

(***************************************************************************)
(* Regions and update trackers.                                            *)
(***************************************************************************)
Shift(rgn, delta) == {c + delta : c \in rgn}
\* The cells between those of a region: its bounding rectangle.
Hull(rgn) == {c \in Cells : \E i, j \in rgn : i <= c /\ c <= j}
Area(rgn) == Cardinality(Hull(rgn))

\* SimpleUpdateTracker.
Tracker == [changed : SUBSET Cells, cached : SUBSET Cells,
            copied : SUBSET Cells, delta : Int]
Nothing == [changed |-> {}, cached |-> {}, copied |-> {}, delta |-> 0]
IsEmpty(t) == t.changed = {} /\ t.cached = {} /\ t.copied = {}
Touches(t, rgn) == (t.changed \union t.cached \union t.copied) \intersect rgn # {}

AddChanged(t, rgn) == [t EXCEPT !.changed = @ \union rgn]
AddCached(t, rgn)  == [t EXCEPT !.cached = @ \union rgn]

\* Slip: the rest of the destination is shifted the wrong way, as an older
\* version of add_copied (kept in its comment) did.
ReplaceCopy_OldShift(t, dest, delta) ==
    LET invalid == Shift(Shift(dest, -delta) \intersect t.changed, -delta)
    IN  [t EXCEPT !.changed = @ \union invalid \union t.copied,
                  !.copied = dest, !.delta = delta]

\* Slip: the source is not looked at.
ReplaceCopy_AnySource(t, dest, delta) ==
    [t EXCEPT !.changed = @ \union t.copied, !.copied = dest, !.delta = delta]

\* There is one copy in a tracker, and what it copies must be what the viewer
\* has: not a part that is still to be sent as changed.  A new copy that
\* continues the old one is merged with it; of two others the bigger stays,
\* and the smaller becomes changes.
ContinueCopy(t, dest, delta) ==
    LET valid == Shift((Shift(dest, -delta) \intersect t.copied) \ t.changed, delta)
    IN  [changed |-> (t.changed \union t.copied \union dest) \ valid,
         cached |-> t.cached, copied |-> valid, delta |-> t.delta + delta]

ReplaceCopy(t, dest, delta) ==
    LET invalid == Shift(Shift(dest, -delta) \intersect t.changed, delta)
    IN  [changed |-> t.changed \union invalid \union t.copied,
         cached |-> t.cached, copied |-> dest \ invalid, delta |-> delta]

AddCopied(t, enabled, dest, delta) ==
    CASE ~enabled -> AddChanged(t, dest)
      [] enabled /\ dest = {} -> t
      [] enabled /\ Shift(dest, -delta) \intersect t.copied # {} ->
            ContinueCopy(t, dest, delta)
      [] OTHER -> IF Area(t.copied) > Area(dest) THEN AddChanged(t, dest)
                  ELSE ReplaceCopy(t, dest, delta)

\* ClippedUpdateTracker::add_copied: the child gets what is inside on both
\* ends, and the rest of the destination as changed.
AddCopiedClipped(t, dest, delta, cliprgn) ==
    LET inside == dest \intersect cliprgn
        both   == Shift(Shift(inside, -delta) \intersect cliprgn, delta)
        child  == IF both = {} THEN t ELSE AddCopied(t, TRUE, both, delta)
    IN  IF inside = {} THEN t ELSE AddChanged(child, dest \ both)

\* get_update into another tracker.
Pass(from, to, enabled) ==
    LET t1 == IF from.copied = {} THEN to
              ELSE AddCopied(to, enabled, from.copied, from.delta)
    IN  AddCached(AddChanged(t1, from.changed), from.cached)

\* flush_update: the part of a tracker inside cliprgn, and the rest.
Inside(t, cliprgn) ==
    [changed |-> t.changed \intersect cliprgn, cached |-> t.cached \intersect cliprgn,
     copied |-> t.copied \intersect cliprgn, delta |-> t.delta]
Flushed(t, cliprgn) == Pass(Inside(t, cliprgn), Nothing, TRUE)
Rest(t, cliprgn) ==
    [t EXCEPT !.changed = @ \ cliprgn, !.cached = @ \ cliprgn, !.copied = @ \ cliprgn]
Cleared(t) == [Nothing EXCEPT !.delta = t.delta]

\* The destinations of the copy rectangles of an update (get_update).
CopyDest(t) == t.copied \ t.changed

(***************************************************************************)
(* Initial states: clients have just passed their initial set-up, with the *)
(* whole screen in their trackers, and the desktop thread is about to run. *)
(***************************************************************************)
PC  == {"peek", "grab"}
UPC == {"wait", "flushed"}

TypeOK ==
    /\ size \in Sizes
    /\ screen \in [Cells -> Content]
    /\ window \in Int
    /\ done \in 0 .. MaxEvents
    /\ hints \subseteq Cells
    /\ dpc \in PC
    /\ known \in Int
    /\ rgncache \subseteq Cells
    /\ {main, back, cache} \subseteq [Cells -> Content]
    /\ untold \subseteq Clients
    /\ crossed \subseteq Clients
    /\ tracker \in [Clients -> Tracker]
    /\ incr \in [Clients -> SUBSET Cells]
    /\ upc \in [Clients -> UPC]
    /\ upd \in [Clients -> Tracker]
    /\ clip \in [Clients -> SUBSET Cells]
    /\ sent \in [Clients -> BOOLEAN]
    /\ poke \in [Clients -> BOOLEAN]
    /\ newsize \in [Clients -> Sizes \union {0}]
    /\ vsize \in [Clients -> Sizes]
    /\ pic \in [Clients -> [Cells -> Content]]
    /\ vcache \in [Clients -> [Cells -> Content]]
    /\ asked \in [Clients -> BOOLEAN]
    /\ full \in [Clients -> BOOLEAN]

AllBlank == [c \in Cells |-> Blank]
NoWindow == -WindowWidth   \* a rectangle left of the screen: known is empty

Init ==
    /\ size \in Sizes
    /\ screen = [c \in Cells |-> IF c <= size THEN 0 ELSE Blank]
    /\ window = 1
    /\ done = 0
    /\ hints = {} /\ dpc = "peek" /\ known = NoWindow
    /\ rgncache = Screen
    /\ main = AllBlank /\ back = AllBlank /\ cache = AllBlank
    /\ untold = {}
    /\ crossed = {}
    /\ tracker = [k \in Clients |-> AddChanged(Nothing, Screen)]
    /\ incr = [k \in Clients |-> {}]
    /\ upc = [k \in Clients |-> "wait"]
    /\ upd = [k \in Clients |-> Nothing]
    /\ clip = [k \in Clients |-> {}]
    /\ sent = [k \in Clients |-> FALSE]
    /\ poke = [k \in Clients |-> FALSE]
    /\ newsize = [k \in Clients |-> 0]
    /\ vsize = [k \in Clients |-> size]
    /\ pic = [k \in Clients |-> AllBlank]
    /\ vcache = [k \in Clients |-> AllBlank]
    /\ asked = [k \in Clients |-> FALSE]
    /\ full = [k \in Clients |-> TRUE]

(***************************************************************************)
(* The desktop and its user.                                               *)
(***************************************************************************)
Fresh == 1 + done

Paint(c, v) ==
    /\ done < MaxEvents
    /\ c \in Screen /\ v # screen[c]
    /\ v \in {Fresh} \union (IF Returning THEN 0 .. Fresh ELSE {})
    /\ done' = done + 1
    /\ screen' = [screen EXCEPT ![c] = v]
    /\ hints' = hints \union {c}
    /\ UNCHANGED <<size, window, dpc, known, rgncache, main, back, cache, untold, crossed,
                   tracker, incr, sender, poke, newsize, viewer>>

WindowAt(p) == p .. p + WindowWidth - 1

\* The user drags the foreground window to p: what shows of it moves along,
\* what was hidden by it, or of it, is new.
MoveWindow(p) ==
    LET old == WindowAt(window) \intersect Screen
        new == WindowAt(p) \intersect Screen
    IN  /\ done < MaxEvents
        /\ p # window /\ new # {}
        /\ done' = done + 1
        /\ window' = p
        /\ screen' = [c \in Cells |->
                        IF c \in new THEN IF c - p + window \in old
                                          THEN screen[c - p + window] ELSE Fresh
                        ELSE IF c \in old THEN Fresh ELSE screen[c]]
        /\ hints' = hints \union old \union new
        /\ UNCHANGED <<size, dpc, known, rgncache, main, back, cache, untold, crossed,
                       tracker, incr, sender, poke, newsize, viewer>>

(***************************************************************************)
(* The desktop thread.                                                     *)
(***************************************************************************)
\* An RFB_SCREEN_UPDATE message: from the hooks, or from QueueRect.
TakeHint(c) ==
    /\ dpc = "peek" /\ untold = {} /\ c \in hints
    /\ hints' = hints \ {c}
    /\ rgncache' = rgncache \union ({c} \intersect Screen)
    /\ UNCHANGED <<desk, dpc, known, main, back, cache, untold, crossed,
                   tracker, incr, sender, poke, newsize, viewer>>

\* vncServer::UpdateWanted: somebody waits for an update and nothing that is
\* known to have changed is in the region it waits for.
Wanted(k) == incr[k] # {} /\ ~Touches(tracker[k], incr[k])

UpdateWanted ==
    /\ dpc = "peek" /\ untold = {}
    /\ \E k \in Clients : Wanted(k)
    /\ dpc' = "grab"
    /\ UNCHANGED <<desk, hints, known, rgncache, main, back, cache, untold, crossed,
                   tracker, incr, sender, poke, newsize, viewer>>

\* CalcCopyRects: has the foreground window moved?  Its new place and the way
\* it went are a copy.
WindowCopy ==
    LET delta == window - known
        dest  == WindowAt(window) \intersect Screen
    IN  [dest  |-> IF known = NoWindow \/ delta = 0 THEN {}
                   ELSE Shift(Shift(dest, -delta) \intersect Screen, delta),
         delta |-> delta]

\* GrabRegion: what is between the parts of the region is grabbed too.
Grabbed == [c \in Cells |-> IF c \in Hull(rgncache) THEN screen[c] ELSE main[c]]

\* CopyRect: the copy inside the back buffer, and the cache cleared at both ends.
Source(copied) == Shift(copied.copied, -copied.delta)
BackCopied(copied) ==
    [c \in Cells |-> IF c \in CopyDest(copied) THEN back[c - copied.delta] ELSE back[c]]
CacheCleared(copied) ==
    [c \in Cells |-> IF c \in copied.copied \union Source(copied) THEN Blank ELSE cache[c]]

\* Slip: the destination of a copy is never compared.
NextRegion_Nothing(copied) == {}

\* What is compared in this cycle, and what in the next.
ToCheck(copied) == rgncache \ copied.copied
NextRegion(copied) == copied.copied

\* The viewer is going to get everything anew.
Renewed(k) == k \in untold \/ newsize[k] # 0 \/ full[k]

\* History.  A copy is decided while an update is on its way to the viewer, or
\* while the viewer has yet to swap in a cell of the source or the destination;
\* or a cell is compared again before the viewer has it, or is kept in the cache
\* of the server for a viewer that is to begin with an empty one.
Overtakes(k, copied, differ) ==
    \/ /\ k \in CopyRect /\ copied.copied # {}
       /\ \/ upc[k] = "flushed"
          \/ tracker[k].cached \intersect (copied.copied \union Source(copied)) # {}
    \/ /\ k \in CacheRect
       /\ \/ Touches(tracker[k], differ) \/ Touches(upd[k], differ)
          \/ Renewed(k) /\ \E c \in differ : BackCopied(copied)[c] # Blank

\* The part of the cycle under the update lock: take the copy, grab the
\* region, compare what is not copied, and tell every client.
Cycle ==
    LET copied  == AddCopiedClipped(Nothing, WindowCopy.dest, WindowCopy.delta, Screen)
        back1   == BackCopied(copied)
        cache1  == CacheCleared(copied)
        differ  == {c \in ToCheck(copied) : Grabbed[c] # back1[c]}
        ascache == {c \in differ : UseCache /\ Grabbed[c] = cache1[c]}
        updates == AddCached(AddChanged(copied, differ \ ascache), ascache)
    IN  /\ dpc = "grab"
        /\ dpc' = "peek"
        /\ known' = window
        /\ main' = Grabbed
        /\ back' = [c \in Cells |-> IF c \in differ THEN Grabbed[c] ELSE back1[c]]
        /\ cache' = [c \in Cells |-> IF c \in differ THEN back1[c] ELSE cache1[c]]
        /\ rgncache' = NextRegion(copied)
        /\ tracker' = [k \in Clients |-> Pass(updates, tracker[k], k \in CopyRect)]
        /\ crossed' = crossed \union {k \in Clients : Overtakes(k, copied, differ)}
        /\ UNCHANGED <<desk, hints, untold, incr, sender, poke, newsize, viewer>>

\* Slip: only a size that has grown is told.
ToTell_IfGrown(s) == IF s > size THEN Clients ELSE {}

\* The clients that are told the new size.
ToTell(s) == IF s # size THEN Clients ELSE {}

\* The screen gets another size, or another desktop comes to the screen: the
\* trackers and the region are cleared and the buffers are new.
DisplayChange(s) ==
    /\ dpc = "peek" /\ untold = {}
    /\ done < MaxEvents
    /\ done' = done + 1
    /\ size' = s
    /\ screen' = [c \in Cells |-> IF c <= s THEN Fresh ELSE Blank]
    /\ tracker' = [k \in Clients |-> Cleared(tracker[k])]
    /\ rgncache' = 1 .. s
    /\ main' = AllBlank /\ back' = AllBlank /\ cache' = AllBlank
    /\ untold' = ToTell(s)
    /\ UNCHANGED <<window, hints, dpc, known, crossed, incr, sender, poke, newsize, viewer>>

\* SetNewSWSize, client by client; DisableProtocol in it comes back when the
\* update thread waits.
TellSize(k) ==
    /\ k \in untold /\ upc[k] = "wait"
    /\ newsize' = [newsize EXCEPT ![k] = size]
    /\ untold' = untold \ {k}
    /\ UNCHANGED <<desk, hints, dpc, known, rgncache, main, back, cache,
                   crossed, tracker, incr, sender, poke, viewer>>

(***************************************************************************)
(* The update thread of a client.                                          *)
(***************************************************************************)
\* vncClient::UpdateClipText.
Poke(k) ==
    /\ ~poke[k] /\ done < MaxEvents
    /\ poke' = [poke EXCEPT ![k] = TRUE]
    /\ done' = done + 1
    /\ UNCHANGED <<size, screen, window, grabber, tracker, incr, sender, newsize, viewer>>

\* Slip: only changed cells wake the update thread.
Wake_Changed(k) == tracker[k].changed \intersect incr[k] # {} \/ poke[k]

Wake(k) == \/ Touches(tracker[k], incr[k])
           \/ poke[k]
           \/ sent[k] /\ newsize[k] # 0

\* Out of the wait: what was asked for and has changed leaves the tracker,
\* and the update lock is released.
TakeUpdate(k) ==
    /\ upc[k] = "wait" /\ Wake(k)
    /\ upd' = [upd EXCEPT ![k] = Flushed(tracker[k], incr[k])]
    /\ tracker' = [tracker EXCEPT ![k] = Rest(@, incr[k])]
    /\ clip' = [clip EXCEPT ![k] = incr[k]]
    /\ incr' = [incr EXCEPT ![k] = {}]
    /\ poke' = [poke EXCEPT ![k] = FALSE]
    /\ upc' = [upc EXCEPT ![k] = "flushed"]
    /\ crossed' = IF Rest(tracker[k], incr[k]).copied = {} THEN crossed ELSE crossed \union {k}
    /\ UNCHANGED <<desk, hints, dpc, known, rgncache, main, back, cache, untold,
                   sent, newsize, viewer>>

\* Slip: SendUpdate counts as done although it sent nothing.
NothingToSend_Forgets(k) ==
    /\ upc[k] = "flushed" /\ IsEmpty(upd[k]) /\ newsize[k] = 0
    /\ upc' = [upc EXCEPT ![k] = "wait"]
    /\ UNCHANGED <<desk, grabber, tracker, incr, upd, clip, sent, poke, newsize, viewer>>

\* SendUpdate before it takes the lock.  Nothing to send: it returns FALSE
\* and the region that was asked for stays asked for.
NothingToSend(k) ==
    /\ upc[k] = "flushed" /\ IsEmpty(upd[k]) /\ newsize[k] = 0
    /\ incr' = [incr EXCEPT ![k] = @ \union clip[k]]
    /\ upc' = [upc EXCEPT ![k] = "wait"]
    /\ UNCHANGED <<desk, grabber, tracker, upd, clip, sent, poke, newsize, viewer>>

Answered(k) ==
    /\ upc' = [upc EXCEPT ![k] = "wait"]
    /\ upd' = [upd EXCEPT ![k] = Cleared(@)]
    /\ clip' = [clip EXCEPT ![k] = {}]
    /\ sent' = [sent EXCEPT ![k] = TRUE]
    /\ asked' = [asked EXCEPT ![k] = FALSE]

\* A new size waits: it is sent and the update is dropped; the viewer makes a
\* new picture and asks for all of it.
SendNewSize(k) ==
    /\ upc[k] = "flushed" /\ newsize[k] # 0
    /\ newsize' = [newsize EXCEPT ![k] = 0]
    /\ vsize' = [vsize EXCEPT ![k] = newsize[k]]
    /\ pic' = [pic EXCEPT ![k] = AllBlank]
    /\ vcache' = [vcache EXCEPT ![k] = AllBlank]
    /\ full' = [full EXCEPT ![k] = TRUE]
    /\ Answered(k)
    /\ UNCHANGED <<desk, grabber, tracker, incr, poke>>

\* The rest of SendUpdate, under the lock: copies, then cached, then changed
\* rectangles; the changed ones show the back buffer as it is now (EncodeRect).
\* A viewer with a cache keeps what a changed rectangle replaces and swaps the
\* two on a cached one.
SendUpdate(k) ==
    LET u      == upd[k]
        drawn  == [c \in Cells |-> IF c \in CopyDest(u) THEN pic[k][c - u.delta]
                                   ELSE pic[k][c]]
        swap   == IF k \in CacheRect THEN u.cached ELSE {}
        data   == u.changed \union (u.cached \ swap)
        shown  == [c \in Cells |-> IF c \in swap THEN vcache[k][c] ELSE drawn[c]]
        kept   == [c \in Cells |-> IF c \in swap THEN drawn[c] ELSE vcache[k][c]]
        \* Sent again, so the viewer forgets what the cell showed before (history).
        again  == {c \in data : shown[c] = back[c] /\ kept[c] # shown[c]}
    IN  /\ upc[k] = "flushed" /\ ~IsEmpty(u) /\ newsize[k] = 0
        /\ pic' = [pic EXCEPT ![k] =
                     [c \in Cells |-> IF c \in data /\ c <= vsize[k] THEN back[c] ELSE shown[c]]]
        /\ vcache' = [vcache EXCEPT ![k] =
                     [c \in Cells |-> IF c \in data THEN shown[c] ELSE kept[c]]]
        /\ crossed' = IF k \in CacheRect /\ again # {} THEN crossed \union {k} ELSE crossed
        /\ Answered(k)
        /\ UNCHANGED <<desk, hints, dpc, known, rgncache, main, back, cache, untold,
                       tracker, incr, poke, newsize, vsize, full>>

(***************************************************************************)
(* The viewer and the handler of its rfbFramebufferUpdateRequest.          *)
(***************************************************************************)
Request(k, rgn, incremental) ==
    /\ ~asked[k] \/ k \in Pipelining
    /\ full[k] => ~incremental
    /\ ~incremental => full[k] \/ k \in Refreshing
    /\ asked' = [asked EXCEPT ![k] = TRUE]
    /\ full' = [full EXCEPT ![k] = FALSE]
    /\ incr' = [incr EXCEPT ![k] = @ \union rgn]
    /\ tracker' = IF incremental THEN tracker
                  ELSE [tracker EXCEPT ![k] = AddChanged(@, rgn)]
    /\ hints' = IF incremental THEN hints ELSE hints \union rgn
    /\ UNCHANGED <<desk, dpc, known, rgncache, main, back, cache, untold, crossed, sender,
                   poke, newsize, vsize, pic, vcache>>

\* The regions a viewer asks for: its whole picture, or a part of it.
Asks(k) == {1 .. vsize[k]} \union
           IF k \in Partial /\ ~full[k] THEN {{c} : c \in 1 .. vsize[k]} ELSE {}

Next ==
    \/ \E c \in Cells, v \in Content : Paint(c, v)
    \/ \E c \in Cells, i \in 0 .. WindowWidth - 1 : MoveWindow(c - i)
    \/ \E c \in Cells : TakeHint(c)
    \/ UpdateWanted
    \/ Cycle
    \/ \E s \in Sizes : DisplayChange(s)
    \/ \E k \in Clients :
        \/ TellSize(k) \/ Poke(k) \/ TakeUpdate(k) \/ NothingToSend(k)
        \/ SendNewSize(k) \/ SendUpdate(k)
        \/ \E rgn \in Asks(k), incremental \in BOOLEAN : Request(k, rgn, incremental)

Spec == Init /\ [][Next]_vars

Fairness ==
    /\ SF_vars(\E c \in Cells : TakeHint(c))
    /\ WF_vars(UpdateWanted) /\ WF_vars(Cycle)
    /\ \A k \in Clients :
        /\ WF_vars(TellSize(k)) /\ WF_vars(TakeUpdate(k))
        /\ WF_vars(NothingToSend(k) \/ SendNewSize(k) \/ SendUpdate(k))

FairSpec == Spec /\ Fairness

(***************************************************************************)
(* Properties.                                                             *)
(***************************************************************************)
\* The desktop thread loses no change: what the screen shows is in both
\* buffers, except where a hint is queued or a cell waits to be compared.
\* The hazard is the copy: it goes to the back buffer unseen, and its
\* destination must come round again (vncdesktopthread.cpp:922).
DesktopPending ==
    \A c \in Screen \ (rgncache \union hints) : screen[c] = main[c] /\ main[c] = back[c]

\* Something is still to be done about cell c for client k.
UnderWay(k, c) ==
    \/ c \in rgncache \union hints
    \/ Touches(tracker[k], {c}) \/ Touches(upd[k], {c}) \/ Renewed(k)

RightWhenQuiet(k) == \A c \in Screen : ~UnderWay(k, c) => pic[k][c] = screen[c]

\* No viewer is left with a wrong cell that nothing is going to correct,
\* whatever was painted, moved, copied, cached and resized on the way and
\* however the trackers were merged, provided that nothing has crossed.
QuietCellIsRight == \A k \in Clients \ crossed : RightWhenQuiet(k)

\* A request is never forgotten: until it is answered its region is kept, or
\* the update thread is at work on it, also when SendUpdate has nothing to send.
RequestKept == \A k \in Clients : asked[k] => incr[k] # {} \/ upc[k] # "wait"

\* A viewer whose picture has another size than the screen is about to be
\* told, and the last size it is told is the right one.
SizeOnItsWay == \A k \in Clients : vsize[k] = size \/ k \in untold \/ newsize[k] = size

\* Once nothing happens on the desktop any more, a viewer that has, time and
\* again, its whole picture asked for comes to show the screen, in its size,
\* and keeps showing it, provided that nothing has crossed.
WholeAsked(k) == ~full[k] /\ 1 .. vsize[k] \subseteq incr[k]
Same(k) == vsize[k] = size /\ \A c \in Screen : pic[k][c] = screen[c]
EventuallySame ==
    \A k \in Clients : []<>WholeAsked(k) => <>[](k \in crossed \/ Same(k))
=============================================================================
