--------------------------- MODULE UpdateMessage ---------------------------
(***************************************************************************)
(* One framebuffer update message after the other, as SendUpdate of        *)
(* miniWinVNC/vncclient.cpp composes it and the encoders (vncencode*.cpp)  *)
(* divide its rectangles.  SendUpdate first counts the rectangles, without *)
(* a lock, then takes the update lock, announces the number and sends.  An *)
(* encoder may answer "as many as it takes"; then the last rectangle is    *)
(* marked.  What is counted in one place has to be sent in another, and    *)
(* whatever the division, the viewer has to get every pixel.               *)
(*                                                                         *)
(* A rectangle is a record of its corner and size; positions and sizes are *)
(* those of the viewer, which the server's are Scale times.  A pixel is a  *)
(* pair.  Bytes are left out: what compression yields is a choice.  The    *)
(* one client and its one update thread are the actors; the client thread, *)
(* the desktop thread and other clients change what SendUpdate reads.      *)
(***************************************************************************)
EXTENDS Integers, SequencesExt

CONSTANTS
    Viewers,       \* what viewers may ask for: see ViewerType
    Updates,       \* what the trackers may hold: see UpdateType
    Width, Height, \* the size of the viewer's picture
    Colours,       \* the contents of a pixel
    Tile,          \* MAX_SPLIT_TILE_SIZE of Tight, 16
    MinSplit,      \* MIN_SPLIT_RECT_SIZE, 4096
    MinSolid,      \* MIN_SOLID_SUBRECT_SIZE, 2048
    Levels,        \* Tight's compression levels, 0 to 9
    DefaultLevel,  \* 6
    MaxRectSize,   \* maxRectSize of each level in m_conf
    MaxRectWidth,  \* maxRectWidth of each level in m_conf
    StripSize,     \* ZLIB_MAX_RECT_SIZE and Ultra_MAX_RECT_SIZE
    CorreMin, CorreMax, CorreStart,  \* m_maxwidth of CoRRE: 8, 255, 24
    ZlibQueue,     \* rectangles in the queue of Zlib, 50
    MaxStray,      \* a bound: rectangles that Init may leave in m_Queuebuffer
    ZipAbove,      \* cached rectangles that are sent one by one, 5
    MaxRects       \* 2^16: the number is sent in 16 bits

Encoders == {"Raw", "CoRRE", "Zlib", "Ultra", "ZlibHex", "Tight"}

ViewerType == [encoder : Encoders, lastrect : BOOLEAN, cache : BOOLEAN,
               cursor : BOOLEAN, pointer : BOOLEAN, scale : Nat \ {0}, level : Levels]

Rect == {r \in [x : 0 .. Width - 1, y : 0 .. Height - 1, w : 1 .. Width, h : 1 .. Height] :
            r.x + r.w <= Width /\ r.y + r.h <= Height}

UpdateType == [copied : Nat, cached : Seq(Rect), changed : Seq(Rect)]

ASSUME MessageAssumption ==
    /\ Viewers \subseteq ViewerType /\ Updates \subseteq UpdateType
    /\ Width \in Nat /\ Height \in Nat
    /\ Colours # {}
    /\ {Tile, StripSize, CorreMin} \subseteq Nat \ {0}
    /\ MaxRects \in Nat /\ MaxRects > 1
    /\ {MinSplit, MinSolid, ZlibQueue, ZipAbove} \subseteq Nat
    /\ DefaultLevel \in Levels
    /\ MaxRectSize \in [Levels -> Nat] /\ MaxRectWidth \in [Levels -> Nat \ {0}]
    /\ \A l \in Levels : MaxRectWidth[l] <= MaxRectSize[l]
    /\ CorreStart \in CorreMin .. CorreMax /\ CorreMax \in Nat

VARIABLES
    viewer,      \* what the viewer asked for
    asking,      \* where the client thread is in rfbSetEncodings
    cache,       \* IsCacheEnabled
    lastrect,    \* m_use_lastrect
    level,       \* m_compresslevel
    posChanged,  \* m_cursor_pos_changed
    pending,     \* m_cursor_update_pending
    maxwidth,    \* m_maxwidth and m_maxheight of CoRRE
    statsready,  \* m_statsready of CoRRE
    queueEnable, \* m_queueEnable of Zlib
    queue,       \* the rectangles in m_Queuebuffer, m_nNbRects in number
    stray,       \* those before them that m_nNbRects does not count
    mustBeZipped,\* must_be_zipped
    pc,          \* where SendUpdate is
    update,      \* what it sends
    updates,     \* how many rectangles it has counted
    picture,     \* the back buffer while it is encoded
    todo,        \* what the encoder has still to do, the next first
    announced,   \* the number in the header
    sent,        \* how many rectangles were sent
    marked,      \* was the last one marked?
    shown,       \* the pixels the viewer has got
    again,       \* the pixels it has got twice
    lost,        \* pixels that were dropped
    disturbed,   \* has something changed that was counted on, (history)
    recut        \* have the limits of the pieces?             (history)

settings == <<asking, cache, lastrect, level>>
cursor   == <<posChanged, pending>>
corre    == <<maxwidth, statsready>>
queueing == <<queueEnable, queue, stray, mustBeZipped>>
output   == <<sent, marked, shown, again, lost>>
vars == <<viewer, settings, cursor, corre, queueing, pc, update, updates, picture,
          todo, announced, output, disturbed, recut>>

Marked == MaxRects - 1    \* 0xFFFF instead of a number: the last rectangle is marked

(***************************************************************************)
(* Rectangles.                                                             *)
(***************************************************************************)
Area(r)  == r.w * r.h
Cells(r) == (r.x .. r.x + r.w - 1) \X (r.y .. r.y + r.h - 1)
AllCells(rs) == UNION {Cells(rs[i]) : i \in DOMAIN rs}

Box(x, y, w, h) == [x |-> x, y |-> y, w |-> w, h |-> h]
Least(m, n) == IF m < n THEN m ELSE n
NonEmpty(r) == r.w # 0 /\ r.h # 0

\* The server's rectangle.  SendRectangle divides it by m_nScale again.
OnServer(r) == Box(viewer.scale * r.x, viewer.scale * r.y,
                   viewer.scale * r.w, viewer.scale * r.h)

(***************************************************************************)
(* How many rectangles an encoder will make of one; 0: it will mark the    *)
(* last.                                                                   *)
(***************************************************************************)
\* Slip: a piece that is just full is followed by an empty one.
Ceil_OffByOne(m, n) == m \div n + 1

Ceil(m, n) == (m - 1) \div n + 1

\* ZLIB_MAX_SIZE(w) / w
StripLines(w) == (IF 2 * w > StripSize THEN 2 * w ELSE StripSize) \div w
\* subrectMaxHeight and nMaxRows of Tight
TightLines(w, l) == MaxRectSize[l] \div Least(w, MaxRectWidth[l])

\* Tight looks for solid areas.
Splits(r) == viewer.encoder = "Tight" /\ lastrect /\ Area(r) >= MinSplit

NumCodedRects(r, m) ==
    CASE viewer.encoder = "CoRRE" -> Ceil(r.w, m) * Ceil(r.h, m)
      [] viewer.encoder = "Zlib"  ->
            LET n == Ceil(r.h, StripLines(r.w)) IN IF lastrect /\ n > 1 THEN 0 ELSE n
      [] viewer.encoder = "Tight" ->
            IF Splits(r) THEN 0
            ELSE IF r.w > MaxRectWidth[level] \/ Area(r) > MaxRectSize[level]
                 THEN Ceil(r.w, MaxRectWidth[level]) * Ceil(r.h, TightLines(r.w, level))
                 ELSE 1
      [] viewer.encoder \in {"Ultra", "ZlibHex"} -> 0
      [] OTHER -> 1

MarksLast(rs, m) == \E i \in DOMAIN rs : NumCodedRects(OnServer(rs[i]), m) = 0

\* The loops over changed and cached rectangles: the first 0 ends them.
AddRects(n, rs, m) ==
    LET total[i \in 0 .. Len(rs)] ==
            IF i = 0 THEN n ELSE total[i - 1] + NumCodedRects(OnServer(rs[i]), m)
    IN  IF n = Marked THEN n
        ELSE IF MarksLast(rs, m) THEN Marked
        ELSE total[Len(rs)]

\* Rectangles of an update that take no pixels.
CacheRects(u) == IF ~cache THEN 0 ELSE IF Len(u.cached) > ZipAbove THEN 1 ELSE Len(u.cached)
Simple(u) == u.copied + CacheRects(u)

\* ... and those that are encoded, when they are counted ...
CountedRects(u) ==
    IF Simple(u) = Marked THEN <<>> ELSE IF cache THEN u.changed ELSE u.changed \o u.cached

\* Slip: cached rectangles are encoded, too.
EncodedRects_Both(u) == u.cached \o u.changed

\* ... and when they are sent.
EncodedRects(u) == IF cache THEN u.changed ELSE u.cached \o u.changed

One(b) == IF b THEN 1 ELSE 0

CountAll(u, shape, m) ==
    LET n == AddRects(Simple(u), u.changed, m)
        k == IF cache THEN n ELSE AddRects(n, u.cached, m)
    IN  IF k = Marked THEN k ELSE k + One(shape) + One(posChanged)

(***************************************************************************)
(* What an encoder still has to do: a rectangle to encode, one in which    *)
(* solid areas are looked for, from a row on, one that is only cut, and a  *)
(* solid one; and the level that Tight has read for it.                    *)
(***************************************************************************)
Task(as, r, l) == [as |-> as, rect |-> r, whole |-> r, row |-> r.y, level |-> l]
Tasks(as, rs, l) == [i \in DOMAIN rs |-> Task(as, rs[i], l)]
Todo(as, r, l) == IF NonEmpty(r) THEN <<Task(as, r, l)>> ELSE <<>>

\* The largest piece that is sent in one.
PieceWidth(r, l) ==
    CASE viewer.encoder = "CoRRE" -> maxwidth
      [] viewer.encoder = "Tight" -> MaxRectWidth[l]
      [] OTHER -> r.w
PieceHeight(r, l) ==
    CASE viewer.encoder = "CoRRE" -> maxwidth
      [] viewer.encoder = "Tight" -> TightLines(r.w, l)
      [] viewer.encoder \in {"Zlib", "Ultra"} -> StripLines(r.w)
      [] OTHER -> r.h

\* Slip: the rest of a strip is taken for done.
Cut_StripOnly(r, l) ==
    LET w == Least(r.w, PieceWidth(r, l))
        h == Least(r.h, PieceHeight(r, l))
    IN  [piece |-> Box(r.x, r.y, w, h),
         right |-> Box(r.x + w, r.y, 0, h),
         below |-> Box(r.x, r.y + h, r.w, r.h - h)]

\* Its first piece, what is right of it, and what is below.
Cut(r, l) ==
    LET w == Least(r.w, PieceWidth(r, l))
        h == Least(r.h, PieceHeight(r, l))
    IN  [piece |-> Box(r.x, r.y, w, h),
         right |-> Box(r.x + w, r.y, r.w - w, h),
         below |-> Box(r.x, r.y + h, r.w, r.h - h)]

(***************************************************************************)
(* Solid areas of Tight.                                                   *)
(***************************************************************************)
\* CheckSolidTile with needSameColor.  A tile of no width or height is solid.
Solid(r, c) == \A p \in Cells(r) : picture[p] = c

TileAt(r, x, y) == Box(x, y, Least(Tile, r.x + r.w - x), Least(Tile, r.y + r.h - y))

\* The sizes the search may end with in one direction: whole tiles, or all.
Steps(n) == {k \in 1 .. n : k % Tile = 0 \/ k = n}

\* FindBestSolidArea: the largest solid area down to some row of tiles; of two
\* the lower one.
BestSolidArea(r, x, y, c) ==
    LET areas == {a \in {Box(x, y, w, h) : w \in Steps(r.x + r.w - x),
                                           h \in Steps(r.y + r.h - y)} : Solid(a, c)}
    IN  {a \in areas : \A b \in areas :
            Area(a) > Area(b) \/ (Area(a) = Area(b) /\ a.h <= b.h)}

Inside(a, b) ==
    a.x >= b.x /\ a.y >= b.y /\ a.x + a.w <= b.x + b.w /\ a.y + a.h <= b.y + b.h

\* Slip: columns are added as far as the tile reaches, not the grown area.
ExtendSolidArea_OldHeight(r, a, c) ==
    {e \in Rect :
        /\ Inside(e, r) /\ Inside(a, e)
        /\ Solid(Box(a.x, e.y, a.w, e.h), c) /\ Solid(Box(e.x, a.y, e.w, a.h), c)
        /\ e.y = r.y \/ ~Solid(Box(a.x, e.y - 1, a.w, 1), c)
        /\ e.y + e.h = r.y + r.h \/ ~Solid(Box(a.x, e.y + e.h, a.w, 1), c)
        /\ e.x = r.x \/ ~Solid(Box(e.x - 1, a.y, 1, a.h), c)
        /\ e.x + e.w = r.x + r.w \/ ~Solid(Box(e.x + e.w, a.y, 1, a.h), c)}

\* ExtendSolidArea: row by row up and down, as wide as it was, until a row is
\* not solid or outside; then column by column, as high as it has become.
ExtendSolidArea(r, a, c) ==
    {e \in Rect :
        /\ Inside(e, r) /\ Inside(a, e)
        /\ Solid(Box(a.x, e.y, a.w, e.h), c) /\ Solid(e, c)
        /\ e.y = r.y \/ ~Solid(Box(a.x, e.y - 1, a.w, 1), c)
        /\ e.y + e.h = r.y + r.h \/ ~Solid(Box(a.x, e.y + e.h, a.w, 1), c)
        /\ e.x = r.x \/ ~Solid(Box(e.x - 1, e.y, 1, e.h), c)
        /\ e.x + e.w = r.x + r.w \/ ~Solid(Box(e.x + e.w, e.y, 1, e.h), c)}

\* The tiles of a row whose solid area is large enough, or is all there is.
SolidStarts(r, y) ==
    {x \in r.x .. r.x + r.w - 1 :
        /\ (x - r.x) % Tile = 0
        /\ Solid(TileAt(r, x, y), picture[<<x, y>>])
        /\ \E a \in BestSolidArea(r, x, y, picture[<<x, y>>]) :
                Area(a) = Area(r) \/ Area(a) >= MinSolid}

\* rects[0], rects[1], the solid area, rects[2] and rects[3]: above, left,
\* right and below.
Around(r, a, l) ==
       Todo("rect", Box(r.x, r.y, r.w, a.y - r.y), l)
    \o Todo("rect", Box(r.x, a.y, a.x - r.x, a.h), l)
    \o Todo("solid", a, l)
    \o Todo("rect", Box(a.x + a.w, a.y, r.x + r.w - a.x - a.w, a.h), l)
    \o Todo("rect", Box(r.x, a.y + a.h, r.w, r.y + r.h - a.y - a.h), l)

(***************************************************************************)
(* The state the client is in when its first update is to be sent.         *)
(***************************************************************************)
Blank == [p \in (0 .. Width - 1) \X (0 .. Height - 1) |-> CHOOSE c \in Colours : TRUE]
NoUpdate == [copied |-> 0, cached |-> <<>>, changed |-> <<>>]

Init ==
    /\ viewer \in Viewers
    /\ asking = "asked" /\ cache = viewer.cache /\ lastrect = viewer.lastrect
    /\ level = viewer.level
    /\ posChanged = FALSE /\ pending = FALSE
    /\ maxwidth = CorreStart /\ statsready = FALSE
    /\ queueEnable = FALSE /\ queue = <<>> /\ stray = <<>> /\ mustBeZipped = FALSE
    /\ pc = "between" /\ update = NoUpdate /\ updates = 0
    /\ picture = Blank /\ todo = <<>>
    /\ announced = 0 /\ sent = 0 /\ marked = FALSE
    /\ shown = {} /\ again = {} /\ lost = {}
    /\ disturbed = FALSE /\ recut = FALSE

(***************************************************************************)
(* What happens beside SendUpdate.                                         *)
(***************************************************************************)
\* UpdateMouse of the desktop thread, under the update lock.
CursorMoves ==
    /\ viewer.pointer /\ ~posChanged /\ pc \in {"between", "counted"}
    /\ posChanged' = TRUE
    /\ disturbed' = (disturbed \/ pc = "counted")
    /\ UNCHANGED <<viewer, settings, pending, corre, queueing, pc, update, updates,
                   picture, todo, announced, output, recut>>

\* What has been counted with the settings as they were.
CountedOn == pc = "counted" /\ (pending \/ (cache /\ update.cached # <<>>))

\* Tight reads its limits when it counts, and again for each rectangle.
CutByLevel == pc # "between" /\ viewer.encoder = "Tight"

\* rfbSetEncodings takes everything back before it closes the gate.
ForgetSettings ==
    /\ asking = "asked"
    /\ asking' = "forgotten" /\ cache' = FALSE /\ lastrect' = FALSE
    /\ level' = DefaultLevel
    /\ pending' = FALSE
    /\ disturbed' = (disturbed \/ CountedOn)
    /\ recut' = (recut \/ (CutByLevel /\ level' # level))
    /\ UNCHANGED <<viewer, posChanged, corre, queueing, pc, update, updates, picture,
                   todo, announced, output>>

\* DisableProtocol has returned; if somebody else has closed the gate, it has
\* not waited for what was counted.  Under the update lock the viewer gets the
\* same encoder again: CoRRE's is made anew, those of Zlib, Ultra and Tight
\* are kept, and Init of the first two forgets how many rectangles are queued.
SetEncoding ==
    /\ asking = "forgotten" /\ pc # "rects"
    /\ Len(stray) + Len(queue) <= MaxStray
    /\ asking' = "chosen"
    /\ maxwidth' = CorreStart /\ statsready' = FALSE
    /\ stray' = stray \o queue /\ queue' = <<>>
    /\ recut' = (recut \/ (pc = "counted" /\ maxwidth' # maxwidth))
    /\ UNCHANGED <<viewer, cache, lastrect, level, cursor, queueEnable, mustBeZipped, pc,
                   update, updates, picture, todo, announced, output, disturbed>>

\* ... and then asks for the rest again: this is not under the update lock.
RestoreSettings ==
    /\ asking = "chosen"
    /\ asking' = "asked" /\ cache' = viewer.cache /\ lastrect' = viewer.lastrect
    /\ level' = viewer.level
    /\ disturbed' = (disturbed \/ (pc = "counted" /\ cache' /\ update.cached # <<>>))
    /\ recut' = (recut \/ (CutByLevel /\ (level' # level \/ lastrect' # lastrect)))
    /\ UNCHANGED <<viewer, cursor, corre, queueing, pc, update, updates, picture, todo,
                   announced, output>>

\* DisableCacheForAllClients, for another client.
DisableCache ==
    /\ cache
    /\ cache' = FALSE
    /\ disturbed' = (disturbed \/ (pc = "counted" /\ update.cached # <<>>))
    /\ UNCHANGED <<viewer, asking, lastrect, level, cursor, corre, queueing, pc, update,
                   updates, picture, todo, announced, output, recut>>

(***************************************************************************)
(* SendUpdate, before it takes the lock.  If there is nothing to announce  *)
(* it returns.                                                             *)
(***************************************************************************)
\* Slip: the size may leave its bounds.
Adapted_NoBounds(m) ==
    IF viewer.encoder = "CoRRE" /\ statsready THEN {m - 1, m, m + 1} ELSE {m}

\* CoRRE adapts its size once per count, after an update with pieces.
Adapted(m) ==
    IF viewer.encoder = "CoRRE" /\ statsready
    THEN {Max({CorreMin, Least(CorreMax, n)}) : n \in {m - 1, m, m + 1}} ELSE {m}

Count(u, shape) ==
    LET rs == CountedRects(u)
    IN  /\ pc = "between" /\ asking # "chosen"
        /\ maxwidth' \in IF rs = <<>> THEN {maxwidth} ELSE Adapted(maxwidth)
        /\ statsready' = (statsready /\ rs = <<>>)
        /\ queueEnable' = IF viewer.encoder = "Zlib" /\ rs # <<>>
                          THEN MarksLast(rs, maxwidth') ELSE queueEnable
        \* IsXCursorSupported
        /\ pending' = (shape /\ viewer.cursor /\ asking = "asked")
        /\ updates' = CountAll(u, pending', maxwidth')
        /\ updates' # 0
        /\ update' = u
        /\ pc' = "counted"
        /\ announced' = 0 /\ sent' = 0 /\ marked' = FALSE
        /\ shown' = {} /\ again' = {} /\ lost' = {}
        /\ disturbed' = (stray \o queue # <<>>) /\ recut' = FALSE
        /\ UNCHANGED <<viewer, settings, posChanged, queue, stray, mustBeZipped, picture, todo>>

(***************************************************************************)
(* SendUpdate under the lock: the header, the cursor, copies and cached    *)
(* rectangles.  SendCacheZip may fail to compress, and the message breaks  *)
(* off.  The content of the screen matters to Tight's search only.         *)
(***************************************************************************)
\* What the screen may show, where Tight may come to search it.
Searchable(rs) ==
    IF viewer.encoder = "Tight" /\ viewer.lastrect
    THEN UNION {Cells(rs[i]) : i \in {j \in DOMAIN rs : Area(rs[j]) >= MinSplit}} ELSE {}
Screens(rs) == {s \in [DOMAIN Blank -> Colours] :
                    \A p \in DOMAIN Blank \ Searchable(rs) : s[p] = Blank[p]}

\* Can SendCacheZip fail?
ZipOutcomes == IF cache /\ Len(update.cached) > ZipAbove THEN BOOLEAN ELSE {FALSE}

SendHeader ==
    /\ pc = "counted"
    /\ announced' = updates % MaxRects
    /\ pending' = FALSE /\ posChanged' = FALSE
    /\ \E broken \in ZipOutcomes :
        IF broken
        THEN /\ pc' = "between" /\ disturbed' = TRUE
             /\ sent' = One(pending) + One(posChanged) + update.copied
             /\ UNCHANGED <<todo, shown, picture>>
        ELSE /\ pc' = "rects"
             /\ sent' = One(pending) + One(posChanged) + Simple(update)
             /\ shown' = IF cache THEN AllCells(update.cached) ELSE {}
             /\ todo' = Tasks("rect", EncodedRects(update), level)
             /\ picture' \in Screens(EncodedRects(update))
             /\ UNCHANGED disturbed
    /\ UNCHANGED <<viewer, settings, corre, queueing, update, updates, marked, again, lost,
                   recut>>

(***************************************************************************)
(* The encoders.                                                           *)
(***************************************************************************)
Top(as) == pc = "rects" /\ todo # <<>> /\ Head(todo).as = as

\* Will CoRRE have split it?  Then its statistics are ready.
Larger(r) == r.w > maxwidth \/ r.h > maxwidth

\* EncodeRect of a whole rectangle.
Encode ==
    LET r == Head(todo).rect
    IN  /\ Top("rect")
        /\ todo' = <<Task(IF Splits(r) THEN "scan" ELSE "simple", r, level)>> \o Tail(todo)
        /\ statsready' = (statsready \/ (viewer.encoder = "CoRRE" /\ Larger(r)))
        /\ UNCHANGED <<viewer, settings, cursor, maxwidth, queueing, pc, update, updates,
                       picture, announced, output, disturbed, recut>>

\* If a rectangle becomes too large, its upper part goes out first.
MaxRows(t) == TightLines(t.rect.w, t.level)
TooLarge(t) == t.row - t.rect.y >= MaxRows(t)
Upper(t) == LET r == t.rect IN
    IF TooLarge(t) THEN Todo("simple", Box(r.x, r.y, r.w, MaxRows(t)), level) ELSE <<>>
Lower(t) == LET r == t.rect  n == MaxRows(t) IN
    IF TooLarge(t) THEN Box(r.x, r.y + n, r.w, r.h - n) ELSE r

\* One row of tiles in Tight's search: the first good solid area divides the
\* rectangle.
ScanRow ==
    LET t == Head(todo)
    IN  /\ Top("scan") /\ t.row < t.rect.y + t.rect.h
        /\ \E r \in {Lower(t)} :
           \/ /\ SolidStarts(r, t.row) = {}
              /\ todo' = Upper(t) \o <<[t EXCEPT !.rect = r, !.row = t.row + Tile]>>
                                  \o Tail(todo)
           \/ \E x \in SolidStarts(r, t.row) :
                /\ \A k \in SolidStarts(r, t.row) : x <= k
                /\ \E a \in BestSolidArea(r, x, t.row, picture[<<x, t.row>>]) :
                   \E e \in ExtendSolidArea(r, a, picture[<<x, t.row>>]) :
                        todo' = Upper(t) \o Around(r, e, level) \o Tail(todo)
        /\ UNCHANGED <<viewer, settings, cursor, corre, queueing, pc, update, updates,
                       picture, announced, output, disturbed, recut>>

\* Slip: the rectangle is searched again.
ScanEnds_Again ==
    LET t == Head(todo)
    IN  /\ Top("scan") /\ t.row >= t.rect.y + t.rect.h
        /\ todo' = <<Task("rect", t.whole, level)>> \o Tail(todo)
        /\ UNCHANGED <<viewer, settings, cursor, corre, queueing, pc, update, updates,
                       picture, announced, output, disturbed, recut>>

\* "No suitable solid-color rectangles found": the rectangle as it was given.
ScanEnds ==
    LET t == Head(todo)
    IN  /\ Top("scan") /\ t.row >= t.rect.y + t.rect.h
        /\ todo' = <<Task("simple", t.whole, level)>> \o Tail(todo)
        /\ UNCHANGED <<viewer, settings, cursor, corre, queueing, pc, update, updates,
                       picture, announced, output, disturbed, recut>>

\* The viewer gets a rectangle.
Shows(cells) == shown' = shown \union cells /\ again' = again \union (shown \intersect cells)

SendSolid ==
    /\ Top("solid")
    /\ todo' = Tail(todo)
    /\ sent' = sent + 1
    /\ Shows(Cells(Head(todo).rect))
    /\ UNCHANGED <<viewer, settings, cursor, corre, queueing, pc, update, updates, picture,
                   announced, marked, lost, disturbed, recut>>

\* What is left to do when t has been cut into c.
After(t, c) ==
    Todo("simple", c.right, t.level) \o Todo("simple", c.below, t.level) \o Tail(todo)
Piece(t) == Cut(t.rect, t.level).piece
Rest(t)  == After(t, Cut(t.rect, t.level))

\* EncodeOneRect, EncodeSubrect and so on: the next piece is sent at once.
SendPiece ==
    LET t == Head(todo)
    IN  /\ Top("simple")
        /\ \E c \in {Cut(t.rect, t.level)} : todo' = After(t, c) /\ Shows(Cells(c.piece))
        /\ sent' = sent + 1
        /\ UNCHANGED <<viewer, settings, cursor, corre, queueing, pc, update, updates,
                       picture, announced, marked, lost, disturbed, recut>>

\* SendZlibrects, SendUltrarects with rs in the queue: a few are sent as they
\* are, more are compressed into one, and what cannot be compressed is dropped.
\* The bytes of stray ones go with them, but not their number.
Flush(rs, zip) ==
    LET all == stray \o rs
    IN  /\ stray' = <<>>
        /\ \/ /\ Len(rs) < 3 /\ ~zip
              /\ sent' = sent + Len(all) /\ Shows(AllCells(all)) /\ UNCHANGED lost
           \/ /\ Len(rs) >= 3 \/ zip
              /\ \/ /\ sent' = sent + 1 /\ Shows(AllCells(SubSeq(all, 1, Len(rs))))
                    /\ UNCHANGED lost
                 \/ lost' = lost \union AllCells(all) /\ UNCHANGED <<sent, shown, again>>

Keep(rs, zip) == queue' = rs /\ mustBeZipped' = zip
Unsent == UNCHANGED <<sent, shown, again, lost, stray>>

\* AddToQueu.  Ultra's queue is sent at once, Zlib's when it is full: of bytes,
\* and then before the piece is added, or of rectangles.
Queues == viewer.encoder = "Ultra" \/ (viewer.encoder = "Zlib" /\ queueEnable)
QueueMax == IF viewer.encoder = "Ultra" THEN 0 ELSE ZlibQueue

QueuePiece(zip) ==
    LET t  == Head(todo)
        rs == Append(queue, Piece(t))
    IN  /\ Top("simple") /\ Queues
        /\ todo' = Rest(t)
        /\ \/ Len(rs) > QueueMax /\ Keep(<<>>, FALSE) /\ Flush(rs, mustBeZipped \/ zip)
           \/ Len(rs) <= QueueMax /\ Keep(rs, mustBeZipped \/ zip) /\ Unsent
           \/ /\ queue # <<>> /\ Keep(<<Piece(t)>>, zip)
              /\ Flush(queue, mustBeZipped)
        /\ UNCHANGED <<viewer, settings, cursor, corre, queueEnable, pc, update, updates,
                       picture, announced, marked, disturbed, recut>>

\* Slip: the marker is sent, the queue is not.
LastRect_KeepsQueue == UNCHANGED <<queue, mustBeZipped>> /\ Unsent

\* LastRect of the encoder.
LastRect ==
    \/ queue = <<>> /\ UNCHANGED <<queue, mustBeZipped>> /\ Unsent
    \/ queue # <<>> /\ Keep(<<>>, FALSE) /\ Flush(queue, mustBeZipped)

EndMessage ==
    /\ pc = "rects" /\ todo = <<>>
    /\ pc' = "between"
    /\ marked' = (updates = Marked)
    /\ IF updates = Marked THEN LastRect ELSE UNCHANGED <<queue, mustBeZipped>> /\ Unsent
    /\ picture' = Blank
    /\ UNCHANGED <<viewer, settings, cursor, corre, queueEnable, update, updates, todo,
                   announced, disturbed, recut>>

Encoding == Encode \/ ScanRow \/ ScanEnds \/ SendSolid \/ SendPiece
            \/ \E zip \in BOOLEAN : QueuePiece(zip)

Next ==
    \/ CursorMoves \/ ForgetSettings \/ SetEncoding \/ RestoreSettings \/ DisableCache
    \/ \E u \in Updates, shape \in BOOLEAN : Count(u, shape)
    \/ SendHeader \/ Encoding \/ EndMessage

Spec == Init /\ [][Next]_vars

Fairness == WF_vars(SendHeader \/ Encoding \/ EndMessage)

FairSpec == Spec /\ Fairness

(***************************************************************************)
(* Properties.                                                             *)
(***************************************************************************)
Job == [as : {"rect", "scan", "simple", "solid"}, rect : Rect, whole : Rect, row : Nat,
        level : Levels]

\* Types: in particular, every part of a rectangle, however it was divided and
\* extended, is a rectangle inside the picture.
TypeOK ==
    /\ viewer \in Viewers
    /\ asking \in {"asked", "forgotten", "chosen"}
    /\ cache \in BOOLEAN /\ lastrect \in BOOLEAN /\ level \in Levels
    /\ posChanged \in BOOLEAN /\ pending \in BOOLEAN
    /\ maxwidth \in CorreMin .. CorreMax /\ statsready \in BOOLEAN
    /\ queueEnable \in BOOLEAN /\ mustBeZipped \in BOOLEAN
    /\ queue \in Seq(Rect) /\ stray \in Seq(Rect)
    /\ pc \in {"between", "counted", "rects"}
    /\ update \in Updates \union {NoUpdate} /\ updates \in Nat
    /\ picture \in [DOMAIN Blank -> Colours]
    /\ todo \in Seq(Job)
    /\ announced \in 0 .. Marked /\ sent \in Nat /\ marked \in BOOLEAN
    /\ shown \subseteq DOMAIN Blank /\ again \subseteq shown /\ lost \subseteq DOMAIN Blank
    /\ disturbed \in BOOLEAN /\ recut \in BOOLEAN

Ended == pc = "between"

KeepsCount ==
    IF announced = Marked THEN marked ELSE sent = announced /\ ~marked

\* As many rectangles are sent as the header announces, or the last is marked,
\* whatever encoder divides them and however it counts beforehand
\* (vncclient.cpp:3060).  Not so, in the code, with scaling, when the number
\* takes more than 16 bits, or when what was counted on, or the limits of the
\* pieces, have changed since.
CountIsKept ==
    Ended /\ ~disturbed /\ ~recut /\ viewer.scale = 1 /\ updates < MaxRects => KeepsCount

Target == AllCells(update.cached \o update.changed)

\* When a message ends the viewer has been sent exactly the pixels that have
\* changed, in pieces that the encoder has cut, searched, queued and flushed,
\* and nothing is left in a queue; also when LastRect is taken back on the way.
PixelsArrive ==
    Ended /\ ~disturbed => shown \union lost = Target /\ stray \o queue = <<>>

\* Pixels that two rectangles of an update have: one may be changed and cached.
GivenTwice(u) ==
    LET rs == u.cached \o u.changed
    IN  {p \in AllCells(rs) :
            \E i, j \in DOMAIN rs : i # j /\ p \in Cells(rs[i]) \intersect Cells(rs[j])}

\* The encoders send no pixel twice in a message unless it was given to them
\* twice, as long as Tight does not look for solid areas and nothing is left
\* from an earlier message in the queue.
SentOnce ==
    \/ disturbed \/ (viewer.encoder = "Tight" /\ viewer.lastrect)
    \/ again \subseteq GivenTwice(update)

\* What goes out as one colour is of one colour, however the area was extended.
SolidIsSolid ==
    \A i \in DOMAIN todo : todo[i].as = "solid" => \E c \in Colours : Solid(todo[i].rect, c)

\* A message that is begun is finished: the search and the divisions end.
MessageEnds == pc # "between" ~> pc = "between"
=============================================================================
