-------------------------- MODULE UpdateFlow_proofs --------------------------
(***************************************************************************)
(* Theorems about UpdateFlow: for any screen sizes and any viewers, no copy *)
(* reads outside the buffers, the desktop thread loses no change, a request *)
(* is kept until it is answered, and a new size reaches every viewer.       *)
(***************************************************************************)
EXTENDS UpdateFlow, TLAPS

\* A tracker whose copy reads inside the buffers: what add_copied and its
\* clipping have to see to, and what CopyRect and the viewers rely on.
Good(t) == t \in Tracker /\ Source(t) \subseteq Cells

CopiesInside == \A k \in Clients : Good(tracker[k]) /\ Good(upd[k])

\* What RequestKept needs: the update thread still holds the region asked for.
RegionHeld ==
    \A k \in Clients :
        asked[k] => incr[k] # {} \/ (upc[k] = "flushed" /\ clip[k] # {})

\* What SizeOnItsWay needs: a client that has been told holds the right size.
TheRightSize ==
    \A k \in Clients \ untold :
        (vsize[k] = size /\ newsize[k] = 0) \/ newsize[k] = size
-----------------------------------------------------------------------------
(***************************************************************************)
(* Cells and trackers.                                                     *)
(***************************************************************************)
LEMMA CellsAreInts ==
  /\ Cells \subseteq Int /\ MaxEvents \in Int /\ WindowWidth \in Int
  /\ \A s \in Sizes : s \in Int /\ s >= 1 /\ 1 .. s \subseteq Cells /\ 1 .. s # {}
<1>1. Sizes \subseteq Int /\ \A s \in Sizes : s >= 1
  BY FlowAssumption
<1>2. \A s \in Sizes : 1 .. s \subseteq Cells /\ 1 \in 1 .. s
  BY <1>1 DEF Cells
<1>3. Cells \subseteq Int
  BY DEF Cells
<1>. QED BY <1>1, <1>2, <1>3, FlowAssumption

LEMMA ShiftBack ==
  ASSUME NEW rgn \in SUBSET Int, NEW delta \in Int,
         NEW part, part \subseteq Shift(rgn, -delta) 
  PROVE  Shift(part, delta) \subseteq rgn
<1>. SUFFICES ASSUME NEW c \in Shift(part, delta)
              PROVE  c \in rgn
  OBVIOUS
<1>1. PICK d \in part : c = d + delta
  BY DEF Shift
<1>2. PICK e \in rgn : d = e + (-delta)
  BY <1>1 DEF Shift
<1>. QED BY <1>1, <1>2

\* The cells a copy onto rgn reads.
LEMMA Reads ==
  ASSUME NEW rgn \in SUBSET Int, NEW delta \in Int, NEW S
  PROVE  Shift(rgn, -delta) \subseteq S <=> \A c \in rgn : c - delta \in S
<1>1. \A c \in rgn : c + (-delta) = c - delta
  OBVIOUS
<1>. QED BY <1>1 DEF Shift

LEMMA NothingIsGood == Good(Nothing)
BY DEF Good, Nothing, Tracker, Source, Shift

LEMMA AddedIsGood ==
  ASSUME NEW t, Good(t), NEW rgn \in SUBSET Cells
  PROVE  Good(AddChanged(t, rgn)) /\ Good(AddCached(t, rgn))
BY DEF Good, Tracker, Source, AddChanged, AddCached

LEMMA ContinuedIsGood ==
  ASSUME NEW t, Good(t), NEW dest \in SUBSET Cells, NEW delta \in Int
  PROVE  Good(ContinueCopy(t, dest, delta))
<1>. DEFINE part == (Shift(dest, -delta) \intersect t.copied) \ t.changed
            valid == Shift(part, delta)
            new == ContinueCopy(t, dest, delta)
<1>0. /\ dest \in SUBSET Int /\ t.copied \in SUBSET Cells /\ t.copied \in SUBSET Int
      /\ t.delta \in Int /\ t.changed \in SUBSET Cells /\ t.cached \in SUBSET Cells
  BY CellsAreInts DEF Good, Tracker
<1>1. valid \subseteq dest
  BY <1>0, ShiftBack
<1>2. new = [changed |-> (t.changed \union t.copied \union dest) \ valid,
             cached |-> t.cached, copied |-> valid, delta |-> t.delta + delta]
  BY DEF ContinueCopy
<1>3. new \in Tracker
  <2>1. (t.changed \union t.copied \union dest) \ valid \in SUBSET Cells
    BY <1>0
  <2>2. valid \in SUBSET Cells
    BY <1>1
  <2>3. t.delta + delta \in Int
    BY <1>0
  <2>. HIDE DEF valid
  <2>. QED BY <1>0, <1>2, <2>1, <2>2, <2>3 DEF Tracker
<1>4. \A c \in t.copied : c - t.delta \in Cells
  BY <1>0, Reads DEF Good, Source
<1>5. ASSUME NEW c \in valid
      PROVE  c - (t.delta + delta) \in Cells
  <2>1. PICK d \in part : c = d + delta
    BY DEF Shift
  <2>2. d \in t.copied /\ d \in Int
    BY <1>0, <2>1
  <2>3. c - (t.delta + delta) = d - t.delta
    BY <1>0, <2>1, <2>2
  <2>. QED BY <1>4, <2>2, <2>3
<1>6. valid \in SUBSET Int /\ t.delta + delta \in Int
  <2>. HIDE DEF valid
  <2>. QED BY <1>0, <1>1
<1>7. Shift(valid, -(t.delta + delta)) \subseteq Cells
  <2>. HIDE DEF valid
  <2>. QED BY <1>5, <1>6, Reads
<1>. HIDE DEF valid
<1>8. Source(new) = Shift(valid, -(t.delta + delta))
  BY <1>2 DEF Source
<1>. QED BY <1>3, <1>7, <1>8 DEF Good

LEMMA ReplacedIsGood ==
  ASSUME NEW t, Good(t), NEW dest \in SUBSET Cells, NEW delta \in Int,
         Shift(dest, -delta) \subseteq Cells
  PROVE  Good(ReplaceCopy(t, dest, delta))
<1>. DEFINE invalid == Shift(Shift(dest, -delta) \intersect t.changed, delta)
            new == ReplaceCopy(t, dest, delta)
<1>0. /\ dest \in SUBSET Int /\ t.copied \in SUBSET Cells /\ t.changed \in SUBSET Cells
      /\ t.cached \in SUBSET Cells
  BY CellsAreInts DEF Good, Tracker
<1>1. invalid \subseteq dest
  BY <1>0, ShiftBack
<1>2. new = [changed |-> t.changed \union invalid \union t.copied,
             cached |-> t.cached, copied |-> dest \ invalid, delta |-> delta]
  BY DEF ReplaceCopy
<1>3. new \in Tracker
  <2>1. t.changed \union invalid \union t.copied \in SUBSET Cells
    BY <1>0, <1>1
  <2>2. dest \ invalid \in SUBSET Cells
    OBVIOUS
  <2>. HIDE DEF invalid
  <2>. QED BY <1>0, <1>2, <2>1, <2>2 DEF Tracker
<1>4. Shift(dest \ invalid, -delta) \subseteq Shift(dest, -delta)
  BY DEF Shift
<1>. HIDE DEF invalid
<1>5. Source(new) = Shift(dest \ invalid, -delta)
  BY <1>2 DEF Source
<1>. QED BY <1>3, <1>4, <1>5 DEF Good

LEMMA CopiedIsGood ==
  ASSUME NEW t, Good(t), NEW enabled \in BOOLEAN, NEW dest \in SUBSET Cells,
         NEW delta \in Int, Shift(dest, -delta) \subseteq Cells
  PROVE  Good(AddCopied(t, enabled, dest, delta))
BY AddedIsGood, ContinuedIsGood, ReplacedIsGood DEF AddCopied

\* What AddCopiedClipped gives the child, a tracker without a copy: a copy
\* that lies inside cliprgn on both ends.
LEMMA ClippedIsGood ==
  ASSUME NEW dest \in SUBSET Cells, NEW delta \in Int, NEW cliprgn \in SUBSET Cells
  PROVE  Good(AddCopiedClipped(Nothing, dest, delta, cliprgn))
<1>. DEFINE inside == dest \intersect cliprgn
            part   == Shift(inside, -delta) \intersect cliprgn
            both   == Shift(part, delta)
            child  == IF both = {} THEN Nothing ELSE AddCopied(Nothing, TRUE, both, delta)
<1>0. inside \in SUBSET Int /\ cliprgn \in SUBSET Int
  BY CellsAreInts
<1>1. both \subseteq inside
  BY <1>0, ShiftBack
<1>2. Shift(both, -delta) \subseteq Cells
  <2>1. ASSUME NEW c \in both PROVE c - delta \in Cells
    <3>1. PICK d \in part : c = d + delta
      BY DEF Shift
    <3>2. d \in Int /\ d \in Cells /\ c - delta = d
      BY <1>0, <3>1
    <3>. QED BY <3>2
  <2>2. both \in SUBSET Int
    BY <1>0, <1>1
  <2>. HIDE DEF both
  <2>. QED BY <2>1, <2>2, Reads
<1>3. Good(child)
  <2>1. both \in SUBSET Cells
    BY <1>1
  <2>. HIDE DEF both
  <2>. QED BY <1>2, <2>1, NothingIsGood, CopiedIsGood
<1>4. AddCopiedClipped(Nothing, dest, delta, cliprgn)
        = IF inside = {} THEN Nothing ELSE AddChanged(child, dest \ both)
  BY DEF AddCopiedClipped
<1>5. dest \ both \in SUBSET Cells
  OBVIOUS
<1>. HIDE DEF child, both
<1>. QED BY <1>3, <1>4, <1>5, NothingIsGood, AddedIsGood

LEMMA PassedIsGood ==
  ASSUME NEW from, Good(from), NEW to, Good(to), NEW enabled \in BOOLEAN
  PROVE  Good(Pass(from, to, enabled))
<1>. DEFINE t1 == IF from.copied = {} THEN to
                  ELSE AddCopied(to, enabled, from.copied, from.delta)
<1>0. /\ from.changed \in SUBSET Cells /\ from.cached \in SUBSET Cells
      /\ from.copied \in SUBSET Cells /\ from.delta \in Int
      /\ Shift(from.copied, -from.delta) \subseteq Cells
  BY DEF Good, Tracker, Source
<1>1. Good(t1)
  BY <1>0, CopiedIsGood
<1>. HIDE DEF t1
<1>2. Good(AddChanged(t1, from.changed))
  BY <1>0, <1>1, AddedIsGood
<1>3. Good(AddCached(AddChanged(t1, from.changed), from.cached))
  BY <1>0, <1>2, AddedIsGood
<1>. QED BY <1>3 DEF Pass, t1

LEMMA PartsAreGood ==
  ASSUME NEW t, Good(t), NEW cliprgn
  PROVE  Good(Flushed(t, cliprgn)) /\ Good(Rest(t, cliprgn)) /\ Good(Cleared(t))
<1>1. Good(Inside(t, cliprgn)) /\ Good(Rest(t, cliprgn)) /\ Good(Cleared(t))
  BY DEF Good, Tracker, Source, Shift, Inside, Rest, Cleared, Nothing
<1>. QED BY <1>1, NothingIsGood, PassedIsGood DEF Flushed
-----------------------------------------------------------------------------
(***************************************************************************)
(* Types.  One lemma for each action whose new values need an argument.    *)
(***************************************************************************)
LEMMA Shapes ==
  ASSUME TypeOK
  PROVE  /\ size \in Int /\ Screen \subseteq Cells /\ Fresh \in Int
         /\ \A k \in Clients : vsize[k] \in Int /\ 1 .. vsize[k] \subseteq Cells
         /\ done < MaxEvents => Fresh \in Content
         /\ Blank \in Content /\ AllBlank \in [Cells -> Content]
BY CellsAreInts DEF TypeOK, Screen, Fresh, Content, Blank, AllBlank

LEMMA InitTypes == Init => TypeOK /\ CopiesInside
<1>. SUFFICES ASSUME Init PROVE TypeOK /\ CopiesInside
  OBVIOUS
<1>1. size \in Sizes /\ Screen \in SUBSET Cells /\ size \in Int
  BY CellsAreInts DEF Init, Screen
<1>2. 0 \in Content /\ Blank \in Content
  BY FlowAssumption DEF Content, Blank
<1>3. screen \in [Cells -> Content] /\ AllBlank \in [Cells -> Content]
  BY <1>2 DEF Init, AllBlank
<1>4. window \in Int /\ known \in Int /\ done \in 0 .. MaxEvents
  BY FlowAssumption, CellsAreInts DEF Init, NoWindow
<1>5. Good(AddChanged(Nothing, Screen)) /\ Good(Nothing)
  BY <1>1, NothingIsGood, AddedIsGood
<1>6. CopiesInside
  BY <1>5 DEF CopiesInside, Init
<1>7. tracker \in [Clients -> Tracker] /\ upd \in [Clients -> Tracker]
  BY <1>5 DEF Init, Good
<1>. QED BY <1>1, <1>3, <1>4, <1>6, <1>7 DEF Init, TypeOK, PC, UPC

LEMMA PaintTypes ==
  ASSUME TypeOK, CopiesInside, NEW c \in Cells, NEW v \in Content, Paint(c, v)
  PROVE  TypeOK' /\ CopiesInside'
<1>1. CopiesInside'
  BY DEF CopiesInside, Paint, sender
<1>2. done' \in 0 .. MaxEvents
  BY CellsAreInts DEF TypeOK, Paint
<1>3. screen' \in [Cells -> Content] /\ hints' \subseteq Cells
  BY DEF TypeOK, Paint
<1>. QED BY <1>1, <1>2, <1>3 DEF TypeOK, Paint, sender, viewer

LEMMA MoveTypes ==
  ASSUME TypeOK, CopiesInside, NEW p \in Int, MoveWindow(p)
  PROVE  TypeOK' /\ CopiesInside'
<1>. DEFINE old == WindowAt(window) \intersect Screen
            new == WindowAt(p) \intersect Screen
<1>1. CopiesInside'
  BY DEF CopiesInside, MoveWindow, sender
<1>2. done' \in 0 .. MaxEvents /\ window' \in Int
  BY CellsAreInts DEF TypeOK, MoveWindow
<1>3. Screen \subseteq Cells /\ Fresh \in Content
  BY Shapes DEF MoveWindow
<1>4. old \subseteq Cells /\ new \subseteq Cells
  BY <1>3
<1>5. hints' \subseteq Cells
  BY <1>4 DEF TypeOK, MoveWindow
<1>6. screen' = [c \in Cells |->
                   IF c \in new THEN IF c - p + window \in old
                                     THEN screen[c - p + window] ELSE Fresh
                   ELSE IF c \in old THEN Fresh ELSE screen[c]]
  BY DEF MoveWindow
<1>7. screen' \in [Cells -> Content]
  <2>. HIDE DEF old, new
  <2>. QED BY <1>3, <1>4, <1>6 DEF TypeOK
<1>. QED BY <1>1, <1>2, <1>5, <1>7 DEF TypeOK, MoveWindow, sender, viewer

LEMMA HintTypes ==
  ASSUME TypeOK, CopiesInside, NEW c \in Cells, TakeHint(c)
  PROVE  TypeOK' /\ CopiesInside'
<1>1. CopiesInside'
  BY DEF CopiesInside, TakeHint, sender
<1>2. hints' \subseteq Cells /\ rgncache' \subseteq Cells
  BY DEF TypeOK, TakeHint
<1>. QED BY <1>1, <1>2 DEF TypeOK, TakeHint, desk, sender, viewer

LEMMA WantedTypes ==
  ASSUME TypeOK, CopiesInside, UpdateWanted
  PROVE  TypeOK' /\ CopiesInside'
<1>1. CopiesInside'
  BY DEF CopiesInside, UpdateWanted, sender
<1>. QED BY <1>1 DEF TypeOK, UpdateWanted, PC, desk, sender, viewer

LEMMA WindowCopyTypes ==
  ASSUME TypeOK
  PROVE  WindowCopy.dest \in SUBSET Cells /\ WindowCopy.delta \in Int
<1>. DEFINE d == WindowAt(window) \intersect Screen
            delta == window - known
            moved == Shift(Shift(d, -delta) \intersect Screen, delta)
<1>1. d \in SUBSET Cells /\ d \in SUBSET Int /\ delta \in Int
  <2>1. d \in SUBSET Cells
    BY Shapes
  <2>2. delta \in Int
    BY DEF TypeOK
  <2>. QED BY <2>1, <2>2, CellsAreInts
<1>2. moved \subseteq d
  BY <1>1, ShiftBack
<1>3. WindowCopy.delta = delta
  BY DEF WindowCopy
<1>4. WindowCopy.dest = IF known = NoWindow \/ delta = 0 THEN {} ELSE moved
  BY DEF WindowCopy
<1>. HIDE DEF d, delta, moved
<1>. QED BY <1>1, <1>2, <1>3, <1>4

\* What the cycle makes of the window's move, and what it does with it.
Copied == AddCopiedClipped(Nothing, WindowCopy.dest, WindowCopy.delta, Screen)
Differ == {c \in ToCheck(Copied) : Grabbed[c] # BackCopied(Copied)[c]}
AsCache == {c \in Differ : UseCache /\ Grabbed[c] = CacheCleared(Copied)[c]}
Updates == AddCached(AddChanged(Copied, Differ \ AsCache), AsCache)

LEMMA CycleIs ==
  Cycle <=>
    /\ dpc = "grab" /\ dpc' = "peek" /\ known' = window /\ main' = Grabbed
    /\ back' = [c \in Cells |-> IF c \in Differ THEN Grabbed[c] ELSE BackCopied(Copied)[c]]
    /\ cache' = [c \in Cells |-> IF c \in Differ THEN BackCopied(Copied)[c]
                                 ELSE CacheCleared(Copied)[c]]
    /\ rgncache' = NextRegion(Copied)
    /\ tracker' = [k \in Clients |-> Pass(Updates, tracker[k], k \in CopyRect)]
    /\ crossed' = crossed \union {k \in Clients : Overtakes(k, Copied, Differ)}
    /\ UNCHANGED <<desk, hints, untold, incr, sender, poke, newsize, viewer>>
BY DEF Cycle, Copied, Differ, AsCache, Updates

LEMMA CopiedIs ==
  ASSUME TypeOK
  PROVE  /\ Good(Copied) /\ Copied.copied \in SUBSET Cells
         /\ \A c \in Copied.copied : c - Copied.delta \in Cells
<1>1. Good(Copied)
  BY Shapes, WindowCopyTypes, ClippedIsGood DEF Copied
<1>2. Copied.copied \in SUBSET Cells /\ Copied.delta \in Int
  BY <1>1 DEF Good, Tracker
<1>3. Copied.copied \in SUBSET Int
  BY <1>2, CellsAreInts
<1>. QED BY <1>1, <1>2, <1>3, Reads DEF Good, Source

LEMMA CycleTypes ==
  ASSUME TypeOK, CopiesInside, Cycle
  PROVE  TypeOK' /\ CopiesInside'
<1>1. Grabbed \in [Cells -> Content]
  BY DEF Grabbed, TypeOK
<1>2. BackCopied(Copied) \in [Cells -> Content]
  BY CopiedIs DEF BackCopied, CopyDest, TypeOK
<1>3. CacheCleared(Copied) \in [Cells -> Content]
  BY Shapes DEF CacheCleared, TypeOK
<1>4. Differ \subseteq Cells /\ AsCache \subseteq Cells /\ rgncache' \subseteq Cells
  BY CycleIs, CopiedIs DEF Differ, AsCache, ToCheck, NextRegion, TypeOK
<1>5. Good(Updates)
  <2>1. Good(AddChanged(Copied, Differ \ AsCache))
    BY <1>4, CopiedIs, AddedIsGood
  <2>. QED BY <1>4, <2>1, AddedIsGood DEF Updates
<1>6. ASSUME NEW k \in Clients PROVE Good(Pass(Updates, tracker[k], k \in CopyRect))
  <2>1. (k \in CopyRect) \in BOOLEAN /\ Good(tracker[k])
    BY DEF CopiesInside
  <2>. QED BY <1>5, <2>1, PassedIsGood
<1>7. \A k \in Clients : tracker'[k] = Pass(Updates, tracker[k], k \in CopyRect)
  BY CycleIs
<1>8. CopiesInside'
  BY <1>6, <1>7, CycleIs DEF CopiesInside, sender
<1>9. tracker' \in [Clients -> Tracker]
  BY <1>6, CycleIs DEF Good
<1>10. main' \in [Cells -> Content] /\ back' \in [Cells -> Content]
       /\ cache' \in [Cells -> Content]
  BY <1>1, <1>2, <1>3, CycleIs
<1>11. crossed' \subseteq Clients
  BY CycleIs DEF TypeOK
<1>. QED BY <1>4, <1>8, <1>9, <1>10, <1>11, CycleIs DEF TypeOK, PC, desk, sender, viewer

LEMMA DisplayTypes ==
  ASSUME TypeOK, CopiesInside, NEW s \in Sizes, DisplayChange(s)
  PROVE  TypeOK' /\ CopiesInside'
<1>1. \A k \in Clients : Good(Cleared(tracker[k]))
  BY PartsAreGood DEF CopiesInside
<1>2. CopiesInside'
  BY <1>1 DEF CopiesInside, DisplayChange, sender
<1>3. tracker' \in [Clients -> Tracker]
  BY <1>1 DEF DisplayChange, Good
<1>4. done' \in 0 .. MaxEvents
  BY CellsAreInts DEF TypeOK, DisplayChange
<1>5. screen' \in [Cells -> Content] /\ AllBlank \in [Cells -> Content]
  BY Shapes DEF DisplayChange
<1>6. rgncache' \subseteq Cells /\ untold' \subseteq Clients
  BY CellsAreInts DEF DisplayChange, ToTell
<1>. QED BY <1>2, <1>3, <1>4, <1>5, <1>6 DEF TypeOK, DisplayChange, sender, viewer

LEMMA TellTypes ==
  ASSUME TypeOK, CopiesInside, NEW k \in Clients, TellSize(k)
  PROVE  TypeOK' /\ CopiesInside'
<1>1. CopiesInside'
  BY DEF CopiesInside, TellSize, sender
<1>. QED BY <1>1 DEF TypeOK, TellSize, desk, sender, viewer

LEMMA PokeTypes ==
  ASSUME TypeOK, CopiesInside, NEW k \in Clients, Poke(k)
  PROVE  TypeOK' /\ CopiesInside'
<1>1. CopiesInside'
  BY DEF CopiesInside, Poke, sender
<1>2. done' \in 0 .. MaxEvents
  BY CellsAreInts DEF TypeOK, Poke
<1>. QED BY <1>1, <1>2 DEF TypeOK, Poke, grabber, sender, viewer

LEMMA TakeTypes ==
  ASSUME TypeOK, CopiesInside, NEW k \in Clients, TakeUpdate(k)
  PROVE  TypeOK' /\ CopiesInside'
<1>1. Good(Flushed(tracker[k], incr[k])) /\ Good(Rest(tracker[k], incr[k]))
  BY PartsAreGood DEF CopiesInside
<1>2. /\ upd' = [upd EXCEPT ![k] = Flushed(tracker[k], incr[k])]
      /\ tracker' = [tracker EXCEPT ![k] = Rest(tracker[k], incr[k])]
  BY DEF TakeUpdate
<1>3. tracker' \in [Clients -> Tracker] /\ upd' \in [Clients -> Tracker]
  BY <1>1, <1>2 DEF TypeOK, Good
<1>4. CopiesInside'
  BY <1>1, <1>2 DEF CopiesInside, TypeOK
<1>. QED BY <1>3, <1>4 DEF TypeOK, UPC, TakeUpdate, desk, viewer

LEMMA NothingTypes ==
  ASSUME TypeOK, CopiesInside, NEW k \in Clients, NothingToSend(k)
  PROVE  TypeOK' /\ CopiesInside'
<1>1. CopiesInside'
  BY DEF CopiesInside, NothingToSend
<1>. QED BY <1>1 DEF TypeOK, UPC, NothingToSend, desk, grabber, viewer

LEMMA AnsweredTypes ==
  ASSUME TypeOK, CopiesInside, NEW k \in Clients, Answered(k), UNCHANGED tracker
  PROVE  /\ CopiesInside' /\ upd' \in [Clients -> Tracker]
         /\ upc' \in [Clients -> UPC] /\ clip' \in [Clients -> SUBSET Cells]
         /\ sent' \in [Clients -> BOOLEAN] /\ asked' \in [Clients -> BOOLEAN]
<1>1. Good(Cleared(upd[k]))
  BY PartsAreGood DEF CopiesInside
<1>2. upd' = [upd EXCEPT ![k] = Cleared(upd[k])]
  BY DEF Answered
<1>3. CopiesInside' /\ upd' \in [Clients -> Tracker]
  BY <1>1, <1>2 DEF CopiesInside, Good, TypeOK
<1>. QED BY <1>3 DEF Answered, TypeOK, UPC

LEMMA NewSizeTypes ==
  ASSUME TypeOK, CopiesInside, NEW k \in Clients, SendNewSize(k)
  PROVE  TypeOK' /\ CopiesInside'
<1>1. Answered(k) /\ UNCHANGED tracker /\ newsize[k] \in Sizes
  BY DEF SendNewSize, TypeOK
<1>2. AllBlank \in [Cells -> Content]
  BY Shapes
<1>. QED BY <1>1, <1>2, AnsweredTypes DEF TypeOK, SendNewSize, desk, grabber

LEMMA SendTypes ==
  ASSUME TypeOK, CopiesInside, NEW k \in Clients, SendUpdate(k)
  PROVE  TypeOK' /\ CopiesInside'
<1>. DEFINE u == upd[k]
            drawn  == [c \in Cells |-> IF c \in CopyDest(u) THEN pic[k][c - u.delta]
                                      ELSE pic[k][c]]
            swap   == IF k \in CacheRect THEN u.cached ELSE {}
            data   == u.changed \union (u.cached \ swap)
            shown  == [c \in Cells |-> IF c \in swap THEN vcache[k][c] ELSE drawn[c]]
            kept   == [c \in Cells |-> IF c \in swap THEN drawn[c] ELSE vcache[k][c]]
            pic1   == [c \in Cells |-> IF c \in data /\ c <= vsize[k] THEN back[c]
                                      ELSE shown[c]]
            vcache1 == [c \in Cells |-> IF c \in data THEN shown[c] ELSE kept[c]]
<1>1. \A c \in CopyDest(u) : c - u.delta \in Cells
  <2>1. Good(u)
    BY DEF CopiesInside
  <2>2. u.copied \in SUBSET Int /\ u.delta \in Int
    BY <2>1, CellsAreInts DEF Good, Tracker
  <2>. QED BY <2>1, <2>2, Reads DEF Good, Source, CopyDest
<1>2. /\ pic[k] \in [Cells -> Content] /\ vcache[k] \in [Cells -> Content]
      /\ back \in [Cells -> Content]
  BY DEF TypeOK
<1>3. drawn \in [Cells -> Content]
  BY <1>1, <1>2
<1>4. shown \in [Cells -> Content] /\ kept \in [Cells -> Content]
  <2>. HIDE DEF drawn, swap
  <2>. QED BY <1>2, <1>3
<1>5. pic1 \in [Cells -> Content] /\ vcache1 \in [Cells -> Content]
  <2>. HIDE DEF shown, kept, data
  <2>. QED BY <1>2, <1>4
<1>6. pic' = [pic EXCEPT ![k] = pic1] /\ vcache' = [vcache EXCEPT ![k] = vcache1]
  BY DEF SendUpdate
<1>7. pic' \in [Clients -> [Cells -> Content]] /\ vcache' \in [Clients -> [Cells -> Content]]
  <2>. HIDE DEF pic1, vcache1
  <2>. QED BY <1>5, <1>6 DEF TypeOK
<1>8. crossed' \subseteq Clients
  BY DEF SendUpdate, TypeOK
<1>9. Answered(k) /\ UNCHANGED tracker
  BY DEF SendUpdate
<1>10. UNCHANGED <<desk, hints, dpc, known, rgncache, main, back, cache, untold,
                   tracker, incr, poke, newsize, vsize, full>>
  BY DEF SendUpdate
<1>. QED BY <1>7, <1>8, <1>9, <1>10, AnsweredTypes DEF TypeOK, desk

LEMMA RequestTypes ==
  ASSUME TypeOK, CopiesInside, NEW k \in Clients, NEW rgn \in Asks(k),
         NEW incremental \in BOOLEAN, Request(k, rgn, incremental)
  PROVE  TypeOK' /\ CopiesInside'
<1>1. rgn \in SUBSET Cells
  BY Shapes DEF Asks
<1>2. Good(AddChanged(tracker[k], rgn))
  BY <1>1, AddedIsGood DEF CopiesInside
<1>3. tracker' = tracker \/ tracker' = [tracker EXCEPT ![k] = AddChanged(tracker[k], rgn)]
  BY DEF Request
<1>4. tracker' \in [Clients -> Tracker]
  BY <1>2, <1>3 DEF TypeOK, Good
<1>5. CopiesInside'
  BY <1>2, <1>3 DEF CopiesInside, TypeOK, Request, sender
<1>6. incr' \in [Clients -> SUBSET Cells] /\ hints' \subseteq Cells
  BY <1>1 DEF TypeOK, Request
<1>. QED BY <1>4, <1>5, <1>6 DEF TypeOK, Request, desk, sender

LEMMA StutterTypes ==
  ASSUME TypeOK, CopiesInside, UNCHANGED vars
  PROVE  TypeOK' /\ CopiesInside'
BY DEF TypeOK, CopiesInside, vars, desk, grabber, sender, viewer

LEMMA PlacesAreInts ==
  ASSUME NEW c \in Cells, NEW i \in 0 .. WindowWidth - 1
  PROVE  c - i \in Int
BY CellsAreInts

LEMMA NextTypes == TypeOK /\ CopiesInside /\ [Next]_vars => TypeOK' /\ CopiesInside'
<1>. SUFFICES ASSUME TypeOK, CopiesInside, [Next]_vars
              PROVE  TypeOK' /\ CopiesInside'
  OBVIOUS
<1>1. ASSUME NEW c \in Cells, NEW v \in Content, Paint(c, v)
      PROVE  TypeOK' /\ CopiesInside'
  BY <1>1, PaintTypes
<1>2. ASSUME NEW c \in Cells, NEW i \in 0 .. WindowWidth - 1, MoveWindow(c - i)
      PROVE  TypeOK' /\ CopiesInside'
  BY <1>2, MoveTypes, PlacesAreInts
<1>3. ASSUME NEW c \in Cells, TakeHint(c)
      PROVE  TypeOK' /\ CopiesInside'
  BY <1>3, HintTypes
<1>4. CASE UpdateWanted
  BY <1>4, WantedTypes
<1>5. CASE Cycle
  BY <1>5, CycleTypes
<1>6. ASSUME NEW s \in Sizes, DisplayChange(s)
      PROVE  TypeOK' /\ CopiesInside'
  BY <1>6, DisplayTypes
<1>7. ASSUME NEW k \in Clients,
             \/ TellSize(k) \/ Poke(k) \/ TakeUpdate(k) \/ NothingToSend(k)
             \/ SendNewSize(k) \/ SendUpdate(k)
      PROVE  TypeOK' /\ CopiesInside'
  BY <1>7, TellTypes, PokeTypes, TakeTypes, NothingTypes, NewSizeTypes, SendTypes
<1>8. ASSUME NEW k \in Clients, NEW rgn \in Asks(k), NEW incremental \in BOOLEAN,
             Request(k, rgn, incremental)
      PROVE  TypeOK' /\ CopiesInside'
  BY <1>8, RequestTypes
<1>9. CASE UNCHANGED vars
  BY <1>9, StutterTypes
<1>. QED BY <1>1, <1>2, <1>3, <1>4, <1>5, <1>6, <1>7, <1>8, <1>9 DEF Next

\* Every variable keeps its type, and the copy of every tracker and of every
\* update reads cells inside the buffers, however add_copied, its clipping,
\* get_update and flush_update pass it on.
THEOREM Types == Spec => [](TypeOK /\ CopiesInside)
BY InitTypes, NextTypes, PTL DEF Spec

THEOREM TypeCorrect == Spec => []TypeOK
<1>1. TypeOK /\ CopiesInside => TypeOK
  OBVIOUS
<1>. QED BY <1>1, Types, PTL
-----------------------------------------------------------------------------
(***************************************************************************)
(* The desktop thread loses no change.  DesktopPending is inductive.       *)
(***************************************************************************)
LEMMA PendingInit == Init => DesktopPending
BY DEF Init, DesktopPending

LEMMA PendingCycle ==
  ASSUME TypeOK, DesktopPending, Cycle
  PROVE  DesktopPending'
<1>. SUFFICES ASSUME NEW c \in Screen, c \notin rgncache', c \notin hints
              PROVE  screen[c] = main'[c] /\ main'[c] = back'[c]
  BY CycleIs DEF DesktopPending, Screen, desk
<1>1. c \in Cells /\ c \notin Copied.copied /\ c \notin CopyDest(Copied)
  BY CycleIs, Shapes DEF NextRegion, CopyDest
<1>2. c \in Int
  BY <1>1, CellsAreInts
<1>3. BackCopied(Copied)[c] = back[c]
  BY <1>1 DEF BackCopied
<1>4. main'[c] = IF c \in Hull(rgncache) THEN screen[c] ELSE main[c]
  BY <1>1, CycleIs DEF Grabbed
<1>5. back'[c] = IF c \in Differ THEN Grabbed[c] ELSE back[c]
  BY <1>1, <1>3, CycleIs
<1>6. Grabbed[c] = main'[c]
  BY CycleIs
<1>7. CASE c \in rgncache
  <2>1. c \in Hull(rgncache)
    BY <1>1, <1>2, <1>7 DEF Hull
  <2>2. c \in Differ <=> Grabbed[c] # back[c]
    BY <1>1, <1>3, <1>7 DEF Differ, ToCheck
  <2>. QED BY <1>4, <1>5, <1>6, <2>1, <2>2
<1>8. CASE c \notin rgncache
  <2>1. screen[c] = main[c] /\ main[c] = back[c]
    BY <1>8 DEF DesktopPending
  <2>2. c \notin Differ
    BY <1>8 DEF Differ, ToCheck
  <2>. QED BY <1>4, <1>5, <2>1, <2>2
<1>. QED BY <1>7, <1>8

LEMMA PendingNext == TypeOK /\ DesktopPending /\ [Next]_vars => DesktopPending'
<1>. SUFFICES ASSUME TypeOK, DesktopPending, [Next]_vars
              PROVE  DesktopPending'
  OBVIOUS
<1>1. ASSUME NEW c \in Cells, NEW v \in Content, Paint(c, v)
      PROVE  DesktopPending'
  BY <1>1, Shapes DEF Paint, DesktopPending, Screen, TypeOK
<1>2. ASSUME NEW c \in Cells, NEW i \in 0 .. WindowWidth - 1, MoveWindow(c - i)
      PROVE  DesktopPending'
  <2>. DEFINE old == WindowAt(window) \intersect Screen
              new == WindowAt(c - i) \intersect Screen
  <2>1. hints' = hints \union old \union new /\ UNCHANGED <<size, rgncache, main, back>>
    BY <1>2 DEF MoveWindow
  <2>2. \A d \in Cells : d \notin old /\ d \notin new => screen'[d] = screen[d]
    BY <1>2 DEF MoveWindow
  <2>3. Screen' = Screen /\ Screen \subseteq Cells
    BY <2>1, Shapes DEF Screen
  <2>. HIDE DEF old, new
  <2>. QED BY <2>1, <2>2, <2>3 DEF DesktopPending
<1>3. ASSUME NEW c \in Cells, TakeHint(c)
      PROVE  DesktopPending'
  BY <1>3 DEF TakeHint, DesktopPending, Screen, desk
<1>4. CASE UpdateWanted
  BY <1>4 DEF UpdateWanted, DesktopPending, Screen, desk
<1>5. CASE Cycle
  BY <1>5, PendingCycle
<1>6. ASSUME NEW s \in Sizes, DisplayChange(s)
      PROVE  DesktopPending'
  BY <1>6 DEF DisplayChange, DesktopPending, Screen
<1>7. ASSUME NEW k \in Clients,
             \/ TellSize(k) \/ Poke(k) \/ TakeUpdate(k) \/ NothingToSend(k)
             \/ SendNewSize(k) \/ SendUpdate(k)
      PROVE  DesktopPending'
  <2>1. UNCHANGED <<size, screen, rgncache, hints, main, back>>
    BY <1>7 DEF TellSize, Poke, TakeUpdate, NothingToSend, SendNewSize, SendUpdate,
                desk, grabber
  <2>. QED BY <2>1 DEF DesktopPending, Screen
<1>8. ASSUME NEW k \in Clients, NEW rgn \in Asks(k), NEW incremental \in BOOLEAN,
             Request(k, rgn, incremental)
      PROVE  DesktopPending'
  BY <1>8 DEF Request, DesktopPending, Screen, desk
<1>9. CASE UNCHANGED vars
  BY <1>9 DEF vars, desk, grabber, DesktopPending, Screen
<1>. QED BY <1>1, <1>2, <1>3, <1>4, <1>5, <1>6, <1>7, <1>8, <1>9 DEF Next

\* Wherever no hint is queued and nothing waits to be compared, both buffers
\* hold what the screen shows: the next cycle checks what a copy has put there.
THEOREM DesktopLosesNothing == Spec => []DesktopPending
<1>1. TypeOK /\ CopiesInside => TypeOK
  OBVIOUS
<1>. QED BY <1>1, Types, PendingInit, PendingNext, PTL DEF Spec
-----------------------------------------------------------------------------
(***************************************************************************)
(* A request is kept.  RequestKept alone is not inductive: when SendUpdate  *)
(* has nothing to send, it is the clip region it took that must not be      *)
(* empty.                                                                  *)
(***************************************************************************)
LEMMA HeldInit == Init => RegionHeld
BY DEF Init, RegionHeld

LEMMA AskedIsNotEmpty ==
  ASSUME TypeOK, NEW k \in Clients, NEW rgn \in Asks(k)
  PROVE  rgn # {}
BY CellsAreInts DEF Asks, TypeOK

LEMMA HeldNext == TypeOK /\ RegionHeld /\ [Next]_vars => RegionHeld'
<1>. SUFFICES ASSUME TypeOK, RegionHeld, [Next]_vars
              PROVE  RegionHeld'
  OBVIOUS
<1>1. ASSUME UNCHANGED <<asked, incr, upc, clip>>
      PROVE  RegionHeld'
  BY <1>1 DEF RegionHeld
<1>2. ASSUME \/ \E c \in Cells, v \in Content : Paint(c, v)
             \/ \E c \in Cells, i \in 0 .. WindowWidth - 1 : MoveWindow(c - i)
             \/ \E c \in Cells : TakeHint(c)
             \/ UpdateWanted \/ Cycle
             \/ \E s \in Sizes : DisplayChange(s)
             \/ \E k \in Clients : TellSize(k) \/ Poke(k)
             \/ UNCHANGED vars
      PROVE  RegionHeld'
  <2>1. UNCHANGED <<asked, incr, upc, clip>>
    BY <1>2, CycleIs DEF Paint, MoveWindow, TakeHint, UpdateWanted, DisplayChange,
                         TellSize, Poke, vars, sender, viewer
  <2>. QED BY <1>1, <2>1
<1>3. ASSUME NEW k \in Clients, TakeUpdate(k)
      PROVE  RegionHeld'
  BY <1>3 DEF TakeUpdate, RegionHeld, TypeOK, viewer
<1>4. ASSUME NEW k \in Clients, NothingToSend(k)
      PROVE  RegionHeld'
  BY <1>4 DEF NothingToSend, RegionHeld, TypeOK, viewer
<1>5. ASSUME NEW k \in Clients, SendNewSize(k) \/ SendUpdate(k)
      PROVE  RegionHeld'
  <2>1. Answered(k) /\ UNCHANGED incr
    BY <1>5 DEF SendNewSize, SendUpdate
  <2>. QED BY <2>1 DEF Answered, RegionHeld, TypeOK
<1>6. ASSUME NEW k \in Clients, NEW rgn \in Asks(k), NEW incremental \in BOOLEAN,
             Request(k, rgn, incremental)
      PROVE  RegionHeld'
  BY <1>6, AskedIsNotEmpty DEF Request, RegionHeld, TypeOK, sender
<1>. QED BY <1>2, <1>3, <1>4, <1>5, <1>6 DEF Next

LEMMA HeldIsKept == RegionHeld => RequestKept
BY DEF RegionHeld, RequestKept

\* Until it is answered, a request's region is asked for, or the update thread
\* is at work on it.
THEOREM RequestsAreKept == Spec => []RequestKept
<1>1. TypeOK /\ CopiesInside => TypeOK
  OBVIOUS
<1>. QED BY <1>1, Types, HeldInit, HeldNext, HeldIsKept, PTL DEF Spec
-----------------------------------------------------------------------------
(***************************************************************************)
(* The right size is on its way.                                           *)
(***************************************************************************)
LEMMA SizeInit == Init => TheRightSize
BY DEF Init, TheRightSize

LEMMA SizeNext == TypeOK /\ TheRightSize /\ [Next]_vars => TheRightSize'
<1>. SUFFICES ASSUME TypeOK, TheRightSize, [Next]_vars
              PROVE  TheRightSize'
  OBVIOUS
<1>1. ASSUME UNCHANGED <<size, untold, newsize, vsize>>
      PROVE  TheRightSize'
  BY <1>1 DEF TheRightSize
<1>2. ASSUME \/ \E c \in Cells, v \in Content : Paint(c, v)
             \/ \E c \in Cells, i \in 0 .. WindowWidth - 1 : MoveWindow(c - i)
             \/ \E c \in Cells : TakeHint(c)
             \/ UpdateWanted \/ Cycle
             \/ UNCHANGED vars
      PROVE  TheRightSize'
  <2>1. UNCHANGED <<size, untold, newsize, vsize>>
    BY <1>2, CycleIs DEF Paint, MoveWindow, TakeHint, UpdateWanted,
                         vars, desk, grabber, viewer
  <2>. QED BY <1>1, <2>1
<1>3. ASSUME NEW k \in Clients,
             \/ Poke(k) \/ TakeUpdate(k) \/ NothingToSend(k) \/ SendUpdate(k)
             \/ \E rgn \in Asks(k), incremental \in BOOLEAN : Request(k, rgn, incremental)
      PROVE  TheRightSize'
  <2>1. UNCHANGED <<size, untold, newsize, vsize>>
    BY <1>3 DEF Poke, TakeUpdate, NothingToSend, SendUpdate, Request,
                desk, grabber, viewer
  <2>. QED BY <1>1, <2>1
<1>4. ASSUME NEW s \in Sizes, DisplayChange(s)
      PROVE  TheRightSize'
  <2>1. CASE s = size
    BY <1>4, <2>1 DEF DisplayChange, ToTell, TheRightSize, viewer
  <2>2. CASE s # size
    BY <1>4, <2>2 DEF DisplayChange, ToTell, TheRightSize
  <2>. QED BY <2>1, <2>2
<1>5. ASSUME NEW k \in Clients, TellSize(k)
      PROVE  TheRightSize'
  BY <1>5 DEF TellSize, TheRightSize, TypeOK, desk, viewer
<1>6. ASSUME NEW k \in Clients, SendNewSize(k)
      PROVE  TheRightSize'
  BY <1>6 DEF SendNewSize, TheRightSize, TypeOK, desk, grabber
<1>. QED BY <1>2, <1>3, <1>4, <1>5, <1>6 DEF Next

LEMMA RightSizeComes == TheRightSize => SizeOnItsWay
BY DEF TheRightSize, SizeOnItsWay

\* A viewer whose picture has another size than the screen is going to be told
\* the right one, also when the size changes again before it was told.
THEOREM SizeIsOnItsWay == Spec => []SizeOnItsWay
<1>1. TypeOK /\ CopiesInside => TypeOK
  OBVIOUS
<1>. QED BY <1>1, Types, SizeInit, SizeNext, RightSizeComes, PTL DEF Spec
=============================================================================
