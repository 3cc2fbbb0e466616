-------------------------- MODULE UpdateFlow_picture -------------------------
(***************************************************************************)
(* The pictures of the viewers: for any number of viewers and any screens,  *)
(* no viewer is left with a wrong cell that nothing is going to correct,    *)
(* unless a copy or a cached cell crossed another change on its way to it.  *)
(* The argument follows what each viewer would show if it were sent its     *)
(* tracker now: the back buffer, outside of what is still to be sent as     *)
(* changed.  It is made twice: without a cache, for viewers of which each   *)
(* has a tracker of its own, and with one, for the two buffers together.    *)
(***************************************************************************)
EXTENDS UpdateFlow_proofs

\* What cell c shows once the copies of t are made on picture p.
After(t, p, c) == IF c \in CopyDest(t) THEN p[c - t.delta] ELSE p[c]

\* Picture p follows buffer b at cell c once t is sent: c is sent as changed,
\* or the copies give it, or the buffer has nothing to show there yet.
Agrees(t, p, b, c) == c \in t.changed \/ b = Blank \/ After(t, p, c) = b

Follows(k, c) ==
    \/ c \in tracker[k].changed
    \/ IF upc[k] = "wait" THEN Agrees(tracker[k], pic[k], back[c], c)
       ELSE Agrees(upd[k], pic[k], back[c], c)

PictureFollows ==
    \A k \in Clients \ crossed : ~Renewed(k) => \A c \in Screen : Follows(k, c)

\* No copy waits behind an update that is on its way.
NoCopyBehind ==
    /\ \A k \in Clients \ crossed : upc[k] # "wait" => tracker[k].copied = {}
    /\ \A k \in Clients \ CopyRect : tracker[k].copied = {}

NoneCached == \A k \in Clients : tracker[k].cached = {} /\ upd[k].cached = {}

\* The screen is never blank, and a blank cell of the back buffer is looked at.
BlankIsSeen ==
    \A c \in Screen : screen[c] # Blank /\ (back[c] = Blank => c \in rgncache)

\* What the argument with a cache and the one without it rest on.
BaseInv ==
    /\ TypeOK /\ CopiesInside /\ DesktopPending /\ TheRightSize
    /\ BlankIsSeen /\ NoCopyBehind

PictureInv == BaseInv /\ NoneCached /\ PictureFollows
-----------------------------------------------------------------------------
(***************************************************************************)
(* What the operations on trackers do to what a picture would show.        *)
(***************************************************************************)
\* A region that is added as changed only gives up cells.
LEMMA ChangedAgrees ==
  ASSUME NEW t, Good(t), NEW rgn \in SUBSET Cells, NEW p, NEW b, NEW c,
         Agrees(t, p, b, c)
  PROVE  /\ Agrees(AddChanged(t, rgn), p, b, c)
         /\ c \in rgn => c \in AddChanged(t, rgn).changed
         /\ AddChanged(t, rgn).copied = t.copied /\ AddChanged(t, rgn).cached = t.cached
<1>1. /\ AddChanged(t, rgn).changed = t.changed \union rgn
      /\ AddChanged(t, rgn).copied = t.copied /\ AddChanged(t, rgn).delta = t.delta
      /\ AddChanged(t, rgn).cached = t.cached
  BY DEF AddChanged, Good, Tracker
<1>2. CASE c \in t.changed \/ c \in rgn \/ b = Blank
  BY <1>1, <1>2 DEF Agrees
<1>3. CASE c \notin t.changed /\ c \notin rgn /\ b # Blank
  <2>1. c \in CopyDest(AddChanged(t, rgn)) <=> c \in CopyDest(t)
    BY <1>1, <1>3 DEF CopyDest
  <2>2. After(AddChanged(t, rgn), p, c) = After(t, p, c)
    BY <1>1, <2>1 DEF After
  <2>. QED BY <1>1, <1>3, <2>2 DEF Agrees
<1>. QED BY <1>1, <1>2, <1>3

\* The back buffer after the copy of dest.
Moved(b, dest, delta, c) == IF c \in dest THEN b[c - delta] ELSE b[c]

\* A copy that is added to a tracker, while the back buffer makes the copy too.
LEMMA ContinueAgrees ==
  ASSUME NEW t, Good(t), NEW dest \in SUBSET Cells, NEW delta \in Int,
         NEW p, NEW b, NEW S,
         Shift(dest, -delta) \subseteq S,
         \A x \in S : Agrees(t, p, b[x], x),
         NEW c \in S, c \in Cells
  PROVE  Agrees(ContinueCopy(t, dest, delta), p, Moved(b, dest, delta, c), c)
<1>. DEFINE part == (Shift(dest, -delta) \intersect t.copied) \ t.changed
            valid == Shift(part, delta)
            new == ContinueCopy(t, dest, delta)
<1>0. /\ dest \in SUBSET Int /\ t.copied \in SUBSET Cells /\ t.copied \in SUBSET Int
      /\ t.delta \in Int /\ c \in Int
  BY CellsAreInts DEF Good, Tracker
<1>1. valid \subseteq dest
  BY <1>0, ShiftBack
<1>2. /\ new.changed = (t.changed \union t.copied \union dest) \ valid
      /\ new.copied = valid /\ new.delta = t.delta + delta
  BY DEF ContinueCopy
<1>3. CASE c \in valid
  <2>1. PICK d \in part : c = d + delta
    BY <1>3 DEF Shift
  <2>2. d \in S /\ d \in t.copied /\ d \notin t.changed /\ d \in Int
    BY <1>0, <2>1
  <2>3. d = c - delta /\ d - t.delta = c - (t.delta + delta)
    BY <1>0, <2>1, <2>2
  <2>4. c \in dest /\ Moved(b, dest, delta, c) = b[d]
    BY <1>1, <1>3, <2>3 DEF Moved
  <2>5. b[d] = Blank \/ p[d - t.delta] = b[d]
    BY <2>2 DEF Agrees, After, CopyDest
  <2>. HIDE DEF valid, new
  <2>6. c \in CopyDest(new)
    BY <1>2, <1>3 DEF CopyDest
  <2>7. After(new, p, c) = p[c - (t.delta + delta)]
    BY <1>2, <2>6 DEF After
  <2>. QED BY <2>3, <2>4, <2>5, <2>7 DEF Agrees, new
<1>4. CASE c \notin valid /\ (c \in t.changed \/ c \in t.copied \/ c \in dest)
  <2>. HIDE DEF valid
  <2>. QED BY <1>2, <1>4 DEF Agrees
<1>5. CASE c \notin valid /\ c \notin t.changed /\ c \notin t.copied /\ c \notin dest
  <2>. HIDE DEF valid, new
  <2>1. Moved(b, dest, delta, c) = b[c]
    BY <1>5 DEF Moved
  <2>2. After(new, p, c) = p[c] /\ After(t, p, c) = p[c]
    BY <1>2, <1>5 DEF After, CopyDest
  <2>3. b[c] = Blank \/ p[c] = b[c]
    BY <1>5, <2>2 DEF Agrees
  <2>. QED BY <2>1, <2>2, <2>3 DEF Agrees, new
<1>. QED BY <1>3, <1>4, <1>5

LEMMA ReplaceAgrees ==
  ASSUME NEW t, Good(t), NEW dest \in SUBSET Cells, NEW delta \in Int,
         NEW p, NEW b, NEW S,
         Shift(dest, -delta) \subseteq S, Shift(dest, -delta) \intersect t.copied = {},
         \A x \in S : Agrees(t, p, b[x], x),
         NEW c \in S, c \in Cells
  PROVE  Agrees(ReplaceCopy(t, dest, delta), p, Moved(b, dest, delta, c), c)
<1>. DEFINE invalid == Shift(Shift(dest, -delta) \intersect t.changed, delta)
            new == ReplaceCopy(t, dest, delta)
<1>0. dest \in SUBSET Int /\ c \in Int
  BY CellsAreInts
<1>2. /\ new.changed = t.changed \union invalid \union t.copied
      /\ new.copied = dest \ invalid /\ new.delta = delta
  BY DEF ReplaceCopy
<1>3. CASE c \in t.changed \/ c \in invalid \/ c \in t.copied
  <2>. HIDE DEF invalid
  <2>. QED BY <1>2, <1>3 DEF Agrees
<1>4. CASE c \notin t.changed /\ c \notin invalid /\ c \notin t.copied /\ c \in dest
  <2>. DEFINE d == c - delta
  <2>1. d \in Shift(dest, -delta)
    <3>1. c + (-delta) = d
      BY <1>0
    <3>. QED BY <1>4, <3>1 DEF Shift
  <2>2. d + delta = c
    BY <1>0
  <2>3. d \notin t.changed
    BY <1>4, <2>1, <2>2 DEF Shift
  <2>4. d \in S /\ d \notin t.copied
    BY <2>1
  <2>5. Moved(b, dest, delta, c) = b[d]
    BY <1>4 DEF Moved
  <2>6. b[d] = Blank \/ p[d] = b[d]
    <3>. HIDE DEF d
    <3>. QED BY <2>3, <2>4 DEF Agrees, After, CopyDest
  <2>. HIDE DEF invalid, new
  <2>7. After(new, p, c) = p[d]
    BY <1>2, <1>4 DEF After, CopyDest
  <2>. HIDE DEF d
  <2>. QED BY <2>5, <2>6, <2>7 DEF Agrees, new
<1>5. CASE c \notin t.changed /\ c \notin invalid /\ c \notin t.copied /\ c \notin dest
  <2>. HIDE DEF invalid, new
  <2>1. Moved(b, dest, delta, c) = b[c]
    BY <1>5 DEF Moved
  <2>2. After(new, p, c) = p[c] /\ After(t, p, c) = p[c]
    BY <1>2, <1>5 DEF After, CopyDest
  <2>3. b[c] = Blank \/ p[c] = b[c]
    BY <1>5, <2>2 DEF Agrees
  <2>. QED BY <2>1, <2>2, <2>3 DEF Agrees, new
<1>. QED BY <1>3, <1>4, <1>5

LEMMA AddAgrees ==
  ASSUME NEW t, Good(t), NEW dest \in SUBSET Cells, NEW delta \in Int,
         NEW p, NEW b, NEW S,
         Shift(dest, -delta) \subseteq S,
         \A x \in S : Agrees(t, p, b[x], x),
         NEW c \in S, c \in Cells
  PROVE  Agrees(AddCopied(t, TRUE, dest, delta), p, Moved(b, dest, delta, c), c)
<1>. DEFINE new == AddCopied(t, TRUE, dest, delta)
<1>1. CASE dest = {}
  <2>0. Shift(dest, -delta) = {}
    BY <1>1 DEF Shift
  <2>1. new = t /\ Moved(b, dest, delta, c) = b[c]
    BY <1>1, <2>0 DEF AddCopied, Moved
  <2>2. Agrees(t, p, b[c], c)
    OBVIOUS
  <2>. QED BY <2>1, <2>2
<1>2. CASE Shift(dest, -delta) \intersect t.copied # {}
  <2>1. dest # {}
    BY <1>2 DEF Shift
  <2>2. new = ContinueCopy(t, dest, delta)
    BY <1>2, <2>1 DEF AddCopied
  <2>. QED BY <2>2, ContinueAgrees
<1>3. CASE dest # {} /\ Shift(dest, -delta) \intersect t.copied = {}
  <2>1. new = IF Area(t.copied) > Area(dest) THEN AddChanged(t, dest)
              ELSE ReplaceCopy(t, dest, delta)
    BY <1>3 DEF AddCopied
  <2>2. Agrees(ReplaceCopy(t, dest, delta), p, Moved(b, dest, delta, c), c)
    BY <1>3, ReplaceAgrees
  <2>3. Agrees(AddChanged(t, dest), p, Moved(b, dest, delta, c), c)
    <3>1. CASE c \in dest
      BY <3>1, ChangedAgrees DEF Agrees
    <3>2. CASE c \notin dest
      BY <3>2, ChangedAgrees DEF Moved
    <3>. QED BY <3>1, <3>2
  <2>. QED BY <2>1, <2>2, <2>3
<1>. QED BY <1>1, <1>2, <1>3

\* flush_update moves what is inside cliprgn, copy and all, to another tracker.
LEMMA FlushedIs ==
  ASSUME NEW t, Good(t), NEW cliprgn
  PROVE  LET f == Flushed(t, cliprgn)
         IN  /\ t.changed \intersect cliprgn \subseteq f.changed
             /\ f.changed \subseteq (t.changed \union t.copied) \intersect cliprgn
             /\ f.cached = t.cached \intersect cliprgn
             /\ f.copied \subseteq t.copied \intersect cliprgn
             /\ t.copied \intersect cliprgn \subseteq f.changed \union f.copied
             /\ f.copied # {} => f.delta = t.delta
<1>. DEFINE i == Inside(t, cliprgn)
            t1 == IF i.copied = {} THEN Nothing ELSE AddCopied(Nothing, TRUE, i.copied, i.delta)
            f == Flushed(t, cliprgn)
<1>1. /\ i.changed = t.changed \intersect cliprgn /\ i.cached = t.cached \intersect cliprgn
      /\ i.copied = t.copied \intersect cliprgn /\ i.delta = t.delta
  BY DEF Inside
<1>2. Nothing.changed = {} /\ Nothing.cached = {} /\ Nothing.copied = {}
  BY DEF Nothing
<1>3. /\ t1.cached = {} /\ t1.copied \subseteq i.copied
      /\ t1.changed \subseteq i.copied
      /\ i.copied \subseteq t1.changed \union t1.copied
      /\ t1.copied # {} => t1.delta = t.delta
      /\ t1 \in Tracker
  <2>1. CASE i.copied = {}
    <3>1. t1 = Nothing
      BY <2>1
    <3>. QED BY <1>2, <2>1, <3>1, NothingIsGood DEF Good
  <2>2. CASE i.copied # {}
    <3>. DEFINE chg == AddChanged(Nothing, i.copied)
                rep == ReplaceCopy(Nothing, i.copied, i.delta)
    <3>1. t1 = chg \/ t1 = rep
      BY <1>2, <2>2 DEF AddCopied
    <3>2. /\ chg.cached = {} /\ chg.copied = {} /\ chg.changed = i.copied
      BY DEF AddChanged, Nothing
    <3>3. /\ rep.cached = {} /\ rep.copied = i.copied /\ rep.delta = t.delta
          /\ rep.changed = {}
      BY <1>1 DEF ReplaceCopy, Nothing, Shift
    <3>4. t1 \in Tracker
      <4>1. Good(i)
        BY DEF Good, Tracker, Source, Shift, Inside
      <4>2. i.copied \in SUBSET Cells /\ i.delta \in Int /\ Shift(i.copied, -i.delta) \subseteq Cells
        BY <4>1 DEF Good, Tracker, Source
      <4>. HIDE DEF i
      <4>3. Good(AddCopied(Nothing, TRUE, i.copied, i.delta))
        BY <4>2, NothingIsGood, CopiedIsGood
      <4>. QED BY <2>2, <4>3 DEF Good
    <3>. HIDE DEF chg, rep, i, t1
    <3>. QED BY <3>1, <3>2, <3>3, <3>4
  <2>. QED BY <2>1, <2>2
<1>4. /\ f.changed = t1.changed \union i.changed /\ f.cached = t1.cached \union i.cached
      /\ f.copied = t1.copied /\ f.delta = t1.delta
  <2>1. f = AddCached(AddChanged(t1, i.changed), i.cached)
    BY DEF Flushed, Pass
  <2>. HIDE DEF t1, i, f
  <2>. QED BY <1>3, <2>1 DEF AddCached, AddChanged, Tracker
<1>. HIDE DEF t1, i
<1>. QED BY <1>1, <1>3, <1>4

\* A tracker whose copy is flushed as a whole: nothing the viewer would show
\* is lost between the update and what stays in the tracker.
LEMMA FlushAgrees ==
  ASSUME NEW t, Good(t), NEW cliprgn, NEW p, NEW b, NEW c,
         Agrees(t, p, b, c), Rest(t, cliprgn).copied = {}
  PROVE  c \in Rest(t, cliprgn).changed \/ Agrees(Flushed(t, cliprgn), p, b, c)
<1>. DEFINE f == Flushed(t, cliprgn)
<1>1. Rest(t, cliprgn).changed = t.changed \ cliprgn /\ t.copied \subseteq cliprgn
  BY DEF Rest, Good, Tracker
<1>2. /\ t.changed \intersect cliprgn \subseteq f.changed
      /\ f.copied \subseteq t.copied /\ t.copied \subseteq f.changed \union f.copied
      /\ f.copied # {} => f.delta = t.delta
  BY <1>1, FlushedIs
<1>. HIDE DEF f
<1>3. CASE c \in t.changed \/ b = Blank \/ c \in f.changed
  BY <1>1, <1>2, <1>3 DEF Agrees, f
<1>4. CASE c \notin t.changed /\ c \notin f.changed /\ b # Blank
  <2>1. After(t, p, c) = b
    BY <1>4 DEF Agrees
  <2>2. c \in CopyDest(f) <=> c \in CopyDest(t)
    BY <1>2, <1>4 DEF CopyDest
  <2>3. After(f, p, c) = After(t, p, c)
    BY <1>2, <2>2 DEF After, CopyDest
  <2>. QED BY <2>1, <2>3 DEF Agrees, f
<1>. QED BY <1>3, <1>4
-----------------------------------------------------------------------------
(***************************************************************************)
(* The cycle of the desktop thread.                                        *)
(***************************************************************************)
\* The copy of the cycle reads the screen only, and there is no cached cell
\* without a cache client.
LEMMA CycleCopy ==
  ASSUME TypeOK
  PROVE  /\ Shift(Copied.copied, -Copied.delta) \subseteq Screen
         /\ Copied.copied \in SUBSET Cells /\ Copied.delta \in Int
         /\ Copied.cached = {} /\ (CacheRect = {} => AsCache = {})
         /\ Updates.copied = Copied.copied /\ Updates.delta = Copied.delta
         /\ Updates.cached = AsCache
         /\ Updates.changed = Copied.changed \union (Differ \ AsCache)
<1>. DEFINE dest == WindowCopy.dest
            delta == WindowCopy.delta
            inside == dest \intersect Screen
            part   == Shift(inside, -delta) \intersect Screen
            both   == Shift(part, delta)
            rep    == ReplaceCopy(Nothing, both, delta)
            child  == IF both = {} THEN Nothing ELSE AddCopied(Nothing, TRUE, both, delta)
<1>0. /\ dest \in SUBSET Cells /\ delta \in Int /\ inside \in SUBSET Int
      /\ Screen \in SUBSET Int
  BY WindowCopyTypes, Shapes, CellsAreInts
<1>. HIDE DEF dest, delta
<1>1. \A c \in both : c - delta \in Screen
  <2>. SUFFICES ASSUME NEW c \in both PROVE c - delta \in Screen
    OBVIOUS
  <2>1. PICK d \in part : c = d + delta
    BY DEF Shift
  <2>2. d \in Int /\ d \in Screen /\ c - delta = d
    BY <1>0, <2>1
  <2>. QED BY <2>2
<1>2. both \subseteq inside
  BY <1>0, ShiftBack
<1>3. Shift(both, -delta) \subseteq Screen
  <2>1. both \in SUBSET Int
    BY <1>0, <1>2
  <2>. HIDE DEF both
  <2>. QED BY <1>0, <1>1, <2>1, Reads
<1>4. /\ child.copied = {} \/ (child.copied = both /\ child.delta = delta)
      /\ child.cached = {} /\ child.delta \in Int
  <2>. HIDE DEF both
  <2>1. rep.copied = both /\ rep.delta = delta /\ rep.cached = {}
    BY DEF ReplaceCopy, Nothing, Shift
  <2>2. /\ AddChanged(Nothing, both).copied = {} /\ AddChanged(Nothing, both).cached = {}
        /\ AddChanged(Nothing, both).delta = 0
    BY DEF AddChanged, Nothing
  <2>3. Nothing.copied = {} /\ Nothing.cached = {} /\ Nothing.delta = 0
    BY DEF Nothing
  <2>. HIDE DEF rep
  <2>4. child = Nothing \/ child = AddChanged(Nothing, both) \/ child = rep
    BY <2>3 DEF AddCopied, rep
  <2>. HIDE DEF child
  <2>. QED BY <1>0, <2>1, <2>2, <2>3, <2>4
<1>5. Copied = IF inside = {} THEN Nothing ELSE AddChanged(child, dest \ both)
  BY DEF Copied, AddCopiedClipped, dest, delta
<1>6. Good(Copied)
  BY CopiedIs
<1>7. \/ Copied = Nothing
      \/ Copied.copied = child.copied /\ Copied.delta = child.delta /\ Copied.cached = child.cached
  <2>1. Good(child)
    <3>1. both \in SUBSET Cells /\ Screen \in SUBSET Cells
      BY <1>0, <1>2, Shapes
    <3>. HIDE DEF both
    <3>. QED BY <1>0, <1>3, <3>1, NothingIsGood, CopiedIsGood
  <2>. HIDE DEF child, both, inside
  <2>. QED BY <1>5, <2>1 DEF AddChanged, Good, Tracker
<1>8. /\ Copied.copied = {} \/ (Copied.copied = both /\ Copied.delta = delta)
      /\ Copied.cached = {}
  <2>. HIDE DEF child, both
  <2>. QED BY <1>4, <1>7 DEF Nothing
<1>9. Shift(Copied.copied, -Copied.delta) \subseteq Screen
  <2>. HIDE DEF both
  <2>1. CASE Copied.copied = {}
    BY <2>1 DEF Shift
  <2>2. CASE Copied.copied = both /\ Copied.delta = delta
    BY <1>3, <2>2
  <2>. QED BY <1>8, <2>1, <2>2
<1>10. CacheRect = {} => AsCache = {}
  BY DEF AsCache, UseCache
<1>11. Copied \in Tracker
  BY <1>6 DEF Good
<1>12. Updates = AddCached(AddChanged(Copied, Differ \ AsCache), AsCache)
  BY DEF Updates
<1>13. /\ Updates.copied = Copied.copied /\ Updates.delta = Copied.delta
       /\ Updates.cached = AsCache
       /\ Updates.changed = Copied.changed \union (Differ \ AsCache)
  BY <1>8, <1>11, <1>12 DEF AddCached, AddChanged, Tracker
<1>14. Copied.copied \in SUBSET Cells /\ Copied.delta \in Int
  BY <1>11 DEF Tracker
<1>. QED BY <1>8, <1>9, <1>10, <1>13, <1>14

\* What get_update does to the tracker of a client in the cycle.
LEMMA PassedUpdates ==
  ASSUME TypeOK, CopiesInside, NEW k \in Clients, Good(Updates)
  PROVE  LET t == tracker[k]
             e == k \in CopyRect
             t1 == IF Copied.copied = {} THEN t
                   ELSE AddCopied(t, e, Copied.copied, Copied.delta)
             new == Pass(Updates, t, e)
         IN  /\ Good(t1) /\ Good(new)
             /\ new.changed = t1.changed \union Copied.changed \union (Differ \ AsCache)
             /\ new.copied = t1.copied /\ new.delta = t1.delta
             /\ new.cached = t1.cached \union AsCache
<1>. DEFINE t == tracker[k]
            e == k \in CopyRect
            t1 == IF Copied.copied = {} THEN t
                  ELSE AddCopied(t, e, Copied.copied, Copied.delta)
            new == Pass(Updates, t, e)
<1>1. Good(t) /\ e \in BOOLEAN
  BY DEF CopiesInside
<1>2. /\ Shift(Copied.copied, -Copied.delta) \subseteq Cells
      /\ Copied.copied \in SUBSET Cells /\ Copied.delta \in Int
  BY CycleCopy, Shapes
<1>3. Good(t1)
  <2>. HIDE DEF t, e
  <2>. QED BY <1>1, <1>2, CopiedIsGood
<1>4. Good(new)
  <2>. HIDE DEF t, e
  <2>. QED BY <1>1, PassedIsGood
<1>5. new = AddCached(AddChanged(t1, Updates.changed), AsCache)
  BY CycleCopy DEF Pass
<1>6. /\ new.changed = t1.changed \union Updates.changed
      /\ new.copied = t1.copied /\ new.delta = t1.delta
      /\ new.cached = t1.cached \union AsCache
  <2>. HIDE DEF t1, new
  <2>. QED BY <1>3, <1>5 DEF Good, Tracker, AddCached, AddChanged
<1>. HIDE DEF t1, new
<1>7. new.changed = t1.changed \union Copied.changed \union (Differ \ AsCache)
  BY <1>6, CycleCopy
<1>. QED BY <1>3, <1>4, <1>5, <1>6, <1>7 DEF t1, new

LEMMA UpdatesAreGood ==
  ASSUME TypeOK
  PROVE  Good(Updates) /\ Updates.changed \in SUBSET Cells
<1>1. Good(Copied) /\ Differ \in SUBSET Cells /\ AsCache \in SUBSET Cells
  BY CopiedIs DEF Differ, AsCache, ToCheck, TypeOK
<1>2. Good(AddChanged(Copied, Differ \ AsCache))
  BY <1>1, AddedIsGood
<1>3. Good(Updates)
  BY <1>1, <1>2, AddedIsGood DEF Updates
<1>. QED BY <1>3 DEF Good, Tracker

\* The back buffer at cell c after the cycle.
LEMMA BackAfter ==
  ASSUME TypeOK, Cycle, NEW c \in Screen
  PROVE  \/ c \in Differ
         \/ c \in Copied.changed
         \/ c \notin Differ /\ back'[c] = Moved(back, Copied.copied, Copied.delta, c)
<1>1. c \in Cells
  BY Shapes
<1>2. c \notin Differ => back'[c] = BackCopied(Copied)[c]
  BY <1>1, CycleIs
<1>3. c \notin Copied.changed =>
        BackCopied(Copied)[c] = Moved(back, Copied.copied, Copied.delta, c)
  BY <1>1 DEF BackCopied, CopyDest, Moved
<1>. QED BY <1>2, <1>3

LEMMA CycleBlank ==
  ASSUME TypeOK, BlankIsSeen, Cycle
  PROVE  BlankIsSeen'
<1>. SUFFICES ASSUME NEW c \in Screen
              PROVE  screen[c] # Blank /\ (back'[c] = Blank => c \in Copied.copied)
  BY CycleIs DEF BlankIsSeen, Screen, NextRegion, desk
<1>1. c \in Cells /\ c \in Int /\ screen[c] # Blank
  BY Shapes, CellsAreInts DEF BlankIsSeen
<1>2. SUFFICES ASSUME back'[c] = Blank, c \notin Copied.copied
               PROVE  FALSE
  BY <1>1
<1>3. BackCopied(Copied)[c] = back[c]
  BY <1>1, <1>2 DEF BackCopied, CopyDest
<1>4. back'[c] = IF c \in Differ THEN Grabbed[c] ELSE back[c]
  BY <1>1, <1>3, CycleIs
<1>5. CASE c \in rgncache
  <2>1. Grabbed[c] = screen[c]
    BY <1>1, <1>5 DEF Grabbed, Hull
  <2>2. c \in Differ <=> Grabbed[c] # back[c]
    BY <1>2, <1>3, <1>5 DEF Differ, ToCheck
  <2>. QED BY <1>1, <1>2, <1>4, <2>1, <2>2
<1>6. CASE c \notin rgncache
  <2>1. c \notin Differ /\ back[c] # Blank
    BY <1>6 DEF Differ, ToCheck, BlankIsSeen
  <2>. QED BY <1>2, <1>4, <2>1
<1>. QED BY <1>5, <1>6

\* What add_copied does to the cached cells of a tracker: nothing.
LEMMA CopyKeepsCached ==
  ASSUME NEW t, Good(t), NEW e, NEW dest, NEW delta
  PROVE  /\ AddCopied(t, e, dest, delta).cached = t.cached
         /\ ~e => AddCopied(t, e, dest, delta).copied = t.copied
<1>. DEFINE new == AddCopied(t, e, dest, delta)
<1>1. /\ ContinueCopy(t, dest, delta).cached = t.cached
      /\ ReplaceCopy(t, dest, delta).cached = t.cached
      /\ AddChanged(t, dest).cached = t.cached /\ AddChanged(t, dest).copied = t.copied
  BY DEF ContinueCopy, ReplaceCopy, AddChanged, Good, Tracker
<1>2. \/ new = t \/ new = AddChanged(t, dest)
      \/ new = ContinueCopy(t, dest, delta)
      \/ new = ReplaceCopy(t, dest, delta)
  BY DEF AddCopied
<1>3. ~e => new = t \/ new = AddChanged(t, dest)
  BY DEF AddCopied
<1>. HIDE DEF new
<1>. QED BY <1>1, <1>2, <1>3 DEF new

LEMMA CycleBehind ==
  ASSUME TypeOK, CopiesInside, NoCopyBehind, Cycle
  PROVE  NoCopyBehind'
<1>. SUFFICES ASSUME NEW k \in Clients
              PROVE  /\ k \notin crossed' /\ upc'[k] # "wait" => tracker'[k].copied = {}
                     /\ k \notin CopyRect => tracker'[k].copied = {}
  BY DEF NoCopyBehind
<1>. DEFINE t == tracker[k]
            e == k \in CopyRect
            t1 == IF Copied.copied = {} THEN t
                  ELSE AddCopied(t, e, Copied.copied, Copied.delta)
            new == Pass(Updates, t, e)
<1>1. tracker'[k] = new /\ upc' = upc
  BY CycleIs DEF sender
<1>2. new.copied = t1.copied
  BY UpdatesAreGood, PassedUpdates
<1>3. ~e => t1.copied = t.copied
  <2>1. Good(t)
    BY DEF CopiesInside
  <2>2. ~e => AddCopied(t, e, Copied.copied, Copied.delta).copied = t.copied
    <3>. HIDE DEF t, e
    <3>. QED BY <2>1, CopyKeepsCached
  <2>. QED BY <2>2
<1>4. Copied.copied = {} => t1.copied = t.copied
  OBVIOUS
<1>5. ~e => t.copied = {}
  BY DEF NoCopyBehind
<1>6. ASSUME k \notin crossed', upc[k] # "wait" PROVE t.copied = {} /\ (~e \/ Copied.copied = {})
  <2>1. k \notin crossed /\ ~Overtakes(k, Copied, Differ)
    BY <1>6, CycleIs
  <2>2. upc[k] = "flushed"
    BY <1>6 DEF TypeOK, UPC
  <2>. QED BY <1>6, <2>1, <2>2 DEF Overtakes, NoCopyBehind
<1>. HIDE DEF t, e, t1, new
<1>. QED BY <1>1, <1>2, <1>3, <1>4, <1>5, <1>6 DEF e

LEMMA CycleCached ==
  ASSUME TypeOK, CopiesInside, CacheRect = {}, NoneCached, Cycle
  PROVE  NoneCached'
<1>. SUFFICES ASSUME NEW k \in Clients
              PROVE  tracker'[k].cached = {} /\ upd'[k].cached = {}
  BY DEF NoneCached
<1>. DEFINE t == tracker[k]
            e == k \in CopyRect
            t1 == IF Copied.copied = {} THEN t
                  ELSE AddCopied(t, e, Copied.copied, Copied.delta)
            new == Pass(Updates, t, e)
<1>1. tracker'[k] = new /\ upd' = upd
  BY CycleIs DEF sender
<1>2. new.cached = t1.cached
  BY UpdatesAreGood, PassedUpdates, CycleCopy
<1>3. t1.cached = t.cached
  <2>1. Good(t)
    BY DEF CopiesInside
  <2>2. AddCopied(t, e, Copied.copied, Copied.delta).cached = t.cached
    <3>. HIDE DEF t, e
    <3>. QED BY <2>1, CopyKeepsCached
  <2>. QED BY <2>2
<1>4. t.cached = {} /\ upd[k].cached = {}
  BY DEF NoneCached
<1>. HIDE DEF t, t1, new
<1>. QED BY <1>1, <1>2, <1>3, <1>4

LEMMA CyclePicture ==
  ASSUME PictureInv, CacheRect = {}, Cycle
  PROVE  PictureFollows'
<1>. USE DEF PictureInv, BaseInv
<1>. SUFFICES ASSUME NEW k \in Clients, k \notin crossed', ~Renewed(k), NEW c \in Screen
              PROVE  Follows(k, c)'
  BY CycleIs DEF PictureFollows, Renewed, Screen, desk, viewer
<1>. DEFINE t == tracker[k]
            e == k \in CopyRect
            t1 == IF Copied.copied = {} THEN t
                  ELSE AddCopied(t, e, Copied.copied, Copied.delta)
            new == Pass(Updates, t, e)
            p == pic[k]
            M(x) == Moved(back, Copied.copied, Copied.delta, x)
<1>1. /\ tracker'[k] = new /\ upc' = upc /\ upd' = upd /\ pic' = pic
      /\ c \in Cells
  BY CycleIs, Shapes DEF sender, viewer
<1>2. /\ Good(t1) /\ Good(new) /\ new.changed = t1.changed \union Copied.changed \union Differ
      /\ new.copied = t1.copied /\ new.delta = t1.delta
  BY UpdatesAreGood, PassedUpdates, CycleCopy
<1>3. k \notin crossed /\ ~Overtakes(k, Copied, Differ)
  BY CycleIs
<1>4. \A x \in Screen : Follows(k, x)
  BY <1>3 DEF PictureFollows
<1>5. CASE c \in Differ \/ c \in Copied.changed
  <2>. HIDE DEF t1, new
  <2>. QED BY <1>1, <1>2, <1>5 DEF Follows
<1>6. CASE c \notin Differ /\ c \notin Copied.changed
  <2>1. back'[c] = M(c)
    BY <1>6, BackAfter
  <2>2. SUFFICES c \in t1.changed
                 \/ IF upc[k] = "wait" THEN Agrees(t1, p, M(c), c)
                    ELSE Agrees(upd[k], p, M(c), c)
    <3>1. ASSUME Agrees(t1, p, M(c), c) PROVE c \in new.changed \/ Agrees(new, p, M(c), c)
      <4>. HIDE DEF t1, new, M
      <4>. QED BY <1>2, <3>1 DEF Agrees, After, CopyDest
    <3>. HIDE DEF t1, new, M
    <3>. QED BY <1>1, <1>2, <2>1, <2>2, <3>1 DEF Follows, p
  <2>3. CASE Copied.copied = {}
    <3>1. t1 = t /\ M(c) = back[c]
      BY <2>3 DEF Moved
    <3>. QED BY <1>4, <3>1 DEF Follows
  <2>4. CASE Copied.copied # {} /\ ~e
    <3>1. t1 = AddChanged(t, Copied.copied)
      BY <2>4 DEF AddCopied
    <3>2. t1.changed = t.changed \union Copied.copied
      BY <3>1 DEF AddChanged, CopiesInside, Good, Tracker
    <3>3. CASE c \in Copied.copied
      BY <3>2, <3>3
    <3>4. CASE c \notin Copied.copied
      <4>1. M(c) = back[c]
        BY <3>4 DEF Moved
      <4>2. c \in t.changed \/ (IF upc[k] = "wait" THEN Agrees(t, p, back[c], c)
                                ELSE Agrees(upd[k], p, back[c], c))
        BY <1>4 DEF Follows
      <4>3. Agrees(t, p, back[c], c) => Agrees(t1, p, back[c], c)
        BY <3>1, ChangedAgrees, CycleCopy DEF CopiesInside
      <4>. HIDE DEF t, t1, p, M
      <4>. QED BY <3>2, <4>1, <4>2, <4>3
    <3>. QED BY <3>3, <3>4
  <2>5. CASE Copied.copied # {} /\ e
    <3>1. upc[k] = "wait"
      BY <1>3, <2>5 DEF Overtakes, TypeOK, UPC
    <3>2. \A x \in Screen : Agrees(t, p, back[x], x)
      BY <1>4, <3>1 DEF Follows, Agrees
    <3>3. e = TRUE
      BY <2>5
    <3>4. t1 = AddCopied(t, TRUE, Copied.copied, Copied.delta)
      BY <2>5, <3>3
    <3>5. Good(t)
      BY DEF CopiesInside
    <3>. HIDE DEF t, p, t1
    <3>6. Agrees(AddCopied(t, TRUE, Copied.copied, Copied.delta), p, M(c), c)
      BY <1>1, <3>2, <3>5, CycleCopy, AddAgrees
    <3>. QED BY <3>1, <3>4, <3>6
  <2>. QED BY <2>3, <2>4, <2>5
<1>. QED BY <1>5, <1>6
-----------------------------------------------------------------------------
(***************************************************************************)
(* The other actions.                                                      *)
(***************************************************************************)
LEMMA BaseInit == Init => BlankIsSeen /\ NoCopyBehind
<1>. SUFFICES ASSUME Init PROVE BlankIsSeen /\ NoCopyBehind
  OBVIOUS
<1>1. BlankIsSeen
  BY DEF Init, BlankIsSeen, Blank, Screen, Cells
<1>2. NoCopyBehind
  BY DEF Init, NoCopyBehind, Nothing, AddChanged
<1>. QED BY <1>1, <1>2

\* What is painted is never blank.
LEMMA PaintedIsSeen ==
  ASSUME TypeOK, BlankIsSeen, NEW c \in Cells, NEW v \in Content, Paint(c, v)
  PROVE  BlankIsSeen'
<1>1. v # Blank
  BY Shapes DEF Paint, Fresh, Blank, TypeOK
<1>2. \A d \in Screen : screen'[d] # Blank
  BY <1>1, Shapes DEF Paint, TypeOK, BlankIsSeen
<1>. QED BY <1>2 DEF Paint, BlankIsSeen, Screen

LEMMA MovedIsSeen ==
  ASSUME TypeOK, BlankIsSeen, NEW p \in Int, MoveWindow(p)
  PROVE  BlankIsSeen'
<1>. DEFINE old == WindowAt(window) \intersect Screen
            new == WindowAt(p) \intersect Screen
<1>1. Fresh # Blank
  BY DEF Fresh, Blank, TypeOK
<1>2. \A c \in Cells : screen'[c] =
          IF c \in new THEN IF c - p + window \in old THEN screen[c - p + window] ELSE Fresh
          ELSE IF c \in old THEN Fresh ELSE screen[c]
  BY DEF MoveWindow
<1>3. old \subseteq Screen /\ Screen \subseteq Cells /\ \A d \in Screen : screen[d] # Blank
  BY Shapes DEF BlankIsSeen
<1>4. \A c \in Screen : screen'[c] # Blank
  <2>. HIDE DEF old, new
  <2>. QED BY <1>1, <1>2, <1>3
<1>. QED BY <1>4 DEF MoveWindow, BlankIsSeen, Screen

LEMMA DisplayIsSeen ==
  ASSUME TypeOK, NEW s \in Sizes, DisplayChange(s)
  PROVE  BlankIsSeen'
<1>1. Screen' = 1 .. s /\ Screen' \subseteq Cells
  BY CellsAreInts DEF DisplayChange, Screen
<1>2. Fresh # Blank
  BY DEF Fresh, Blank, TypeOK
<1>3. \A c \in Screen' : screen'[c] = Fresh /\ c \in rgncache'
  BY <1>1, CellsAreInts DEF DisplayChange
<1>. QED BY <1>2, <1>3 DEF BlankIsSeen

LEMMA BlankNext == TypeOK /\ BlankIsSeen /\ [Next]_vars => BlankIsSeen'
<1>. SUFFICES ASSUME TypeOK, BlankIsSeen, [Next]_vars
              PROVE  BlankIsSeen'
  OBVIOUS
<1>1. ASSUME NEW c \in Cells, NEW v \in Content, Paint(c, v)
      PROVE  BlankIsSeen'
  BY <1>1, PaintedIsSeen
<1>2. ASSUME NEW c \in Cells, NEW i \in 0 .. WindowWidth - 1, MoveWindow(c - i)
      PROVE  BlankIsSeen'
  BY <1>2, MovedIsSeen, PlacesAreInts
<1>3. ASSUME NEW c \in Cells, TakeHint(c)
      PROVE  BlankIsSeen'
  BY <1>3 DEF TakeHint, BlankIsSeen, Screen, desk
<1>4. CASE Cycle
  BY <1>4, CycleBlank
<1>5. ASSUME NEW s \in Sizes, DisplayChange(s)
      PROVE  BlankIsSeen'
  BY <1>5, DisplayIsSeen
<1>6. ASSUME UpdateWanted \/ UNCHANGED vars
      PROVE  BlankIsSeen'
  <2>1. UNCHANGED <<size, screen, back, rgncache>>
    BY <1>6 DEF UpdateWanted, vars, desk, grabber
  <2>. QED BY <2>1 DEF BlankIsSeen, Screen
<1>7. ASSUME NEW k \in Clients,
             \/ TellSize(k) \/ Poke(k) \/ TakeUpdate(k) \/ NothingToSend(k)
             \/ SendNewSize(k) \/ SendUpdate(k)
             \/ \E rgn \in Asks(k), incremental \in BOOLEAN : Request(k, rgn, incremental)
      PROVE  BlankIsSeen'
  <2>1. UNCHANGED <<size, screen, back, rgncache>>
    BY <1>7 DEF TellSize, Poke, TakeUpdate, NothingToSend, SendNewSize, SendUpdate,
                Request, desk, grabber
  <2>. QED BY <2>1 DEF BlankIsSeen, Screen
<1>. QED BY <1>1, <1>2, <1>3, <1>4, <1>5, <1>6, <1>7 DEF Next

LEMMA BehindNext ==
  TypeOK /\ CopiesInside /\ NoCopyBehind /\ [Next]_vars => NoCopyBehind'
<1>. SUFFICES ASSUME TypeOK, CopiesInside, NoCopyBehind, [Next]_vars
              PROVE  NoCopyBehind'
  OBVIOUS
<1>1. ASSUME \/ \E c \in Cells, v \in Content : Paint(c, v)
             \/ \E c \in Cells, i \in 0 .. WindowWidth - 1 : MoveWindow(c - i)
             \/ \E c \in Cells : TakeHint(c)
             \/ UpdateWanted \/ UNCHANGED vars
             \/ \E k \in Clients : TellSize(k) \/ Poke(k)
      PROVE  NoCopyBehind'
  <2>1. UNCHANGED <<crossed, tracker, upc>>
    BY <1>1 DEF Paint, MoveWindow, TakeHint, UpdateWanted, TellSize, Poke, vars,
                grabber, sender
  <2>. QED BY <2>1 DEF NoCopyBehind
<1>2. CASE Cycle
  BY <1>2, CycleBehind
<1>3. ASSUME NEW s \in Sizes, DisplayChange(s)
      PROVE  NoCopyBehind'
  <2>1. \A k \in Clients : tracker'[k].copied = {}
    BY <1>3 DEF DisplayChange, Cleared, Nothing
  <2>. QED BY <2>1 DEF NoCopyBehind
<1>4. ASSUME NEW k \in Clients, TakeUpdate(k)
      PROVE  NoCopyBehind'
  <2>. DEFINE r == Rest(tracker[k], incr[k])
  <2>1. r.copied \subseteq tracker[k].copied
    BY DEF Rest, CopiesInside, Good, Tracker
  <2>2. /\ tracker' = [tracker EXCEPT ![k] = r] /\ upc' = [upc EXCEPT ![k] = "flushed"]
        /\ crossed' = IF r.copied = {} THEN crossed ELSE crossed \union {k}
    BY <1>4 DEF TakeUpdate
  <2>. HIDE DEF r
  <2>. QED BY <2>1, <2>2 DEF NoCopyBehind, TypeOK
<1>5. ASSUME NEW k \in Clients, NothingToSend(k) \/ SendNewSize(k) \/ SendUpdate(k)
      PROVE  NoCopyBehind'
  <2>1. /\ upc' = [upc EXCEPT ![k] = "wait"] /\ tracker' = tracker
        /\ crossed \subseteq crossed'
    BY <1>5 DEF NothingToSend, SendNewSize, SendUpdate, Answered, grabber
  <2>. QED BY <2>1 DEF NoCopyBehind, TypeOK
<1>6. ASSUME NEW k \in Clients, NEW rgn \in Asks(k), NEW incremental \in BOOLEAN,
             Request(k, rgn, incremental)
      PROVE  NoCopyBehind'
  <2>1. AddChanged(tracker[k], rgn).copied = tracker[k].copied
    BY DEF AddChanged, CopiesInside, Good, Tracker
  <2>2. /\ tracker' = tracker \/ tracker' = [tracker EXCEPT ![k] = AddChanged(tracker[k], rgn)]
        /\ upc' = upc /\ crossed' = crossed
    BY <1>6 DEF Request, sender
  <2>. QED BY <2>1, <2>2 DEF NoCopyBehind, TypeOK
<1>. QED BY <1>1, <1>2, <1>3, <1>4, <1>5, <1>6 DEF Next

\* For any viewers: the copies stay inside the screen, nothing blank is
\* overlooked, and no copy waits behind an update.
LEMMA BaseHolds == Spec => []BaseInv
<1>1. TypeOK /\ CopiesInside => TypeOK
  OBVIOUS
<1>2. BaseInv <=> (TypeOK /\ CopiesInside) /\ DesktopPending /\ TheRightSize
                  /\ BlankIsSeen /\ NoCopyBehind
  BY DEF BaseInv
<1>. QED BY <1>1, <1>2, Types, PendingInit, PendingNext, SizeInit, SizeNext,
            BaseInit, BlankNext, BehindNext, PTL DEF Spec
-----------------------------------------------------------------------------
(***************************************************************************)
(* Without a cache: the other actions.                                     *)
(***************************************************************************)
PictureOnly == NoneCached /\ PictureFollows

LEMMA PictureInit == Init => PictureOnly
<1>. SUFFICES ASSUME Init PROVE PictureOnly
  OBVIOUS
<1>1. NoneCached
  BY DEF Init, NoneCached, Nothing, AddChanged
<1>2. PictureFollows
  BY DEF Init, PictureFollows, Renewed
<1>. QED BY <1>1, <1>2 DEF PictureOnly

\* Steps that touch none of what the argument is about.
LEMMA SamePicture ==
  ASSUME PictureInv,
         UNCHANGED <<size, back, crossed, tracker, upd, upc, pic, untold, newsize, full>>
  PROVE  PictureOnly'
BY DEF PictureInv, PictureOnly, NoneCached, PictureFollows, Renewed, Follows, Screen

LEMMA DisplayPicture ==
  ASSUME PictureInv, NEW s \in Sizes, DisplayChange(s)
  PROVE  PictureOnly'
<1>. USE DEF PictureInv, BaseInv
<1>1. Screen' \subseteq Cells
  BY CellsAreInts DEF DisplayChange, Screen
<1>2. \A k \in Clients : tracker'[k].cached = {}
  BY DEF DisplayChange, Cleared, Nothing
<1>3. NoneCached'
  BY <1>2 DEF NoneCached, DisplayChange, sender
<1>4. \A c \in Screen' : back'[c] = Blank
  BY <1>1 DEF DisplayChange, AllBlank
<1>5. PictureFollows'
  BY <1>4 DEF PictureFollows, Follows, Agrees
<1>. QED BY <1>3, <1>5 DEF PictureOnly

LEMMA TellPicture ==
  ASSUME PictureInv, NEW k \in Clients, TellSize(k)
  PROVE  PictureOnly'
<1>. USE DEF PictureInv, BaseInv
<1>1. UNCHANGED <<size, back, crossed, tracker, upd, upc, pic, full>>
  BY DEF TellSize, desk, sender, viewer
<1>2. NoneCached'
  BY <1>1 DEF NoneCached
<1>3. \A j \in Clients : ~Renewed(j)' => ~Renewed(j)
  <2>1. newsize'[k] # 0
    BY CellsAreInts DEF TellSize, TypeOK
  <2>2. \A j \in Clients : j # k => newsize'[j] = newsize[j] /\ (j \in untold => j \in untold')
    BY DEF TellSize, TypeOK
  <2>. QED BY <1>1, <2>1, <2>2 DEF Renewed
<1>4. PictureFollows'
  BY <1>1, <1>3 DEF PictureFollows, Follows, Screen
<1>. QED BY <1>2, <1>4 DEF PictureOnly

LEMMA TakePicture ==
  ASSUME PictureInv, NEW k \in Clients, TakeUpdate(k)
  PROVE  PictureOnly'
<1>. USE DEF PictureInv, BaseInv
<1>. DEFINE t == tracker[k]
            r == Rest(t, incr[k])
            f == Flushed(t, incr[k])
<1>1. /\ UNCHANGED <<size, screen, back, rgncache, pic, full, untold, newsize>>
      /\ upc[k] = "wait" /\ Good(t)
      /\ tracker' = [tracker EXCEPT ![k] = r] /\ upd' = [upd EXCEPT ![k] = f]
      /\ upc' = [upc EXCEPT ![k] = "flushed"]
      /\ crossed' = IF r.copied = {} THEN crossed ELSE crossed \union {k}
  BY DEF TakeUpdate, desk, viewer, CopiesInside
<1>2. r.cached = {} /\ f.cached = {} /\ r.copied \subseteq t.copied
  BY <1>1, FlushedIs DEF NoneCached, Rest, Good, Tracker
<1>. HIDE DEF r, f
<1>3. NoneCached'
  BY <1>1, <1>2 DEF NoneCached, TypeOK
<1>4. ASSUME NEW j \in Clients, j \notin crossed', ~Renewed(j)', NEW c \in Screen
      PROVE  Follows(j, c)'
  <2>1. Follows(j, c)
    BY <1>1, <1>4 DEF PictureFollows, Renewed
  <2>2. CASE j # k
    BY <1>1, <2>1, <2>2 DEF Follows, TypeOK
  <2>3. CASE j = k
    <3>1. r.copied = {}
      BY <1>1, <1>4, <2>3
    <3>2. Agrees(t, pic[k], back[c], c)
      BY <1>1, <2>1, <2>3 DEF Follows, Agrees
    <3>3. c \in r.changed \/ Agrees(f, pic[k], back[c], c)
      BY <1>1, <3>1, <3>2, FlushAgrees DEF r, f
    <3>4. tracker'[k] = r /\ upd'[k] = f /\ upc'[k] # "wait" /\ pic' = pic /\ back' = back
      BY <1>1 DEF TypeOK
    <3>. QED BY <2>3, <3>3, <3>4 DEF Follows
  <2>. QED BY <2>2, <2>3
<1>5. PictureFollows'
  BY <1>1, <1>4 DEF PictureFollows, Screen
<1>. QED BY <1>3, <1>5 DEF PictureOnly

LEMMA NothingPicture ==
  ASSUME PictureInv, NEW k \in Clients, NothingToSend(k)
  PROVE  PictureOnly'
<1>. USE DEF PictureInv, BaseInv
<1>1. /\ UNCHANGED <<size, screen, back, rgncache, crossed, tracker, upd, pic, full,
                     untold, newsize>>
      /\ upc[k] = "flushed" /\ upc' = [upc EXCEPT ![k] = "wait"] /\ IsEmpty(upd[k])
  BY DEF NothingToSend, desk, grabber, viewer
<1>2. NoneCached'
  BY <1>1 DEF NoneCached
<1>3. ASSUME NEW j \in Clients, j \notin crossed, ~Renewed(j), NEW c \in Screen
      PROVE  Follows(j, c)'
  <2>1. Follows(j, c)
    BY <1>3 DEF PictureFollows
  <2>2. CASE j # k
    BY <1>1, <2>1, <2>2 DEF Follows, TypeOK
  <2>3. CASE j = k
    <3>1. c \in tracker[k].changed \/ Agrees(upd[k], pic[k], back[c], c)
      BY <1>1, <2>1, <2>3 DEF Follows
    <3>2. upd[k].changed = {} /\ upd[k].copied = {} /\ tracker[k].copied = {}
      BY <1>1, <1>3, <2>3 DEF IsEmpty, NoCopyBehind
    <3>3. Agrees(upd[k], pic[k], back[c], c) => Agrees(tracker[k], pic[k], back[c], c)
      BY <3>2 DEF Agrees, After, CopyDest
    <3>4. upc'[k] = "wait" /\ tracker' = tracker /\ pic' = pic /\ back' = back
      BY <1>1 DEF TypeOK
    <3>. QED BY <2>3, <3>1, <3>3, <3>4 DEF Follows
  <2>. QED BY <2>2, <2>3
<1>4. PictureFollows'
  BY <1>1, <1>3 DEF PictureFollows, Renewed, Screen
<1>. QED BY <1>2, <1>4 DEF PictureOnly

LEMMA AnsweredPicture ==
  ASSUME PictureInv, NEW k \in Clients, Answered(k), upc[k] = "flushed",
         UNCHANGED <<size, screen, back, rgncache, tracker, untold>>,
         crossed \subseteq crossed',
         \A j \in Clients : j # k => UNCHANGED <<newsize[j], full[j], pic[j]>>,
         ~Renewed(k)' => \A c \in Screen :
             k \notin crossed' => c \in tracker[k].changed \/ back[c] = Blank
                                 \/ pic'[k][c] = back[c]
  PROVE  PictureOnly'
<1>. USE DEF PictureInv, BaseInv
<1>1. /\ upd' = [upd EXCEPT ![k] = Cleared(upd[k])] /\ upc' = [upc EXCEPT ![k] = "wait"]
  BY DEF Answered
<1>2. Cleared(upd[k]).cached = {}
  BY DEF Cleared, Nothing
<1>3. NoneCached'
  BY <1>1, <1>2 DEF NoneCached, TypeOK
<1>4. ASSUME NEW j \in Clients, j \notin crossed', ~Renewed(j)', NEW c \in Screen
      PROVE  Follows(j, c)'
  <2>1. CASE j # k
    <3>1. ~Renewed(j) /\ j \notin crossed
      BY <1>4, <2>1 DEF Renewed
    <3>2. Follows(j, c)
      BY <3>1 DEF PictureFollows
    <3>3. upd'[j] = upd[j] /\ upc'[j] = upc[j]
      BY <1>1, <2>1 DEF TypeOK
    <3>. QED BY <2>1, <3>2, <3>3 DEF Follows
  <2>2. CASE j = k
    <3>1. c \in tracker[k].changed \/ back[c] = Blank \/ pic'[k][c] = back[c]
      BY <1>4, <2>2
    <3>2. tracker[k].copied = {} /\ upc'[k] = "wait"
      BY <1>1, <1>4, <2>2 DEF NoCopyBehind, TypeOK
    <3>3. Agrees(tracker[k], pic'[k], back[c], c)
      BY <3>1, <3>2 DEF Agrees, After, CopyDest
    <3>. QED BY <2>2, <3>2, <3>3 DEF Follows
  <2>. QED BY <2>1, <2>2
<1>5. PictureFollows'
  BY <1>4 DEF PictureFollows, Screen
<1>. QED BY <1>3, <1>5 DEF PictureOnly

LEMMA NewSizePicture ==
  ASSUME PictureInv, NEW k \in Clients, SendNewSize(k)
  PROVE  PictureOnly'
<1>1. /\ Answered(k) /\ upc[k] = "flushed"
      /\ UNCHANGED <<size, screen, back, rgncache, tracker, untold, crossed>>
  BY DEF SendNewSize, desk, grabber
<1>2. \A j \in Clients : j # k => UNCHANGED <<newsize[j], full[j], pic[j]>>
  BY DEF SendNewSize, PictureInv, BaseInv, TypeOK
<1>3. Renewed(k)'
  BY DEF SendNewSize, Renewed, PictureInv, BaseInv, TypeOK
<1>. QED BY <1>1, <1>2, <1>3, AnsweredPicture

LEMMA SendPicture ==
  ASSUME PictureInv, NEW k \in Clients, SendUpdate(k)
  PROVE  PictureOnly'
<1>. USE DEF PictureInv, BaseInv
<1>. DEFINE u == upd[k]
            p == pic[k]
<1>1. /\ Answered(k) /\ upc[k] = "flushed"
      /\ UNCHANGED <<size, screen, back, rgncache, tracker, untold, newsize, full, vsize>>
      /\ crossed \subseteq crossed'
  BY DEF SendUpdate, desk
<1>2. \A j \in Clients : j # k => UNCHANGED <<newsize[j], full[j], pic[j]>>
  BY <1>1 DEF SendUpdate, TypeOK
<1>3. u.cached = {}
  BY DEF NoneCached
<1>4. pic' = [pic EXCEPT ![k] =
                [c \in Cells |-> IF c \in u.changed /\ c <= vsize[k] THEN back[c]
                                ELSE IF c \in CopyDest(u) THEN p[c - u.delta] ELSE p[c]]]
  <2>1. /\ (IF k \in CacheRect THEN u.cached ELSE {}) = {}
        /\ u.changed \union (u.cached \ {}) = u.changed
    BY <1>3
  <2>. HIDE DEF u
  <2>. QED BY <2>1 DEF SendUpdate, u
<1>5. ASSUME ~Renewed(k)', NEW c \in Screen, k \notin crossed'
      PROVE  c \in tracker[k].changed \/ back[c] = Blank \/ pic'[k][c] = back[c]
  <2>1. ~Renewed(k) /\ k \notin crossed
    BY <1>1, <1>5 DEF Renewed
  <2>2. vsize[k] = size
    BY <2>1, CellsAreInts DEF Renewed, TheRightSize, TypeOK
  <2>3. c \in Cells /\ c <= vsize[k]
    BY <2>2, Shapes DEF Screen
  <2>4. pic'[k][c] = IF c \in u.changed THEN back[c] ELSE After(u, p, c)
    BY <1>4, <2>3 DEF After, TypeOK
  <2>5. c \in tracker[k].changed \/ Agrees(u, p, back[c], c)
    BY <1>1, <2>1 DEF PictureFollows, Follows
  <2>. HIDE DEF u, p
  <2>. QED BY <2>4, <2>5 DEF Agrees
<1>. QED BY <1>1, <1>2, <1>5, AnsweredPicture

LEMMA RequestPicture ==
  ASSUME PictureInv, NEW k \in Clients, NEW rgn \in Asks(k), NEW incremental \in BOOLEAN,
         Request(k, rgn, incremental)
  PROVE  PictureOnly'
<1>. USE DEF PictureInv, BaseInv
<1>. DEFINE t == tracker[k]
            new == AddChanged(t, rgn)
<1>1. /\ UNCHANGED <<size, screen, back, rgncache, crossed, upd, upc, pic, untold, newsize>>
      /\ full' = [full EXCEPT ![k] = FALSE] /\ (full[k] => ~incremental)
      /\ tracker' = IF incremental THEN tracker ELSE [tracker EXCEPT ![k] = new]
  BY DEF Request, desk, sender
<1>2. Good(t) /\ rgn \in SUBSET Cells
  BY Shapes DEF Asks, CopiesInside
<1>3. /\ new.changed = t.changed \union rgn /\ new.copied = t.copied
      /\ new.cached = t.cached
  BY <1>2 DEF AddChanged, Good, Tracker
<1>. HIDE DEF new
<1>4. NoneCached'
  BY <1>1, <1>3 DEF NoneCached, TypeOK
<1>5. ASSUME NEW j \in Clients, j \notin crossed, ~Renewed(j)', NEW c \in Screen
      PROVE  Follows(j, c)'
  <2>1. CASE j # k
    <3>1. ~Renewed(j)
      BY <1>1, <1>5, <2>1 DEF Renewed, TypeOK
    <3>2. Follows(j, c)
      BY <1>5, <3>1 DEF PictureFollows
    <3>. QED BY <1>1, <2>1, <3>2 DEF Follows, TypeOK
  <2>2. CASE j = k /\ full[k]
    <3>1. rgn = 1 .. vsize[k]
      BY <2>2 DEF Asks
    <3>2. vsize[k] = size
      BY <1>1, <1>5, <2>2, CellsAreInts DEF Renewed, TheRightSize, TypeOK
    <3>3. c \in tracker'[k].changed
      BY <1>1, <1>3, <2>2, <3>1, <3>2 DEF Screen, TypeOK
    <3>. QED BY <2>2, <3>3 DEF Follows
  <2>3. CASE j = k /\ ~full[k]
    <3>1. ~Renewed(k)
      BY <1>1, <1>5, <2>3 DEF Renewed
    <3>2. Follows(k, c)
      BY <1>5, <2>3, <3>1 DEF PictureFollows
    <3>3. CASE incremental
      BY <1>1, <2>3, <3>2, <3>3 DEF Follows
    <3>4. CASE ~incremental
      <4>1. tracker'[k] = new
        BY <1>1, <3>4 DEF TypeOK
      <4>2. Agrees(t, pic[k], back[c], c) => Agrees(new, pic[k], back[c], c)
        BY <1>2, ChangedAgrees DEF new
      <4>. QED BY <1>1, <1>3, <2>3, <3>2, <4>1, <4>2 DEF Follows
    <3>. QED BY <3>3, <3>4
  <2>. QED BY <2>1, <2>2, <2>3
<1>6. PictureFollows'
  BY <1>1, <1>5 DEF PictureFollows, Screen
<1>. QED BY <1>4, <1>6 DEF PictureOnly

LEMMA PictureNext ==
  ASSUME CacheRect = {}
  PROVE  PictureInv /\ [Next]_vars => PictureOnly'
<1>. SUFFICES ASSUME PictureInv, [Next]_vars
              PROVE  PictureOnly'
  OBVIOUS
<1>1. ASSUME \/ \E c \in Cells, v \in Content : Paint(c, v)
             \/ \E c \in Cells, i \in 0 .. WindowWidth - 1 : MoveWindow(c - i)
             \/ \E c \in Cells : TakeHint(c)
             \/ UpdateWanted \/ UNCHANGED vars \/ \E k \in Clients : Poke(k)
      PROVE  PictureOnly'
  <2>1. UNCHANGED <<size, back, crossed, tracker, upd, upc, pic, untold, newsize, full>>
    BY <1>1 DEF Paint, MoveWindow, TakeHint, UpdateWanted, Poke, vars, desk, grabber,
                sender, viewer
  <2>. QED BY <2>1, SamePicture
<1>2. CASE Cycle
  BY <1>2, CycleCached, CyclePicture DEF PictureInv, BaseInv, PictureOnly
<1>3. ASSUME NEW s \in Sizes, DisplayChange(s)
      PROVE  PictureOnly'
  BY <1>3, DisplayPicture
<1>4. ASSUME NEW k \in Clients,
             \/ TellSize(k) \/ TakeUpdate(k) \/ NothingToSend(k)
             \/ SendNewSize(k) \/ SendUpdate(k)
      PROVE  PictureOnly'
  BY <1>4, TellPicture, TakePicture, NothingPicture, NewSizePicture, SendPicture
<1>5. ASSUME NEW k \in Clients, NEW rgn \in Asks(k), NEW incremental \in BOOLEAN,
             Request(k, rgn, incremental)
      PROVE  PictureOnly'
  BY <1>5, RequestPicture
<1>. QED BY <1>1, <1>2, <1>3, <1>4, <1>5 DEF Next

\* Quiet cells: nothing is under way, so the buffer shows the screen, and the
\* picture what the buffer shows.
LEMMA QuietIsRight == PictureInv => QuietCellIsRight
<1>. SUFFICES ASSUME PictureInv, NEW k \in Clients, k \notin crossed,
                     NEW c \in Screen, ~UnderWay(k, c)
              PROVE  pic[k][c] = screen[c]
  BY DEF QuietCellIsRight, RightWhenQuiet
<1>. USE DEF PictureInv, BaseInv
<1>1. /\ c \notin rgncache /\ c \notin hints /\ ~Renewed(k)
      /\ c \notin tracker[k].changed /\ c \notin tracker[k].copied
      /\ c \notin upd[k].changed /\ c \notin upd[k].copied
  BY DEF UnderWay, Touches
<1>2. back[c] = screen[c] /\ back[c] # Blank
  BY <1>1 DEF DesktopPending, BlankIsSeen
<1>3. Follows(k, c)
  BY <1>1 DEF PictureFollows
<1>4. After(tracker[k], pic[k], c) = pic[k][c] /\ After(upd[k], pic[k], c) = pic[k][c]
  BY <1>1 DEF After, CopyDest
<1>. QED BY <1>1, <1>2, <1>3, <1>4 DEF Follows, Agrees

\* Without a cache client, for any number of viewers, with or without copies:
\* where nothing is under way any more, a picture shows what the screen shows,
\* unless a copy has crossed an update on its way to that viewer.
LEMMA QuietWithoutCache ==
  ASSUME CacheRect = {}
  PROVE  Spec => []QuietCellIsRight
<1>1. PictureInv <=> BaseInv /\ PictureOnly
  BY DEF PictureInv, PictureOnly
<1>2. PictureInv /\ [Next]_vars => PictureOnly'
  BY PictureNext
<1>. QED BY <1>1, <1>2, BaseHolds, PictureInit, QuietIsRight, PTL DEF Spec
-----------------------------------------------------------------------------
(***************************************************************************)
(* With a cache.  The argument follows the server's two buffers at once:   *)
(* what the viewer would show once it is sent its tracker, and what it      *)
(* would keep, against the back buffer and the cache buffer.  A cell of the *)
(* cache buffer that is blank promises nothing.                             *)
(***************************************************************************)
\* What cell c shows, and what the viewer keeps of it, once the copies and the
\* cached cells of t are made on picture p and on its cache v.
Shown(t, p, v, c)  == IF c \in t.cached THEN v[c] ELSE After(t, p, c)
KeptAs(t, p, v, c) == IF c \in t.cached THEN After(t, p, c) ELSE v[c]

\* Cell c of a picture and its cache, p and v, follows the back buffer's b and
\* the cache buffer's h once t is sent.  A changed cell sends b: the viewer then
\* keeps what it showed, which must be h already, unless nothing is replaced.
Mirrors(t, p, v, b, h, c) ==
    IF c \in t.changed
    THEN \/ h = Blank \/ Shown(t, p, v, c) = h
         \/ Shown(t, p, v, c) = b /\ KeptAs(t, p, v, c) = h
    ELSE /\ b = Blank \/ Shown(t, p, v, c) = b
         /\ h = Blank \/ KeptAs(t, p, v, c) = h

\* With an update on its way: it brings the cell in line, or the tracker sends
\* the cell as changed, or the tracker alone does.
FollowsBoth(k, c) ==
    IF upc[k] = "wait" THEN Mirrors(tracker[k], pic[k], vcache[k], back[c], cache[c], c)
    ELSE \/ /\ Mirrors(upd[k], pic[k], vcache[k], back[c], cache[c], c)
            /\ c \notin tracker[k].cached
         \/ c \in tracker[k].changed /\ cache[c] = Blank
         \/ /\ ~Touches(upd[k], {c})
            /\ Mirrors(tracker[k], pic[k], vcache[k], back[c], cache[c], c)

\* A viewer that is to be renewed begins with an empty cache, and so must the
\* server; a copied cell is in neither cache.
CacheFollows(k) ==
    /\ ~Renewed(k) => \A c \in Screen : FollowsBoth(k, c)
    /\ Renewed(k) => \A c \in Screen : cache[c] = Blank
    /\ \A c \in tracker[k].copied \intersect Screen : cache[c] = Blank

BothBlank == \A c \in Screen : back[c] = Blank => cache[c] = Blank

CacheOnly == BothBlank /\ \A k \in CacheRect \ crossed : CacheFollows(k)

CacheInv == BaseInv /\ CacheOnly

\* Only cell c of a tracker matters to it.
LEMMA MirrorsAlike ==
  ASSUME NEW t, NEW n, NEW p, NEW v, NEW b, NEW h, NEW c,
         c \in n.changed <=> c \in t.changed, c \in n.cached <=> c \in t.cached,
         c \in n.copied <=> c \in t.copied, c \in n.copied => n.delta = t.delta,
         Mirrors(t, p, v, b, h, c)
  PROVE  Mirrors(n, p, v, b, h, c)
<1>1. After(n, p, c) = After(t, p, c)
  BY DEF After, CopyDest
<1>2. Shown(n, p, v, c) = Shown(t, p, v, c) /\ KeptAs(n, p, v, c) = KeptAs(t, p, v, c)
  BY <1>1 DEF Shown, KeptAs
<1>. QED BY <1>2 DEF Mirrors

\* A cell that leaves the cache buffer, and one that is sent as changed.
LEMMA MirrorsForgets ==
  ASSUME NEW t, NEW p, NEW v, NEW b, NEW h, NEW c, Mirrors(t, p, v, b, h, c)
  PROVE  Mirrors(t, p, v, b, Blank, c)
BY DEF Mirrors

LEMMA MirrorsChanged ==
  ASSUME NEW t, NEW n, NEW p, NEW v, NEW b, NEW h, NEW c,
         c \in n.changed, c \in n.cached <=> c \in t.cached,
         b = Blank => h = Blank, c \in t.copied => h = Blank,
         c \in n.copied => c \in t.copied,
         Mirrors(t, p, v, b, h, c)
  PROVE  Mirrors(n, p, v, b, h, c)
<1>1. CASE h = Blank
  BY <1>1 DEF Mirrors
<1>2. CASE h # Blank
  <2>1. After(n, p, c) = p[c] /\ After(t, p, c) = p[c]
    BY <1>2 DEF After, CopyDest
  <2>2. Shown(n, p, v, c) = Shown(t, p, v, c) /\ KeptAs(n, p, v, c) = KeptAs(t, p, v, c)
    BY <2>1 DEF Shown, KeptAs
  <2>. QED BY <1>2, <2>2 DEF Mirrors
<1>. QED BY <1>1, <1>2

\* A cell no part of a tracker speaks of.
LEMMA MirrorsUntouched ==
  ASSUME NEW t, NEW p, NEW v, NEW b, NEW h, NEW c, ~Touches(t, {c})
  PROVE  Mirrors(t, p, v, b, h, c) <=> (b = Blank \/ p[c] = b) /\ (h = Blank \/ v[c] = h)
<1>1. c \notin t.changed /\ c \notin t.cached /\ c \notin t.copied
  BY DEF Touches
<1>2. After(t, p, c) = p[c]
  BY <1>1 DEF After, CopyDest
<1>. QED BY <1>1, <1>2 DEF Mirrors, Shown, KeptAs

\* A step about one client leaves the others alone.
LEMMA OneClientSteps ==
  ASSUME CacheInv, NEW k \in Clients, UNCHANGED <<size, back, cache>>, crossed \subseteq crossed',
         \A j \in Clients \ {k} :
             /\ UNCHANGED <<tracker[j], upd[j], upc[j], pic[j], vcache[j]>>
             /\ Renewed(j)' <=> Renewed(j),
         k \in CacheRect /\ k \notin crossed' => CacheFollows(k)'
  PROVE  CacheOnly'
<1>1. BothBlank'
  BY DEF CacheInv, CacheOnly, BothBlank, Screen
<1>2. ASSUME NEW j \in CacheRect, j \notin crossed', j # k
      PROVE  CacheFollows(j)'
  <2>1. CacheFollows(j) /\ j \in Clients
    BY <1>2, FlowAssumption DEF CacheInv, CacheOnly
  <2>. QED BY <1>2, <2>1 DEF CacheFollows, FollowsBoth, Screen
<1>. QED BY <1>1, <1>2 DEF CacheOnly

LEMMA CacheInit == Init => CacheOnly
<1>. SUFFICES ASSUME Init PROVE CacheOnly
  OBVIOUS
<1>1. Screen \subseteq Cells
  BY CellsAreInts DEF Init, Screen
<1>2. \A c \in Screen : cache[c] = Blank
  BY <1>1 DEF Init, AllBlank
<1>3. \A k \in Clients : Renewed(k)
  BY DEF Init, Renewed
<1>. QED BY <1>2, <1>3, FlowAssumption DEF CacheOnly, BothBlank, CacheFollows

LEMMA SameCache ==
  ASSUME CacheInv,
         UNCHANGED <<size, back, cache, crossed, tracker, upd, upc, pic, vcache,
                     untold, newsize, full>>
  PROVE  CacheOnly'
BY DEF CacheInv, CacheOnly, BothBlank, CacheFollows, FollowsBoth, Renewed, Screen

LEMMA DisplayCache ==
  ASSUME CacheInv, NEW s \in Sizes, DisplayChange(s)
  PROVE  CacheOnly'
<1>1. Screen' \subseteq Cells
  BY CellsAreInts DEF DisplayChange, Screen
<1>2. \A c \in Screen' : back'[c] = Blank /\ cache'[c] = Blank
  BY <1>1 DEF DisplayChange, AllBlank
<1>3. \A k \in Clients : tracker'[k].cached = {}
  BY DEF DisplayChange, Cleared, Nothing
<1>4. \A k \in Clients, c \in Screen' : FollowsBoth(k, c)'
  BY <1>2, <1>3 DEF FollowsBoth, Mirrors
<1>. QED BY <1>2, <1>4, FlowAssumption DEF CacheOnly, BothBlank, CacheFollows

LEMMA TellCache ==
  ASSUME CacheInv, NEW k \in Clients, TellSize(k)
  PROVE  CacheOnly'
<1>. USE DEF CacheInv, BaseInv
<1>1. /\ UNCHANGED <<size, back, cache, crossed, tracker, upd, upc, pic, vcache, full>>
      /\ k \in untold /\ untold' = untold \ {k} /\ newsize' = [newsize EXCEPT ![k] = size]
  BY DEF TellSize, desk, sender, viewer
<1>2. \A j \in Clients \ {k} : Renewed(j)' <=> Renewed(j)
  BY <1>1 DEF Renewed, TypeOK
<1>3. Renewed(k) /\ Renewed(k)'
  BY <1>1, CellsAreInts DEF Renewed, TypeOK
<1>4. k \in CacheRect /\ k \notin crossed' => CacheFollows(k)'
  BY <1>1, <1>3 DEF CacheOnly, CacheFollows, Screen
<1>. QED BY <1>1, <1>2, <1>4, OneClientSteps

LEMMA TakeCache ==
  ASSUME CacheInv, NEW k \in Clients, TakeUpdate(k)
  PROVE  CacheOnly'
<1>. USE DEF CacheInv, BaseInv
<1>. DEFINE t == tracker[k]
            r == Rest(t, incr[k])
            f == Flushed(t, incr[k])
<1>1. /\ UNCHANGED <<size, back, cache, pic, vcache, full, untold, newsize>>
      /\ upc[k] = "wait" /\ Good(t)
      /\ tracker' = [tracker EXCEPT ![k] = r] /\ upd' = [upd EXCEPT ![k] = f]
      /\ upc' = [upc EXCEPT ![k] = "flushed"]
      /\ crossed' = IF r.copied = {} THEN crossed ELSE crossed \union {k}
  BY DEF TakeUpdate, desk, viewer, CopiesInside
<1>2. /\ r.changed = t.changed \ incr[k] /\ r.cached = t.cached \ incr[k]
      /\ r.copied = t.copied \ incr[k] /\ r.delta = t.delta
  BY <1>1 DEF Rest, Good, Tracker
<1>3. /\ t.changed \intersect incr[k] \subseteq f.changed
      /\ f.changed \subseteq (t.changed \union t.copied) \intersect incr[k]
      /\ f.cached = t.cached \intersect incr[k]
      /\ f.copied \subseteq t.copied \intersect incr[k]
      /\ t.copied \intersect incr[k] \subseteq f.changed \union f.copied
      /\ f.copied # {} => f.delta = t.delta
  BY <1>1, FlushedIs
<1>4. /\ \A j \in Clients \ {k} : UNCHANGED <<tracker[j], upd[j], upc[j], pic[j], vcache[j]>>
      /\ tracker'[k] = r /\ upd'[k] = f /\ upc'[k] = "flushed"
  BY <1>1 DEF TypeOK
<1>5. \A j \in Clients : Renewed(j)' <=> Renewed(j)
  BY <1>1 DEF Renewed
<1>. HIDE DEF r, f
<1>6. ASSUME k \in CacheRect, k \notin crossed'
      PROVE  CacheFollows(k)'
  <2>1. k \notin crossed /\ t.copied \subseteq incr[k] /\ CacheFollows(k)
    BY <1>1, <1>2, <1>6 DEF CacheOnly
  <2>2. r.copied = {}
    BY <1>2, <2>1
  <2>3. ASSUME ~Renewed(k), NEW c \in Screen
        PROVE  FollowsBoth(k, c)'
    <3>. DEFINE p == pic[k]
                v == vcache[k]
                b == back[c]
                h == cache[c]
    <3>0. FollowsBoth(k, c)' <=>
            \/ Mirrors(f, p, v, b, h, c) /\ c \notin r.cached
            \/ c \in r.changed /\ h = Blank
            \/ ~Touches(f, {c}) /\ Mirrors(r, p, v, b, h, c)
      BY <1>1, <1>4 DEF FollowsBoth
    <3>1. Mirrors(t, p, v, b, h, c)
      BY <1>1, <2>1, <2>3 DEF CacheFollows, FollowsBoth
    <3>2. /\ c \in t.copied => h = Blank
          /\ b = Blank => h = Blank
      BY <2>1, <2>3 DEF CacheFollows, CacheOnly, BothBlank
    <3>. HIDE DEF t, p, v, b, h
    <3>3. CASE c \in incr[k] /\ c \in f.changed
      BY <1>2, <1>3, <3>0, <3>1, <3>2, <3>3, MirrorsChanged
    <3>4. CASE c \in incr[k] /\ c \notin f.changed
      <4>1. /\ c \in f.changed <=> c \in t.changed
            /\ c \in f.cached <=> c \in t.cached
            /\ c \in f.copied <=> c \in t.copied
            /\ c \in f.copied => f.delta = t.delta
        BY <1>3, <3>4
      <4>. QED BY <1>2, <3>0, <3>1, <3>4, <4>1, MirrorsAlike
    <3>5. CASE c \notin incr[k]
      <4>1. ~Touches(f, {c})
        BY <1>3, <3>5 DEF Touches
      <4>2. /\ c \in r.changed <=> c \in t.changed
            /\ c \in r.cached <=> c \in t.cached
            /\ c \in r.copied <=> c \in t.copied
        BY <1>2, <3>5
      <4>3. Mirrors(r, p, v, b, h, c)
        BY <1>2, <3>1, <4>2, MirrorsAlike
      <4>. QED BY <3>0, <4>1, <4>3
    <3>. QED BY <3>3, <3>4, <3>5
  <2>4. Renewed(k)' => \A c \in Screen' : cache'[c] = Blank
    BY <1>1, <1>5, <2>1 DEF CacheFollows, Screen
  <2>5. ~Renewed(k)' => \A c \in Screen' : FollowsBoth(k, c)'
    BY <1>1, <1>5, <2>3 DEF Screen
  <2>6. tracker'[k].copied = {}
    BY <1>4, <2>2
  <2>. QED BY <2>4, <2>5, <2>6 DEF CacheFollows
<1>7. crossed \subseteq crossed'
  BY <1>1
<1>. QED BY <1>1, <1>4, <1>5, <1>6, <1>7, OneClientSteps

\* The update has gone: its tracker is all that is left to be sent.
LEMMA AnsweredCache ==
  ASSUME CacheInv, NEW k \in Clients, Renewed(k)' <=> Renewed(k),
         UNCHANGED <<size, back, cache, tracker>>,
         upc[k] = "flushed", upc'[k] = "wait",
         k \in CacheRect, k \notin crossed,
         ~Renewed(k) => \A c \in Screen :
             FollowsBoth(k, c) =>
                 Mirrors(tracker[k], pic'[k], vcache'[k], back[c], cache[c], c)
  PROVE  CacheFollows(k)'
<1>1. CacheFollows(k)
  BY DEF CacheInv, CacheOnly
<1>2. ~Renewed(k)' => \A c \in Screen' : FollowsBoth(k, c)'
  BY <1>1 DEF CacheFollows, FollowsBoth, Screen
<1>. QED BY <1>1, <1>2 DEF CacheFollows, Screen

LEMMA NothingCache ==
  ASSUME CacheInv, NEW k \in Clients, NothingToSend(k)
  PROVE  CacheOnly'
<1>. USE DEF CacheInv, BaseInv
<1>1. /\ UNCHANGED <<size, back, cache, crossed, tracker, upd, pic, vcache, full,
                     untold, newsize>>
      /\ upc[k] = "flushed" /\ upc' = [upc EXCEPT ![k] = "wait"] /\ IsEmpty(upd[k])
  BY DEF NothingToSend, desk, grabber, viewer
<1>2. /\ \A j \in Clients \ {k} : UNCHANGED <<tracker[j], upd[j], upc[j], pic[j], vcache[j]>>
      /\ upc'[k] = "wait"
  BY <1>1 DEF TypeOK
<1>3. \A j \in Clients : Renewed(j)' <=> Renewed(j)
  BY <1>1 DEF Renewed
<1>4. ASSUME k \notin crossed, NEW c \in Screen, FollowsBoth(k, c)
      PROVE  Mirrors(tracker[k], pic[k], vcache[k], back[c], cache[c], c)
  <2>. DEFINE t == tracker[k]
              u == upd[k]
              p == pic[k]
              v == vcache[k]
              b == back[c]
              h == cache[c]
  <2>1. t.copied = {} /\ ~Touches(u, {c})
    BY <1>1, <1>4 DEF NoCopyBehind, Touches, IsEmpty
  <2>2. b = Blank => h = Blank
    BY DEF CacheOnly, BothBlank
  <2>3. \/ Mirrors(u, p, v, b, h, c) /\ c \notin t.cached
        \/ c \in t.changed /\ h = Blank
        \/ Mirrors(t, p, v, b, h, c)
    BY <1>1, <1>4 DEF FollowsBoth
  <2>. SUFFICES Mirrors(t, p, v, b, h, c)
    OBVIOUS
  <2>. HIDE DEF t, u, p, v, b, h
  <2>4. CASE Mirrors(u, p, v, b, h, c) /\ c \notin t.cached
    <3>1. (b = Blank \/ p[c] = b) /\ (h = Blank \/ v[c] = h)
      BY <2>1, <2>4, MirrorsUntouched
    <3>2. Shown(t, p, v, c) = p[c] /\ KeptAs(t, p, v, c) = v[c]
      BY <2>1, <2>4 DEF Shown, KeptAs, After, CopyDest
    <3>. QED BY <2>2, <3>1, <3>2 DEF Mirrors
  <2>5. CASE c \in t.changed /\ h = Blank
    BY <2>5 DEF Mirrors
  <2>. QED BY <2>3, <2>4, <2>5
<1>5. k \in CacheRect /\ k \notin crossed' => CacheFollows(k)'
  BY <1>1, <1>2, <1>3, <1>4, AnsweredCache
<1>. QED BY <1>1, <1>2, <1>3, <1>5, OneClientSteps

LEMMA NewSizeCache ==
  ASSUME CacheInv, NEW k \in Clients, SendNewSize(k)
  PROVE  CacheOnly'
<1>. USE DEF CacheInv, BaseInv
<1>1. /\ UNCHANGED <<size, back, cache, crossed, tracker, untold>> /\ Answered(k)
      /\ newsize[k] # 0 /\ newsize' = [newsize EXCEPT ![k] = 0]
      /\ full' = [full EXCEPT ![k] = TRUE]
      /\ pic' = [pic EXCEPT ![k] = AllBlank] /\ vcache' = [vcache EXCEPT ![k] = AllBlank]
  BY DEF SendNewSize, desk, grabber
<1>2. \A j \in Clients \ {k} : UNCHANGED <<tracker[j], upd[j], upc[j], pic[j], vcache[j]>>
  BY <1>1 DEF Answered, TypeOK
<1>3. \A j \in Clients \ {k} : Renewed(j)' <=> Renewed(j)
  BY <1>1 DEF Renewed, TypeOK
<1>4. Renewed(k) /\ Renewed(k)'
  BY <1>1 DEF Renewed, TypeOK
<1>5. k \in CacheRect /\ k \notin crossed' => CacheFollows(k)'
  BY <1>1, <1>4 DEF CacheOnly, CacheFollows, Screen
<1>. QED BY <1>1, <1>2, <1>3, <1>5, OneClientSteps

\* What a viewer with a cache makes of an update, and how the rest of its
\* tracker goes on from there.
LEMMA SentMirrors ==
  ASSUME NEW t, NEW u, NEW p, NEW v, NEW p1, NEW v1, NEW b, NEW h, NEW c,
         t.copied = {}, b = Blank => h = Blank,
         p1[c] = IF c \in u.changed THEN b ELSE Shown(u, p, v, c),
         v1[c] = IF c \in u.changed THEN Shown(u, p, v, c) ELSE KeptAs(u, p, v, c),
         c \in u.changed /\ Shown(u, p, v, c) = b => KeptAs(u, p, v, c) = b,
         \/ Mirrors(u, p, v, b, h, c) /\ c \notin t.cached
         \/ c \in t.changed /\ h = Blank
         \/ ~Touches(u, {c}) /\ Mirrors(t, p, v, b, h, c)
  PROVE  Mirrors(t, p1, v1, b, h, c)
<1>0. /\ Shown(t, p1, v1, c) = IF c \in t.cached THEN v1[c] ELSE p1[c]
      /\ KeptAs(t, p1, v1, c) = IF c \in t.cached THEN p1[c] ELSE v1[c]
  BY DEF Shown, KeptAs, After, CopyDest
<1>1. CASE Mirrors(u, p, v, b, h, c) /\ c \notin t.cached
  <2>1. (b = Blank \/ p1[c] = b) /\ (h = Blank \/ v1[c] = h)
    <3>1. CASE c \in u.changed
      BY <1>1, <3>1 DEF Mirrors
    <3>2. CASE c \notin u.changed
      BY <1>1, <3>2 DEF Mirrors
    <3>. QED BY <3>1, <3>2
  <2>. QED BY <1>0, <1>1, <2>1 DEF Mirrors
<1>2. CASE c \in t.changed /\ h = Blank
  BY <1>2 DEF Mirrors
<1>3. CASE ~Touches(u, {c}) /\ Mirrors(t, p, v, b, h, c)
  <2>1. c \notin u.changed /\ c \notin u.cached /\ c \notin u.copied
    BY <1>3 DEF Touches
  <2>2. p1[c] = p[c] /\ v1[c] = v[c]
    BY <2>1 DEF Shown, KeptAs, After, CopyDest
  <2>3. Shown(t, p, v, c) = Shown(t, p1, v1, c) /\ KeptAs(t, p, v, c) = KeptAs(t, p1, v1, c)
    BY <1>0, <2>2 DEF Shown, KeptAs, After, CopyDest
  <2>. QED BY <1>3, <2>3 DEF Mirrors
<1>. QED BY <1>1, <1>2, <1>3

\* The pictures after SendUpdate, for a viewer with a cache.
LEMMA SentToCache ==
  ASSUME TypeOK, NEW k \in CacheRect, SendUpdate(k), k \notin crossed',
         vsize[k] = size, NEW c \in Screen
  PROVE  LET u == upd[k]
             shown == Shown(u, pic[k], vcache[k], c)
             kept  == KeptAs(u, pic[k], vcache[k], c)
         IN  /\ pic'[k][c] = IF c \in u.changed THEN back[c] ELSE shown
             /\ vcache'[k][c] = IF c \in u.changed THEN shown ELSE kept
             /\ c \in u.changed /\ shown = back[c] => kept = back[c]
<1>. DEFINE u      == upd[k]
            drawn  == [x \in Cells |-> IF x \in CopyDest(u) THEN pic[k][x - u.delta]
                                       ELSE pic[k][x]]
            swap   == IF k \in CacheRect THEN u.cached ELSE {}
            data   == u.changed \union (u.cached \ swap)
            shown  == [x \in Cells |-> IF x \in swap THEN vcache[k][x] ELSE drawn[x]]
            kept   == [x \in Cells |-> IF x \in swap THEN drawn[x] ELSE vcache[k][x]]
            again  == {x \in data : shown[x] = back[x] /\ kept[x] # shown[x]}
            pic1   == [x \in Cells |-> IF x \in data /\ x <= vsize[k] THEN back[x]
                                       ELSE shown[x]]
            vcache1 == [x \in Cells |-> IF x \in data THEN shown[x] ELSE kept[x]]
<1>1. /\ pic' = [pic EXCEPT ![k] = pic1] /\ vcache' = [vcache EXCEPT ![k] = vcache1]
      /\ crossed' = IF k \in CacheRect /\ again # {} THEN crossed \union {k} ELSE crossed
  BY DEF SendUpdate
<1>2. swap = u.cached /\ data = u.changed
  OBVIOUS
<1>3. c \in Cells /\ c <= vsize[k] /\ k \in Clients
  BY Shapes, FlowAssumption DEF Screen
<1>4. drawn[c] = After(u, pic[k], c)
  BY <1>3 DEF After
<1>. HIDE DEF drawn, swap, data
<1>5. shown[c] = Shown(u, pic[k], vcache[k], c) /\ kept[c] = KeptAs(u, pic[k], vcache[k], c)
  BY <1>2, <1>3, <1>4 DEF Shown, KeptAs
<1>. HIDE DEF shown, kept
<1>6. again = {}
  BY <1>1
<1>7. c \in u.changed /\ shown[c] = back[c] => kept[c] = back[c]
  BY <1>2, <1>6
<1>8. /\ pic1[c] = IF c \in u.changed THEN back[c] ELSE shown[c]
      /\ vcache1[c] = IF c \in u.changed THEN shown[c] ELSE kept[c]
  BY <1>2, <1>3
<1>9. pic'[k] = pic1 /\ vcache'[k] = vcache1
  <2>. HIDE DEF pic1, vcache1
  <2>. QED BY <1>1, <1>3 DEF TypeOK
<1>. HIDE DEF pic1, vcache1, again
<1>. QED BY <1>5, <1>7, <1>8, <1>9

LEMMA SendCache ==
  ASSUME CacheInv, NEW k \in Clients, SendUpdate(k)
  PROVE  CacheOnly'
<1>. USE DEF CacheInv, BaseInv
<1>1. /\ UNCHANGED <<size, back, cache, tracker, untold, newsize, full>>
      /\ Answered(k) /\ upc[k] = "flushed" /\ crossed \subseteq crossed'
  BY DEF SendUpdate, desk
<1>2. /\ \A j \in Clients \ {k} : UNCHANGED <<tracker[j], upd[j], upc[j]>>
      /\ upc'[k] = "wait"
  BY <1>1 DEF Answered, TypeOK
<1>3. \A j \in Clients \ {k} : UNCHANGED <<pic[j], vcache[j]>>
  <2>1. \A j \in Clients \ {k} : pic'[j] = pic[j]
    BY DEF SendUpdate, TypeOK
  <2>2. \A j \in Clients \ {k} : vcache'[j] = vcache[j]
    BY DEF SendUpdate, TypeOK
  <2>. QED BY <2>1, <2>2
<1>4. \A j \in Clients : Renewed(j)' <=> Renewed(j)
  BY <1>1 DEF Renewed
<1>5. ASSUME k \in CacheRect, k \notin crossed', ~Renewed(k), NEW c \in Screen,
             FollowsBoth(k, c)
      PROVE  Mirrors(tracker[k], pic'[k], vcache'[k], back[c], cache[c], c)
  <2>. DEFINE t == tracker[k]
              u == upd[k]
              p == pic[k]
              v == vcache[k]
              p1 == pic'[k]
              v1 == vcache'[k]
              b == back[c]
              h == cache[c]
  <2>1. vsize[k] = size
    BY <1>5, CellsAreInts DEF Renewed, TheRightSize, TypeOK
  <2>2. /\ p1[c] = IF c \in u.changed THEN b ELSE Shown(u, p, v, c)
        /\ v1[c] = IF c \in u.changed THEN Shown(u, p, v, c) ELSE KeptAs(u, p, v, c)
        /\ c \in u.changed /\ Shown(u, p, v, c) = b => KeptAs(u, p, v, c) = b
    BY <1>5, <2>1, SentToCache
  <2>3. t.copied = {}
    BY <1>1, <1>5 DEF NoCopyBehind
  <2>4. b = Blank => h = Blank
    BY DEF CacheOnly, BothBlank
  <2>5. \/ Mirrors(u, p, v, b, h, c) /\ c \notin t.cached
        \/ c \in t.changed /\ h = Blank
        \/ ~Touches(u, {c}) /\ Mirrors(t, p, v, b, h, c)
    BY <1>1, <1>5 DEF FollowsBoth
  <2>. HIDE DEF t, u, p, v, p1, v1, b, h
  <2>6. Mirrors(t, p1, v1, b, h, c)
    BY <2>2, <2>3, <2>4, <2>5, SentMirrors
  <2>. QED BY <2>6 DEF t, p1, v1, b, h
<1>6. k \in CacheRect /\ k \notin crossed' => CacheFollows(k)'
  BY <1>1, <1>2, <1>4, <1>5, AnsweredCache
<1>. QED BY <1>1, <1>2, <1>3, <1>4, <1>6, OneClientSteps

LEMMA RequestCache ==
  ASSUME CacheInv, NEW k \in Clients, NEW rgn \in Asks(k), NEW incremental \in BOOLEAN,
         Request(k, rgn, incremental)
  PROVE  CacheOnly'
<1>. USE DEF CacheInv, BaseInv
<1>. DEFINE t == tracker[k]
            new == AddChanged(t, rgn)
            n == tracker'[k]
<1>1. /\ UNCHANGED <<size, back, cache, crossed, upd, upc, pic, vcache, untold, newsize>>
      /\ full' = [full EXCEPT ![k] = FALSE] /\ (full[k] => ~incremental)
      /\ tracker' = IF incremental THEN tracker ELSE [tracker EXCEPT ![k] = new]
  BY DEF Request, desk, sender
<1>2. /\ \A j \in Clients \ {k} : UNCHANGED <<tracker[j], upd[j], upc[j], pic[j], vcache[j]>>
      /\ n = IF incremental THEN t ELSE new
  BY <1>1 DEF TypeOK
<1>3. \A j \in Clients \ {k} : Renewed(j)' <=> Renewed(j)
  BY <1>1 DEF Renewed, TypeOK
<1>4. /\ new.changed = t.changed \union rgn /\ new.copied = t.copied
      /\ new.cached = t.cached /\ new.delta = t.delta
  BY DEF AddChanged, CopiesInside, Good, Tracker
<1>. HIDE DEF new, n
<1>5. /\ n.changed = t.changed \/ n.changed = t.changed \union rgn
      /\ n.copied = t.copied /\ n.cached = t.cached /\ n.delta = t.delta
  BY <1>2, <1>4
<1>6. ASSUME k \in CacheRect, k \notin crossed, ~Renewed(k)', NEW c \in Screen
      PROVE  FollowsBoth(k, c)'
  <2>. DEFINE u == upd[k]
              p == pic[k]
              v == vcache[k]
              b == back[c]
              h == cache[c]
  <2>0. CacheFollows(k) /\ (b = Blank => h = Blank)
    BY <1>6 DEF CacheOnly, BothBlank
  <2>1. SUFFICES IF upc[k] = "wait" THEN Mirrors(n, p, v, b, h, c)
                 ELSE \/ Mirrors(u, p, v, b, h, c) /\ c \notin n.cached
                      \/ c \in n.changed /\ h = Blank
                      \/ ~Touches(u, {c}) /\ Mirrors(n, p, v, b, h, c)
    BY <1>1 DEF FollowsBoth, n
  <2>2. CASE full[k]
    <3>1. rgn = 1 .. vsize[k] /\ ~incremental /\ Renewed(k)
      BY <1>1, <2>2 DEF Asks, Renewed
    <3>2. vsize[k] = size
      BY <1>1, <1>6, CellsAreInts DEF Renewed, TheRightSize, TypeOK
    <3>3. c \in n.changed
      BY <1>2, <1>4, <3>1, <3>2 DEF Screen
    <3>4. h = Blank
      BY <2>0, <3>1 DEF CacheFollows
    <3>. HIDE DEF u, p, v, b, h
    <3>5. Mirrors(n, p, v, b, h, c)
      BY <3>3, <3>4 DEF Mirrors
    <3>. QED BY <3>3, <3>4, <3>5
  <2>3. CASE ~full[k]
    <3>1. ~Renewed(k)
      BY <1>1, <1>6, <2>3 DEF Renewed
    <3>2. FollowsBoth(k, c)
      BY <2>0, <3>1 DEF CacheFollows
    <3>3. IF upc[k] = "wait" THEN Mirrors(t, p, v, b, h, c)
          ELSE \/ Mirrors(u, p, v, b, h, c) /\ c \notin t.cached
               \/ c \in t.changed /\ h = Blank
               \/ ~Touches(u, {c}) /\ Mirrors(t, p, v, b, h, c)
      BY <3>2 DEF FollowsBoth
    <3>4. c \in t.copied => h = Blank
      BY <2>0 DEF CacheFollows
    <3>. HIDE DEF t, u, p, v, b, h
    <3>5. ASSUME Mirrors(t, p, v, b, h, c) PROVE Mirrors(n, p, v, b, h, c)
      <4>1. CASE c \in n.changed
        BY <1>5, <2>0, <3>4, <3>5, <4>1, MirrorsChanged
      <4>2. CASE c \notin n.changed
        <5>1. c \notin t.changed
          BY <1>5, <4>2
        <5>. QED BY <1>5, <3>5, <4>2, <5>1, MirrorsAlike
      <4>. QED BY <4>1, <4>2
    <3>. QED BY <1>5, <3>3, <3>5
  <2>. QED BY <2>2, <2>3
<1>7. ASSUME k \in CacheRect, k \notin crossed
      PROVE  CacheFollows(k)'
  <2>1. CacheFollows(k)
    BY <1>7 DEF CacheOnly
  <2>2. Renewed(k)' => Renewed(k)
    BY <1>1 DEF Renewed, TypeOK
  <2>3. \A c \in n.copied \intersect Screen : cache[c] = Blank
    BY <1>5, <2>1 DEF CacheFollows
  <2>4. Screen' = Screen /\ cache' = cache
    BY <1>1 DEF Screen
  <2>5. ~Renewed(k)' => \A c \in Screen' : FollowsBoth(k, c)'
    BY <1>6, <1>7, <2>4
  <2>6. Renewed(k)' => \A c \in Screen' : cache'[c] = Blank
    BY <2>1, <2>2, <2>4 DEF CacheFollows
  <2>7. \A c \in tracker'[k].copied \intersect Screen' : cache'[c] = Blank
    BY <2>3, <2>4 DEF n
  <2>. QED BY <2>5, <2>6, <2>7 DEF CacheFollows
<1>8. UNCHANGED <<size, back, cache>> /\ crossed \subseteq crossed' /\ crossed' = crossed
  BY <1>1
<1>. QED BY <1>2, <1>3, <1>7, <1>8, OneClientSteps
-----------------------------------------------------------------------------
(***************************************************************************)
(* With a cache: the cycle.                                                *)
(***************************************************************************)
\* Outside of the destination, a copy that is added to a tracker leaves a cell
\* alone, or makes a change of one that was a copy.
LEMMA CopyElsewhere ==
  ASSUME NEW t, Good(t), NEW dest \in SUBSET Cells, NEW delta \in Int,
         NEW c, c \notin dest
  PROVE  LET n == AddCopied(t, TRUE, dest, delta)
         IN  /\ c \in n.copied => c \in t.copied
             /\ \/ c \in t.copied /\ c \in n.changed
                \/ /\ c \in n.changed <=> c \in t.changed
                   /\ c \in n.copied <=> c \in t.copied
                   /\ c \in n.copied => n.delta = t.delta
<1>. DEFINE part == (Shift(dest, -delta) \intersect t.copied) \ t.changed
            valid == Shift(part, delta)
            invalid == Shift(Shift(dest, -delta) \intersect t.changed, delta)
            con == ContinueCopy(t, dest, delta)
            rep == ReplaceCopy(t, dest, delta)
            add == AddChanged(t, dest)
            n == AddCopied(t, TRUE, dest, delta)
<1>1. valid \subseteq dest /\ invalid \subseteq dest
  <2>1. dest \in SUBSET Int
    BY CellsAreInts
  <2>. QED BY <2>1, ShiftBack
<1>2. n = t \/ n = add \/ n = con \/ n = rep
  BY DEF AddCopied
<1>3. /\ con.changed = (t.changed \union t.copied \union dest) \ valid /\ con.copied = valid
      /\ rep.changed = t.changed \union invalid \union t.copied
      /\ rep.copied = dest \ invalid
  BY DEF ContinueCopy, ReplaceCopy
<1>4. /\ add.changed = t.changed \union dest /\ add.copied = t.copied
      /\ add.delta = t.delta
  BY DEF AddChanged, Good, Tracker
<1>. HIDE DEF valid, invalid, con, rep, add, n
<1>5. CASE n = t
  BY <1>5 DEF n
<1>6. CASE n = add
  BY <1>4, <1>6 DEF n
<1>7. CASE n = con
  BY <1>1, <1>3, <1>7 DEF n
<1>8. CASE n = rep
  BY <1>1, <1>3, <1>8 DEF n
<1>. QED BY <1>2, <1>5, <1>6, <1>7, <1>8

\* A copy that is added to a tracker brings no other copies.
LEMMA CopyWithin ==
  ASSUME NEW t, Good(t), NEW e \in BOOLEAN, NEW dest \in SUBSET Cells, NEW delta \in Int,
         NEW c \in AddCopied(t, e, dest, delta).copied
  PROVE  c \in t.copied \/ c \in dest
<1>1. CASE ~e
  BY <1>1, CopyKeepsCached
<1>2. CASE e
  <2>1. e = TRUE
    BY <1>2
  <2>. QED BY <2>1, CopyElsewhere
<1>. QED BY <1>1, <1>2

\* The cache buffer after the cycle, where nothing differs.
LEMMA CacheAfter ==
  ASSUME TypeOK, Cycle, NEW c \in Screen
  PROVE  /\ c \in Differ => /\ cache'[c] = BackCopied(Copied)[c]
                            /\ back'[c] = screen[c] /\ c \notin Copied.copied
         /\ c \notin Copied.copied => BackCopied(Copied)[c] = back[c]
         /\ c \notin Differ => /\ back'[c] = BackCopied(Copied)[c]
                               /\ cache'[c] = cache[c] \/ cache'[c] = Blank
                               /\ c \in Copied.copied => cache'[c] = Blank
                               /\ Copied.copied = {} => cache'[c] = cache[c]
         /\ c \in AsCache => /\ c \in Differ
                             /\ screen[c] = cache[c] \/ screen[c] = Blank
<1>1. c \in Cells /\ c \in Int
  BY Shapes, CellsAreInts
<1>2. /\ back'[c] = IF c \in Differ THEN Grabbed[c] ELSE BackCopied(Copied)[c]
      /\ cache'[c] = IF c \in Differ THEN BackCopied(Copied)[c] ELSE CacheCleared(Copied)[c]
  BY <1>1, CycleIs
<1>3. CacheCleared(Copied)[c] =
        IF c \in Copied.copied \union Source(Copied) THEN Blank ELSE cache[c]
  BY <1>1 DEF CacheCleared
<1>4. Copied.copied = {} => Source(Copied) = {}
  BY DEF Source, Shift
<1>5. c \in Differ => c \in rgncache /\ c \notin Copied.copied
  BY DEF Differ, ToCheck
<1>6. c \in rgncache => Grabbed[c] = screen[c]
  BY <1>1 DEF Grabbed, Hull
<1>7. c \notin Copied.copied => BackCopied(Copied)[c] = back[c]
  BY <1>1 DEF BackCopied, CopyDest
<1>8. c \in AsCache => c \in Differ /\ Grabbed[c] = CacheCleared(Copied)[c]
  BY DEF AsCache
<1>. QED BY <1>2, <1>3, <1>4, <1>5, <1>6, <1>7, <1>8

LEMMA CycleBothBlank ==
  ASSUME TypeOK, BlankIsSeen, BothBlank, Cycle
  PROVE  BothBlank'
<1>. SUFFICES ASSUME NEW c \in Screen, back'[c] = Blank
              PROVE  cache'[c] = Blank
  BY CycleIs DEF BothBlank, Screen, desk
<1>1. c \notin Differ
  BY CacheAfter DEF BlankIsSeen
<1>2. CASE c \in Copied.copied
  BY <1>1, <1>2, CacheAfter
<1>3. CASE c \notin Copied.copied
  <2>1. back[c] = Blank
    BY <1>1, <1>3, CacheAfter
  <2>. QED BY <1>1, <2>1, CacheAfter DEF BothBlank
<1>. QED BY <1>2, <1>3

\* The tracker of a client before and after the cycle.
LEMMA PassedCell ==
  ASSUME TypeOK, CopiesInside, NEW k \in Clients, NEW c
  PROVE  LET t == tracker[k]
             e == k \in CopyRect
             t1 == IF Copied.copied = {} THEN t
                   ELSE AddCopied(t, e, Copied.copied, Copied.delta)
             n == Pass(Updates, t, e)
         IN  /\ n.changed = t1.changed \union Copied.changed \union (Differ \ AsCache)
             /\ n.copied = t1.copied /\ n.delta = t1.delta
             /\ n.cached = t.cached \union AsCache
             /\ c \in n.copied => c \in t.copied \/ c \in Copied.copied
             /\ c \notin Copied.copied =>
                  \/ c \in t.copied /\ c \in n.changed
                  \/ /\ c \in t.changed => c \in n.changed
                     /\ c \in n.copied <=> c \in t.copied
                     /\ c \in n.copied => n.delta = t.delta
                     /\ c \in n.changed => c \in t.changed \union Copied.changed \union Differ
             /\ ~e /\ c \in Copied.copied => c \in n.changed
<1>. DEFINE t == tracker[k]
            e == k \in CopyRect
            t1 == IF Copied.copied = {} THEN t
                  ELSE AddCopied(t, e, Copied.copied, Copied.delta)
            n == Pass(Updates, t, e)
            add == AddChanged(t, Copied.copied)
<1>1. Good(t) /\ e \in BOOLEAN /\ Copied.copied \in SUBSET Cells /\ Copied.delta \in Int
  BY CycleCopy DEF CopiesInside
<1>2. /\ n.changed = t1.changed \union Copied.changed \union (Differ \ AsCache)
      /\ n.copied = t1.copied /\ n.delta = t1.delta
      /\ n.cached = t1.cached \union AsCache
  BY UpdatesAreGood, PassedUpdates
<1>3. add.changed = t.changed \union Copied.copied /\ add.copied = t.copied /\ add.delta = t.delta
  BY <1>1 DEF AddChanged, Good, Tracker
<1>4. ~e => t1 = t \/ t1 = add
  BY DEF AddCopied
<1>5. ~e /\ Copied.copied # {} => t1 = add
  BY DEF AddCopied
<1>6. t1 = t \/ t1 = AddCopied(t, e, Copied.copied, Copied.delta)
  OBVIOUS
<1>. HIDE DEF t, e, t1, n, add
<1>7. t1.cached = t.cached
  BY <1>1, <1>6, CopyKeepsCached
<1>8. c \in t1.copied => c \in t.copied \/ c \in Copied.copied
  BY <1>1, <1>6, CopyWithin
<1>9. ASSUME c \notin Copied.copied
      PROVE  \/ c \in t.copied /\ c \in t1.changed
             \/ /\ c \in t1.changed <=> c \in t.changed
                /\ c \in t1.copied <=> c \in t.copied
                /\ c \in t1.copied => t1.delta = t.delta
  <2>1. CASE t1 = t
    BY <2>1
  <2>2. CASE t1 = add
    BY <1>3, <1>9, <2>2
  <2>3. CASE t1 = AddCopied(t, TRUE, Copied.copied, Copied.delta)
    BY <1>1, <1>9, <2>3, CopyElsewhere
  <2>. QED BY <1>1, <1>4, <1>6, <2>1, <2>2, <2>3
<1>10. ~e /\ c \in Copied.copied => c \in t1.changed
  BY <1>3, <1>5
<1>11. /\ c \in n.copied => c \in t.copied \/ c \in Copied.copied
       /\ ~e /\ c \in Copied.copied => c \in n.changed
  BY <1>2, <1>8, <1>10
<1>12. c \notin Copied.copied =>
         \/ c \in t.copied /\ c \in n.changed
         \/ /\ c \in t.changed => c \in n.changed
            /\ c \in n.copied <=> c \in t.copied
            /\ c \in n.copied => n.delta = t.delta
            /\ c \in n.changed => c \in t.changed \union Copied.changed \union Differ
  BY <1>2, <1>9
<1>. QED BY <1>2, <1>7, <1>11, <1>12 DEF t, e, t1, n

\* A cell that differs: neither the tracker nor the update speaks of it, so
\* that the viewer shows what the back buffer showed, and keeps what the cache
\* buffer kept.
LEMMA CycleDiffers ==
  ASSUME NEW n, NEW p, NEW v, NEW b, NEW h, NEW b1, NEW c,
         b = Blank \/ p[c] = b, h = Blank \/ v[c] = h, b1 # Blank,
         c \notin n.copied,
         \/ c \in n.cached /\ b1 = h
         \/ c \notin n.cached /\ c \in n.changed
  PROVE  Mirrors(n, p, v, b1, b, c)
<1>1. After(n, p, c) = p[c]
  BY DEF After, CopyDest
<1>2. CASE c \in n.cached /\ b1 = h
  <2>1. Shown(n, p, v, c) = v[c] /\ KeptAs(n, p, v, c) = p[c] /\ v[c] = b1
    BY <1>1, <1>2 DEF Shown, KeptAs
  <2>. QED BY <2>1 DEF Mirrors
<1>3. CASE c \notin n.cached /\ c \in n.changed
  <2>1. Shown(n, p, v, c) = p[c]
    BY <1>1, <1>3 DEF Shown
  <2>. QED BY <1>3, <2>1 DEF Mirrors
<1>. QED BY <1>2, <1>3

\* A cell that is neither compared nor part of the copy: at most it is added to
\* the tracker as changed, and the cache buffer forgets it.
LEMMA CycleElsewhere ==
  ASSUME NEW t, NEW n, NEW p, NEW v, NEW b, NEW h, NEW h1, NEW c,
         Mirrors(t, p, v, b, h, c), h1 = h \/ h1 = Blank,
         b = Blank => h = Blank, c \in t.copied => h = Blank,
         c \in n.cached <=> c \in t.cached,
         \/ c \in t.copied /\ c \in n.changed
         \/ /\ c \in t.changed => c \in n.changed
            /\ c \in n.copied <=> c \in t.copied
            /\ c \in n.copied => n.delta = t.delta
  PROVE  Mirrors(n, p, v, b, h1, c)
<1>1. CASE c \in n.changed /\ h1 = Blank
  BY <1>1 DEF Mirrors
<1>2. CASE c \in n.changed /\ h1 = h /\ h # Blank
  BY <1>2, MirrorsChanged
<1>3. CASE c \notin n.changed
  <2>1. Mirrors(n, p, v, b, h, c)
    BY <1>3, MirrorsAlike
  <2>. QED BY <2>1, MirrorsForgets
<1>. QED BY <1>1, <1>2, <1>3

\* What add_copied relies on: where the copy is made and where it comes from,
\* nothing is to be swapped in.
LEMMA CycleCopies ==
  ASSUME CacheInv, NEW k \in CacheRect, k \notin crossed, ~Renewed(k), upc[k] = "wait",
         k \in CopyRect, Copied.copied # {},
         tracker[k].cached \intersect (Copied.copied \union Source(Copied)) = {},
         NEW c \in Screen, c \in Copied.copied
  PROVE  Agrees(AddCopied(tracker[k], TRUE, Copied.copied, Copied.delta), pic[k],
                Moved(back, Copied.copied, Copied.delta, c), c)
<1>. USE DEF CacheInv, BaseInv
<1>. DEFINE t == tracker[k]
            p == pic[k]
            S == Screen \ t.cached
<1>1. k \in Clients /\ Good(t) /\ c \in Cells
  BY FlowAssumption, Shapes DEF CopiesInside
<1>2. /\ Shift(Copied.copied, -Copied.delta) \subseteq S
      /\ Copied.copied \in SUBSET Cells /\ Copied.delta \in Int
  BY CycleCopy DEF Source
<1>3. c \in S
  OBVIOUS
<1>4. ASSUME NEW x \in S PROVE Agrees(t, p, back[x], x)
  <2>1. Mirrors(t, p, vcache[k], back[x], cache[x], x)
    BY DEF CacheOnly, CacheFollows, FollowsBoth
  <2>2. Shown(t, p, vcache[k], x) = After(t, p, x)
    BY DEF Shown
  <2>. HIDE DEF t, p
  <2>. QED BY <2>1, <2>2 DEF Mirrors, Agrees
<1>. HIDE DEF t, p, S
<1>5. \A x \in S : Agrees(t, p, back[x], x)
  BY <1>4
<1>. QED BY <1>1, <1>2, <1>3, <1>5, AddAgrees DEF t, p

LEMMA CycleMirrors ==
  ASSUME CacheInv, Cycle, NEW k \in CacheRect, k \notin crossed', ~Renewed(k), NEW c \in Screen
  PROVE  FollowsBoth(k, c)'
<1>. USE DEF CacheInv, BaseInv
<1>. DEFINE t == tracker[k]
            u == upd[k]
            p == pic[k]
            v == vcache[k]
            b == back[c]
            h == cache[c]
            b1 == back'[c]
            h1 == cache'[c]
            e == k \in CopyRect
            n == Pass(Updates, t, e)
<1>1. /\ tracker'[k] = n /\ UNCHANGED <<upc, upd, pic, vcache>>
      /\ k \in Clients /\ c \in Cells
  BY CycleIs, Shapes, FlowAssumption DEF sender, viewer
<1>2. /\ n.cached = t.cached \union AsCache
      /\ Copied.changed \union (Differ \ AsCache) \subseteq n.changed
      /\ c \in n.copied => c \in t.copied \/ c \in Copied.copied
      /\ c \notin Copied.copied =>
           \/ c \in t.copied /\ c \in n.changed
           \/ /\ c \in t.changed => c \in n.changed
              /\ c \in n.copied <=> c \in t.copied
              /\ c \in n.copied => n.delta = t.delta
      /\ ~e /\ c \in Copied.copied => c \in n.changed
  BY <1>1, PassedCell
<1>3. k \notin crossed /\ ~Overtakes(k, Copied, Differ)
  BY <1>1, CycleIs
<1>4. CacheFollows(k) /\ FollowsBoth(k, c) /\ (b = Blank => h = Blank)
  BY <1>3 DEF CacheOnly, CacheFollows, BothBlank
<1>5. IF upc[k] = "wait" THEN Mirrors(t, p, v, b, h, c)
      ELSE \/ Mirrors(u, p, v, b, h, c) /\ c \notin t.cached
           \/ c \in t.changed /\ h = Blank
           \/ ~Touches(u, {c}) /\ Mirrors(t, p, v, b, h, c)
  BY <1>4 DEF FollowsBoth
<1>6. c \in t.copied => h = Blank
  BY <1>4 DEF CacheFollows
<1>7. SUFFICES IF upc[k] = "wait" THEN Mirrors(n, p, v, b1, h1, c)
               ELSE \/ Mirrors(u, p, v, b1, h1, c) /\ c \notin n.cached
                    \/ c \in n.changed /\ h1 = Blank
                    \/ ~Touches(u, {c}) /\ Mirrors(n, p, v, b1, h1, c)
  BY <1>1 DEF FollowsBoth
<1>8. CASE c \in Differ
  <2>1. ~Touches(t, {c}) /\ ~Touches(u, {c})
    BY <1>3, <1>8 DEF Overtakes, Touches
  <2>2. c \notin t.changed /\ c \notin t.cached /\ c \notin t.copied
    BY <2>1 DEF Touches
  <2>3. h1 = b /\ b1 = screen[c] /\ c \notin Copied.copied /\ b1 # Blank
    BY <1>8, CacheAfter DEF BlankIsSeen
  <2>4. c \in AsCache => b1 = h
    BY <2>3, CacheAfter
  <2>. HIDE DEF t, u, p, v, b, h, b1, h1, n
  <2>5. (b = Blank \/ p[c] = b) /\ (h = Blank \/ v[c] = h)
    BY <1>5, <2>1, <2>2, MirrorsUntouched
  <2>6. \/ c \in n.cached /\ b1 = h
        \/ c \notin n.cached /\ c \in n.changed
    BY <1>2, <1>8, <2>2, <2>4
  <2>7. Mirrors(n, p, v, b1, b, c)
    BY <1>2, <2>2, <2>3, <2>5, <2>6, CycleDiffers
  <2>. QED BY <2>1, <2>3, <2>7
<1>9. CASE c \notin Differ
  <2>1. /\ h1 = h \/ h1 = Blank
        /\ c \in Copied.copied => h1 = Blank
        /\ c \notin Copied.copied => b1 = b
        /\ c \notin AsCache
    BY <1>9, CacheAfter
  <2>2. CASE c \notin Copied.copied
    <3>. HIDE DEF t, u, p, v, b, h, b1, h1, n
    <3>1. Mirrors(t, p, v, b, h, c) => Mirrors(n, p, v, b1, h1, c)
      BY <1>2, <1>4, <1>6, <2>1, <2>2, CycleElsewhere
    <3>2. Mirrors(u, p, v, b, h, c) => Mirrors(u, p, v, b1, h1, c)
      BY <2>1, <2>2, MirrorsForgets
    <3>3. c \in t.changed /\ h = Blank => c \in n.changed /\ h1 = Blank
      BY <1>2, <2>1, <2>2
    <3>. QED BY <1>2, <1>5, <2>1, <3>1, <3>2, <3>3
  <2>3. CASE c \in Copied.copied /\ c \in n.changed
    <3>. HIDE DEF t, u, p, v, b, h, b1, h1, n
    <3>1. Mirrors(n, p, v, b1, h1, c)
      BY <2>1, <2>3 DEF Mirrors
    <3>. QED BY <2>1, <2>3, <3>1
  <2>4. CASE c \in Copied.copied /\ c \notin n.changed
    <3>1. e /\ Copied.copied # {}
      BY <1>2, <2>4
    <3>2. /\ upc[k] = "wait"
          /\ t.cached \intersect (Copied.copied \union Source(Copied)) = {}
      BY <1>1, <1>3, <3>1 DEF Overtakes, TypeOK, UPC
    <3>. DEFINE t1 == AddCopied(t, TRUE, Copied.copied, Copied.delta)
                m == Moved(back, Copied.copied, Copied.delta, c)
    <3>3. Agrees(t1, p, m, c)
      BY <1>3, <2>4, <3>1, <3>2, CycleCopies
    <3>4. e = TRUE
      BY <3>1
    <3>5. t1.changed \subseteq n.changed /\ n.copied = t1.copied /\ n.delta = t1.delta
      BY <1>1, <3>1, <3>4, PassedCell
    <3>6. b1 = m
      BY <1>2, <1>9, <2>4, BackAfter
    <3>. HIDE DEF t, u, p, v, b, h, b1, h1, n, t1, m
    <3>7. c \notin t1.changed /\ c \notin n.cached
      BY <1>2, <2>1, <2>4, <3>2, <3>5
    <3>8. After(n, p, c) = After(t1, p, c)
      BY <2>4, <3>5, <3>7 DEF After, CopyDest
    <3>9. Mirrors(n, p, v, b1, h1, c)
      BY <2>1, <2>4, <3>3, <3>6, <3>7, <3>8 DEF Mirrors, Agrees, Shown
    <3>. QED BY <3>2, <3>9
  <2>. QED BY <2>2, <2>3, <2>4
<1>. QED BY <1>8, <1>9

LEMMA CycleCache ==
  ASSUME CacheInv, Cycle
  PROVE  CacheOnly'
<1>. USE DEF CacheInv, BaseInv
<1>1. BothBlank'
  BY CycleBothBlank DEF CacheOnly
<1>2. ASSUME NEW k \in CacheRect, k \notin crossed'
      PROVE  CacheFollows(k)'
  <2>1. /\ k \in Clients /\ k \notin crossed /\ ~Overtakes(k, Copied, Differ)
        /\ Screen' = Screen /\ (Renewed(k)' <=> Renewed(k))
    BY <1>2, CycleIs, FlowAssumption DEF Renewed, Screen, desk, viewer
  <2>2. CacheFollows(k)
    BY <2>1 DEF CacheOnly
  <2>3. ASSUME Renewed(k), NEW c \in Screen PROVE cache'[c] = Blank
    <3>1. cache[c] = Blank
      BY <2>2, <2>3 DEF CacheFollows
    <3>2. c \in Differ => BackCopied(Copied)[c] = Blank
      BY <2>1, <2>3 DEF Overtakes
    <3>. QED BY <3>1, <3>2, CacheAfter
  <2>4. ASSUME NEW c \in Screen, c \in tracker'[k].copied PROVE cache'[c] = Blank
    <3>1. c \in tracker[k].copied \/ c \in Copied.copied
      BY <2>1, <2>4, PassedCell, CycleIs
    <3>2. CASE c \in Copied.copied
      BY <3>2, CacheAfter
    <3>3. CASE c \in tracker[k].copied
      <4>1. cache[c] = Blank
        BY <2>2, <3>3 DEF CacheFollows
      <4>2. c \notin Differ
        BY <2>1, <3>3 DEF Overtakes, Touches
      <4>. QED BY <4>1, <4>2, CacheAfter
    <3>. QED BY <3>1, <3>2, <3>3
  <2>5. ASSUME ~Renewed(k), NEW c \in Screen PROVE FollowsBoth(k, c)'
    BY <1>2, <2>5, CycleMirrors
  <2>6. Renewed(k)' => \A c \in Screen' : cache'[c] = Blank
    BY <2>1, <2>3
  <2>7. \A c \in tracker'[k].copied \intersect Screen' : cache'[c] = Blank
    BY <2>1, <2>4
  <2>8. ~Renewed(k)' => \A c \in Screen' : FollowsBoth(k, c)'
    BY <2>1, <2>5
  <2>. QED BY <2>6, <2>7, <2>8 DEF CacheFollows
<1>. QED BY <1>1, <1>2 DEF CacheOnly
-----------------------------------------------------------------------------
LEMMA CacheNext == CacheInv /\ [Next]_vars => CacheOnly'
<1>. SUFFICES ASSUME CacheInv, [Next]_vars
              PROVE  CacheOnly'
  OBVIOUS
<1>1. ASSUME \/ \E c \in Cells, v \in Content : Paint(c, v)
             \/ \E c \in Cells, i \in 0 .. WindowWidth - 1 : MoveWindow(c - i)
             \/ \E c \in Cells : TakeHint(c)
             \/ UpdateWanted \/ UNCHANGED vars \/ \E k \in Clients : Poke(k)
      PROVE  CacheOnly'
  <2>1. UNCHANGED <<size, back, cache, crossed, tracker, upd, upc, pic, vcache,
                    untold, newsize, full>>
    BY <1>1 DEF Paint, MoveWindow, TakeHint, UpdateWanted, Poke, vars, desk, grabber,
                sender, viewer
  <2>. QED BY <2>1, SameCache
<1>2. CASE Cycle
  BY <1>2, CycleCache
<1>3. ASSUME NEW s \in Sizes, DisplayChange(s)
      PROVE  CacheOnly'
  BY <1>3, DisplayCache
<1>4. ASSUME NEW k \in Clients,
             \/ TellSize(k) \/ TakeUpdate(k) \/ NothingToSend(k)
             \/ SendNewSize(k) \/ SendUpdate(k)
      PROVE  CacheOnly'
  BY <1>4, TellCache, TakeCache, NothingCache, NewSizeCache, SendCache
<1>5. ASSUME NEW k \in Clients, NEW rgn \in Asks(k), NEW incremental \in BOOLEAN,
             Request(k, rgn, incremental)
      PROVE  CacheOnly'
  BY <1>5, RequestCache
<1>. QED BY <1>1, <1>2, <1>3, <1>4, <1>5 DEF Next

LEMMA QuietWithCache ==
  ASSUME CacheRect = Clients
  PROVE  CacheInv => QuietCellIsRight
<1>. SUFFICES ASSUME CacheInv, NEW k \in Clients, k \notin crossed,
                     NEW c \in Screen, ~UnderWay(k, c)
              PROVE  pic[k][c] = screen[c]
  BY DEF QuietCellIsRight, RightWhenQuiet
<1>. USE DEF CacheInv, BaseInv
<1>1. /\ c \notin rgncache /\ c \notin hints /\ ~Renewed(k)
      /\ ~Touches(tracker[k], {c}) /\ ~Touches(upd[k], {c})
  BY DEF UnderWay
<1>2. back[c] = screen[c] /\ back[c] # Blank
  BY <1>1 DEF DesktopPending, BlankIsSeen
<1>3. FollowsBoth(k, c)
  BY <1>1 DEF CacheOnly, CacheFollows
<1>4. c \notin tracker[k].changed
  BY <1>1 DEF Touches
<1>5. \/ Mirrors(tracker[k], pic[k], vcache[k], back[c], cache[c], c)
      \/ Mirrors(upd[k], pic[k], vcache[k], back[c], cache[c], c)
  BY <1>3, <1>4 DEF FollowsBoth
<1>6. back[c] = Blank \/ pic[k][c] = back[c]
  BY <1>1, <1>5, MirrorsUntouched
<1>. QED BY <1>2, <1>6

\* For any screens and any viewers, with or without copies, and whether or not
\* the one viewer has a cache: where nothing is under way any more, a picture
\* shows what the screen shows, unless a copy or a cached cell has crossed
\* another change on its way to that viewer.
THEOREM QuietPicturesAreRight == Spec => []QuietCellIsRight
<1>1. CASE CacheRect = {}
  BY <1>1, QuietWithoutCache
<1>2. CASE CacheRect # {}
  <2>1. CacheRect = Clients
    BY <1>2, FlowAssumption
  <2>2. CacheInv => QuietCellIsRight
    BY <2>1, QuietWithCache
  <2>3. CacheInv <=> BaseInv /\ CacheOnly
    BY DEF CacheInv
  <2>. QED BY <2>2, <2>3, BaseHolds, CacheInit, CacheNext, PTL DEF Spec
<1>. QED BY <1>1, <1>2
=============================================================================
