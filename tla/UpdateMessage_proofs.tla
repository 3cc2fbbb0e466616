------------------------ MODULE UpdateMessage_proofs ------------------------
(***************************************************************************)
(* Proofs about UpdateMessage: however an encoder divides, searches,       *)
(* queues and flushes, a message covers exactly what has changed, in as    *)
(* many rectangles as it has announced, no pixel twice, and what goes out  *)
(* in one colour is of one colour.                                         *)
(***************************************************************************)
EXTENDS UpdateMessage, TLAPS, WellFoundedInduction

-----------------------------------------------------------------------------
(***************************************************************************)
(* Rectangles.                                                             *)
(***************************************************************************)
\* A rectangle that may be empty.
Span == [x : Nat, y : Nat, w : Nat, h : Nat]

Within(p, r) == /\ r.x <= p[1] /\ p[1] < r.x + r.w
                /\ r.y <= p[2] /\ p[2] < r.y + r.h

\* A rectangle is never empty, a span may be.
LEMMA RectIsSpan == Rect \subseteq Span
  BY MessageAssumption DEF Rect, Span

\* The pixels of a span, by its bounds.
LEMMA InCells ==
  ASSUME NEW r \in Span, NEW p
  PROVE  p \in Cells(r) <=> p \in Nat \X Nat /\ Within(p, r)
<1>1. ASSUME p \in Cells(r)
      PROVE  p \in Nat \X Nat /\ Within(p, r)
  BY <1>1 DEF Cells, Within, Span
<1>2. ASSUME p \in Nat \X Nat, Within(p, r)
      PROVE  p \in Cells(r)
  BY <1>2 DEF Cells, Within, Span
<1> QED
  BY <1>1, <1>2

\* An empty span has no pixels.
LEMMA EmptySpan ==
  ASSUME NEW r \in Span, ~NonEmpty(r)
  PROVE  Cells(r) = {}
<1>1. \A p : ~Within(p, r) \/ p \notin Nat \X Nat
  BY DEF Within, NonEmpty, Span
<1> QED
  BY <1>1, InCells

\* The first piece, what is right of it and what is below are the rectangle.
LEMMA CutCovers ==
  ASSUME NEW r \in Rect, NEW l,
         PieceWidth(r, l) \in Nat \ {0}, PieceHeight(r, l) \in Nat \ {0}
  PROVE  LET c == Cut(r, l) IN
         /\ c.piece \in Rect /\ c.right \in Span /\ c.below \in Span
         /\ NonEmpty(c.right) => c.right \in Rect
         /\ NonEmpty(c.below) => c.below \in Rect
         /\ Cells(r) = Cells(c.piece) \union Cells(c.right) \union Cells(c.below)
<1> DEFINE c == Cut(r, l)
           w == Least(r.w, PieceWidth(r, l))
           h == Least(r.h, PieceHeight(r, l))
<1>1. /\ w \in 1 .. r.w /\ h \in 1 .. r.h
  BY MessageAssumption DEF Least, Rect
<1>2. /\ c.piece = Box(r.x, r.y, w, h)
      /\ c.right = Box(r.x + w, r.y, r.w - w, h)
      /\ c.below = Box(r.x, r.y + h, r.w, r.h - h)
  BY DEF Cut
<1>3. r \in Span
  BY RectIsSpan
<1> HIDE DEF w, h, c
<1>4. c.piece \in Rect /\ c.piece \in Span
  BY <1>1, <1>2, RectIsSpan, MessageAssumption DEF Box, Rect
<1>5. c.right \in Span /\ (NonEmpty(c.right) => c.right \in Rect)
  BY <1>1, <1>2, MessageAssumption DEF Box, Rect, Span, NonEmpty
<1>6. c.below \in Span /\ (NonEmpty(c.below) => c.below \in Rect)
  BY <1>1, <1>2, MessageAssumption DEF Box, Rect, Span, NonEmpty
<1>7. ASSUME NEW p \in Nat \X Nat
      PROVE  Within(p, r) <=> \/ Within(p, c.piece) \/ Within(p, c.right) \/ Within(p, c.below)
  BY <1>1, <1>2, <1>3 DEF Within, Box, Span
<1>8. Cells(r) = Cells(c.piece) \union Cells(c.right) \union Cells(c.below)
  BY <1>3, <1>4, <1>5, <1>6, <1>7, InCells
<1> QED
  BY <1>4, <1>5, <1>6, <1>8 DEF c

\* A solid area and the four rectangles around it are the rectangle.
LEMMA AroundCovers ==
  ASSUME NEW r \in Rect, NEW a \in Rect, Inside(a, r)
  PROVE  LET top   == Box(r.x, r.y, r.w, a.y - r.y)
             left  == Box(r.x, a.y, a.x - r.x, a.h)
             right == Box(a.x + a.w, a.y, r.x + r.w - a.x - a.w, a.h)
             below == Box(r.x, a.y + a.h, r.w, r.y + r.h - a.y - a.h)
         IN  /\ \A s \in {top, left, right, below} :
                    s \in Span /\ (NonEmpty(s) => s \in Rect)
             /\ Cells(r) = Cells(top) \union Cells(left) \union Cells(a)
                               \union Cells(right) \union Cells(below)
<1> DEFINE top   == Box(r.x, r.y, r.w, a.y - r.y)
           left  == Box(r.x, a.y, a.x - r.x, a.h)
           right == Box(a.x + a.w, a.y, r.x + r.w - a.x - a.w, a.h)
           below == Box(r.x, a.y + a.h, r.w, r.y + r.h - a.y - a.h)
<1>1. top \in Span /\ (NonEmpty(top) => top \in Rect)
  BY MessageAssumption DEF Inside, Box, Rect, Span, NonEmpty
<1>2. left \in Span /\ (NonEmpty(left) => left \in Rect)
  BY MessageAssumption DEF Inside, Box, Rect, Span, NonEmpty
<1>3. right \in Span /\ (NonEmpty(right) => right \in Rect)
  <2>1. /\ r \in Span /\ a \in Span /\ a.w > 0 /\ a.h > 0
        /\ r.x + r.w <= Width /\ a.y + a.h <= Height
        /\ a.x >= r.x /\ a.x + a.w <= r.x + r.w
    BY RectIsSpan, MessageAssumption DEF Inside, Rect
  <2>2. right.w = r.x + r.w - a.x - a.w
    BY DEF Box
  <2>3. right.w \in Nat /\ right \in Span
    BY <2>1, <2>2 DEF Box, Span
  <2>4. ASSUME right.w # 0 PROVE right \in Rect
    BY <2>1, <2>3, <2>4, MessageAssumption DEF Box, Rect, Span
  <2> QED
    BY <2>3, <2>4 DEF NonEmpty
<1>4. below \in Span /\ (NonEmpty(below) => below \in Rect)
  BY MessageAssumption DEF Inside, Box, Rect, Span, NonEmpty
<1>5. r \in Span /\ a \in Span
  BY RectIsSpan
<1>6. ASSUME NEW p \in Nat \X Nat
      PROVE  Within(p, r) <=> \/ Within(p, top) \/ Within(p, left) \/ Within(p, a)
                              \/ Within(p, right) \/ Within(p, below)
  BY <1>5 DEF Within, Inside, Box, Span
<1> HIDE DEF top, left, right, below
<1>7. Cells(r) = Cells(top) \union Cells(left) \union Cells(a)
                     \union Cells(right) \union Cells(below)
  BY <1>1, <1>2, <1>3, <1>4, <1>5, <1>6, InCells
<1> QED
  BY <1>1, <1>2, <1>3, <1>4, <1>7 DEF top, left, right, below

\* The upper part of a rectangle that is too large, and the rest of it.
LEMMA StripCovers ==
  ASSUME NEW r \in Rect, NEW n \in 1 .. r.h - 1
  PROVE  LET upper == Box(r.x, r.y, r.w, n)
             lower == Box(r.x, r.y + n, r.w, r.h - n)
         IN  upper \in Rect /\ lower \in Rect /\ Cells(r) = Cells(upper) \union Cells(lower)
<1> DEFINE upper == Box(r.x, r.y, r.w, n)
           lower == Box(r.x, r.y + n, r.w, r.h - n)
<1>1. upper \in Rect /\ lower \in Rect
  BY MessageAssumption DEF Box, Rect
<1>2. upper \in Span /\ lower \in Span /\ r \in Span
  BY <1>1, RectIsSpan
<1>3. ASSUME NEW p \in Nat \X Nat
      PROVE  Within(p, r) <=> Within(p, upper) \/ Within(p, lower)
  BY <1>2 DEF Within, Box, Span
<1> HIDE DEF upper, lower
<1>4. Cells(r) = Cells(upper) \union Cells(lower)
  BY <1>2, <1>3, InCells
<1> QED
  BY <1>1, <1>4 DEF upper, lower

-----------------------------------------------------------------------------
(***************************************************************************)
(* The limits of a piece.                                                  *)
(***************************************************************************)
\* A piece is at least one pixel high and wide.
LEMMA DivPositive ==
  ASSUME NEW m \in Nat, NEW n \in Nat \ {0}, n <= m
  PROVE  m \div n \in Nat \ {0}
<1> DEFINE q == m \div n
<1>1. q \in Int /\ m < n * q + n
  OBVIOUS
<1>2. n * q > 0
  BY <1>1
<1> QED
  BY <1>1, <1>2

\* ... with Tight's limits ...
LEMMA TightLinesPositive ==
  ASSUME NEW w \in Nat \ {0}, NEW l \in Levels
  PROVE  TightLines(w, l) \in Nat \ {0}
<1> DEFINE size  == MaxRectSize[l]
           width == MaxRectWidth[l]
<1>1. size \in Nat /\ width \in Nat \ {0} /\ width <= size
  BY MessageAssumption
<1>2. TightLines(w, l) = size \div Least(w, width)
  BY DEF TightLines
<1> HIDE DEF size, width
<1>3. Least(w, width) \in Nat \ {0} /\ Least(w, width) <= size
  BY <1>1 DEF Least
<1> QED
  BY <1>1, <1>2, <1>3, DivPositive

\* ... with those of Zlib and Ultra ...
LEMMA StripLinesPositive ==
  ASSUME NEW w \in Nat \ {0}
  PROVE  StripLines(w) \in Nat \ {0}
<1> DEFINE m == IF 2 * w > StripSize THEN 2 * w ELSE StripSize
<1>1. m \in Nat /\ w <= m
  BY MessageAssumption
<1>2. StripLines(w) = m \div w
  BY DEF StripLines
<1> QED
  BY <1>1, <1>2, DivPositive

\* ... and with every encoder's, so each cut makes progress.
LEMMA PiecesPositive ==
  ASSUME NEW r \in Rect, NEW l \in Levels, viewer \in Viewers, maxwidth \in CorreMin .. CorreMax
  PROVE  PieceWidth(r, l) \in Nat \ {0} /\ PieceHeight(r, l) \in Nat \ {0}
<1>1. r.w \in Nat \ {0} /\ r.h \in Nat \ {0}
  BY MessageAssumption DEF Rect
<1>2. maxwidth \in Nat \ {0} /\ MaxRectWidth[l] \in Nat \ {0}
  BY MessageAssumption
<1>3. TightLines(r.w, l) \in Nat \ {0} /\ StripLines(r.w) \in Nat \ {0}
  BY <1>1, TightLinesPositive, StripLinesPositive
<1>4. PieceWidth(r, l) \in Nat \ {0}
  BY <1>1, <1>2 DEF PieceWidth
<1>5. PieceHeight(r, l) \in Nat \ {0}
  BY <1>1, <1>2, <1>3 DEF PieceHeight
<1> QED
  BY <1>4, <1>5

-----------------------------------------------------------------------------
(***************************************************************************)
(* What is still to be done.                                               *)
(***************************************************************************)
TodoCells(s)  == UNION {Cells(s[i].rect) : i \in DOMAIN s}
WholeCells(s) == UNION {Cells(s[i].whole) : i \in DOMAIN s}

\* Every job lies in the rectangle it comes from, and solid ones are solid.
Sound(s) == \A i \in DOMAIN s :
                /\ Cells(s[i].rect) \subseteq Cells(s[i].whole)
                /\ s[i].as = "solid" => \E c \in Colours : Solid(s[i].rect, c)

\* Jobs one after the other stand for the pixels of both, and are sound.
LEMMA ConcatCells ==
  ASSUME NEW s \in Seq(Job), NEW t \in Seq(Job)
  PROVE  /\ s \o t \in Seq(Job)
         /\ TodoCells(s \o t) = TodoCells(s) \union TodoCells(t)
         /\ WholeCells(s \o t) = WholeCells(s) \union WholeCells(t)
         /\ Sound(s) /\ Sound(t) => Sound(s \o t)
<1> DEFINE u == s \o t
<1>1. /\ u \in Seq(Job)
      /\ \A i \in DOMAIN s : i \in DOMAIN u /\ u[i] = s[i]
      /\ \A i \in DOMAIN t : i + Len(s) \in DOMAIN u /\ u[i + Len(s)] = t[i]
      /\ \A i \in DOMAIN u : \/ i \in DOMAIN s /\ u[i] = s[i]
                             \/ i - Len(s) \in DOMAIN t /\ u[i] = t[i - Len(s)]
  OBVIOUS
<1> HIDE DEF u
<1>2. TodoCells(u) = TodoCells(s) \union TodoCells(t)
  BY <1>1, Zenon DEF TodoCells
<1>3. WholeCells(u) = WholeCells(s) \union WholeCells(t)
  BY <1>1, Zenon DEF WholeCells
<1>4. Sound(s) /\ Sound(t) => Sound(u)
  BY <1>1, Zenon DEF Sound
<1> QED
  BY <1>1, <1>2, <1>3, <1>4 DEF u

\* One job alone.
LEMMA OneJob ==
  ASSUME NEW t \in Job
  PROVE  /\ <<t>> \in Seq(Job)
         /\ TodoCells(<<t>>) = Cells(t.rect) /\ WholeCells(<<t>>) = Cells(t.whole)
         /\ Sound(<<t>>) <=> /\ Cells(t.rect) \subseteq Cells(t.whole)
                             /\ t.as = "solid" => \E c \in Colours : Solid(t.rect, c)
<1>1. <<t>> \in Seq(Job) /\ DOMAIN <<t>> = {1} /\ <<t>>[1] = t
  OBVIOUS
<1> QED
  BY <1>1, Zenon DEF TodoCells, WholeCells, Sound

\* Nothing to do.
LEMMA NoJob ==
  /\ <<>> \in Seq(Job) /\ TodoCells(<<>>) = {} /\ WholeCells(<<>>) = {} /\ Sound(<<>>)
<1>1. <<>> \in Seq(Job) /\ DOMAIN <<>> = {}
  OBVIOUS
<1> QED
  BY <1>1, Zenon DEF TodoCells, WholeCells, Sound

\* The first job and the others.
LEMMA HeadAndTail ==
  ASSUME NEW s \in Seq(Job), s # <<>>
  PROVE  /\ Head(s) \in Job /\ Tail(s) \in Seq(Job)
         /\ TodoCells(s) = Cells(Head(s).rect) \union TodoCells(Tail(s))
         /\ WholeCells(s) = Cells(Head(s).whole) \union WholeCells(Tail(s))
         /\ Sound(s) => Sound(<<Head(s)>>) /\ Sound(Tail(s))
<1>1. Head(s) \in Job /\ Tail(s) \in Seq(Job)
  OBVIOUS
<1>2. /\ 1 \in DOMAIN s /\ s[1] = Head(s)
      /\ \A i \in DOMAIN Tail(s) : i + 1 \in DOMAIN s /\ s[i + 1] = Tail(s)[i]
      /\ \A i \in DOMAIN s : \/ s[i] = Head(s)
                             \/ i - 1 \in DOMAIN Tail(s) /\ s[i] = Tail(s)[i - 1]
  OBVIOUS
<1>3. TodoCells(s) = Cells(Head(s).rect) \union TodoCells(Tail(s))
  BY <1>2, Zenon DEF TodoCells
<1>4. WholeCells(s) = Cells(Head(s).whole) \union WholeCells(Tail(s))
  BY <1>2, Zenon DEF WholeCells
<1>5. ASSUME Sound(s) PROVE Sound(<<Head(s)>>) /\ Sound(Tail(s))
  BY <1>1, <1>2, <1>5, OneJob DEF Sound
<1> QED
  BY <1>1, <1>3, <1>4, <1>5

\* A task on a rectangle is a job.
LEMMA TaskIsJob ==
  ASSUME NEW r \in Rect, NEW as \in {"rect", "scan", "simple", "solid"}, NEW l \in Levels
  PROVE  /\ Task(as, r, l) \in Job
         /\ Task(as, r, l).rect = r /\ Task(as, r, l).whole = r /\ Task(as, r, l).as = as
         /\ Task(as, r, l).level = l
<1>1. r.y \in Nat
  BY MessageAssumption DEF Rect
<1> QED
  BY <1>1 DEF Task, Job

\* A part is a job unless it is empty, and stands for its pixels either way.
LEMMA TodoIsSound ==
  ASSUME NEW r \in Span, NonEmpty(r) => r \in Rect,
         NEW as \in {"rect", "scan", "simple", "solid"}, NEW l \in Levels,
         as = "solid" => \E c \in Colours : Solid(r, c)
  PROVE  /\ Todo(as, r, l) \in Seq(Job) /\ Sound(Todo(as, r, l))
         /\ TodoCells(Todo(as, r, l)) = Cells(r) /\ WholeCells(Todo(as, r, l)) = Cells(r)
<1>1. CASE NonEmpty(r)
  <2>1. Todo(as, r, l) = <<Task(as, r, l)>>
    BY <1>1 DEF Todo
  <2> DEFINE t == Task(as, r, l)
  <2>2. t \in Job /\ t.rect = r /\ t.whole = r /\ t.as = as
    <3>1. r \in Rect
      BY <1>1
    <3>2. r.y \in Nat
      BY <3>1, MessageAssumption DEF Rect
    <3> QED
      BY <3>1, <3>2 DEF Task, Job
  <2> HIDE DEF t
  <2>3. /\ <<t>> \in Seq(Job) /\ TodoCells(<<t>>) = Cells(r) /\ WholeCells(<<t>>) = Cells(r)
        /\ Sound(<<t>>)
    BY <2>2, OneJob
  <2> QED
    BY <2>1, <2>3 DEF t
<1>2. CASE ~NonEmpty(r)
  BY <1>2, NoJob, EmptySpan DEF Todo
<1> QED
  BY <1>1, <1>2
-----------------------------------------------------------------------------
(***************************************************************************)
(* Sequences of rectangles.                                                *)
(***************************************************************************)
\* Rectangles one after the other have the pixels of both.
LEMMA ConcatRects ==
  ASSUME NEW s \in Seq(Rect), NEW t \in Seq(Rect)
  PROVE  AllCells(s \o t) = AllCells(s) \union AllCells(t)
<1> DEFINE u == s \o t
<1>1. /\ \A i \in DOMAIN s : i \in DOMAIN u /\ u[i] = s[i]
      /\ \A i \in DOMAIN t : i + Len(s) \in DOMAIN u /\ u[i + Len(s)] = t[i]
      /\ \A i \in DOMAIN u : \/ i \in DOMAIN s /\ u[i] = s[i]
                             \/ i - Len(s) \in DOMAIN t /\ u[i] = t[i - Len(s)]
  OBVIOUS
<1> HIDE DEF u
<1>2. AllCells(u) = AllCells(s) \union AllCells(t)
  BY <1>1, Zenon DEF AllCells
<1> QED
  BY <1>2 DEF u

\* No rectangle has no pixel.
LEMMA NoRects == AllCells(<<>>) = {}
<1>1. DOMAIN <<>> = {}
  OBVIOUS
<1> QED
  BY <1>1, Zenon DEF AllCells

\* One rectangle has its own.
LEMMA OneRect ==
  ASSUME NEW r \in Rect
  PROVE  <<r>> \in Seq(Rect) /\ <<r>> # <<>> /\ AllCells(<<r>>) = Cells(r)
<1>1. <<r>> \in Seq(Rect) /\ <<r>> # <<>> /\ DOMAIN <<r>> = {1} /\ <<r>>[1] = r
  OBVIOUS
<1> QED
  BY <1>1, Zenon DEF AllCells

\* A queue that takes one more rectangle.
LEMMA AppendRect ==
  ASSUME NEW s \in Seq(Rect), NEW r \in Rect
  PROVE  /\ Append(s, r) \in Seq(Rect) /\ Len(Append(s, r)) \in Nat \ {0}
         /\ AllCells(Append(s, r)) = AllCells(s) \union Cells(r)
<1>1. Append(s, r) \in Seq(Rect) /\ Len(Append(s, r)) \in Nat \ {0}
  OBVIOUS
<1>2. Append(s, r) = s \o <<r>>
  OBVIOUS
<1>3. AllCells(s \o <<r>>) = AllCells(s) \union AllCells(<<r>>)
  BY ConcatRects, OneRect
<1> QED
  BY <1>1, <1>2, <1>3, OneRect

\* The rectangles of an update as they are handed to the encoder.
LEMMA TasksOfRects ==
  ASSUME NEW rs \in Seq(Rect), NEW l \in Levels
  PROVE  LET s == Tasks("rect", rs, l) IN
         /\ s \in Seq(Job) /\ (s = <<>> => rs = <<>>)
         /\ \A i \in DOMAIN s : s[i].as = "rect" /\ s[i].rect = s[i].whole
         /\ TodoCells(s) = AllCells(rs) /\ WholeCells(s) = AllCells(rs)
<1> DEFINE s == Tasks("rect", rs, l)
<1>1. /\ DOMAIN s = DOMAIN rs
      /\ \A i \in DOMAIN s : s[i] = Task("rect", rs[i], l)
  BY DEF Tasks
<1>2. \A i \in DOMAIN rs : rs[i] \in Rect
  OBVIOUS
<1>3. \A i \in DOMAIN s : /\ s[i] \in Job /\ s[i].as = "rect"
                          /\ s[i].rect = rs[i] /\ s[i].whole = rs[i]
  BY <1>1, <1>2, TaskIsJob
<1>4. s \in Seq(Job) /\ (s = <<>> => rs = <<>>)
  <2>1. s = [i \in 1 .. Len(rs) |-> Task("rect", rs[i], l)]
    BY DEF Tasks
  <2>2. \A i \in 1 .. Len(rs) : Task("rect", rs[i], l) \in Job
    BY <1>2, TaskIsJob
  <2> QED
    BY <2>1, <2>2
<1>5. TodoCells(s) = AllCells(rs) /\ WholeCells(s) = AllCells(rs)
  BY <1>1, <1>3, Zenon DEF TodoCells, WholeCells, AllCells
<1> QED
  BY <1>3, <1>4, <1>5

-----------------------------------------------------------------------------
(***************************************************************************)
(* The invariant.  A message that is counted with the settings it is sent  *)
(* with starts with an empty queue, and if there is anything to queue the  *)
(* last rectangle will be marked (Counted).  While it is sent, every       *)
(* changed pixel is shown, dropped, in the queue or still to be done; and  *)
(* nothing else is, not even in the rectangle a search may fall back to    *)
(* (Covered).                                                              *)
(***************************************************************************)
Types ==
    /\ viewer \in Viewers /\ cache \in BOOLEAN /\ level \in Levels
    /\ asking # "asked" => ~cache
    /\ maxwidth \in CorreMin .. CorreMax
    /\ stray \in Seq(Rect)
    /\ queue \in Seq(Rect) /\ (viewer.encoder # "Zlib" => queue = <<>>)
    /\ pc \in {"between", "counted", "rects"}
    /\ update \in Updates \union {NoUpdate}
    /\ picture \in [DOMAIN Blank -> Colours]
    /\ todo \in Seq(Job)

Queueing == viewer.encoder = "Zlib" /\ queueEnable

Counted ==
    pc = "counted" /\ ~disturbed =>
        /\ stray = <<>> /\ queue = <<>> /\ shown = {} /\ lost = {}
        /\ Queueing /\ EncodedRects(update) # <<>> => updates = Marked

Sent == shown \union lost \union AllCells(queue)

Covered ==
    pc = "rects" /\ ~disturbed =>
        /\ stray = <<>> /\ (queue # <<>> => Queueing)
        /\ Queueing /\ (queue # <<>> \/ todo # <<>>) => updates = Marked
        /\ Target \subseteq Sent \union TodoCells(todo)
        /\ Sent \union WholeCells(todo) \subseteq Target

IInv == Types /\ Sound(todo) /\ PixelsArrive /\ Counted /\ Covered

\* No message has been begun: nothing changed, nothing shown.
LEMMA InitIInv == Init => IInv
<1> SUFFICES ASSUME Init PROVE IInv
  OBVIOUS
<1>1. Types
  <2>1. Blank \in [DOMAIN Blank -> Colours]
    BY MessageAssumption DEF Blank
  <2>2. maxwidth \in CorreMin .. CorreMax
    BY MessageAssumption DEF Init
  <2>3. <<>> \in Seq(Rect) /\ <<>> \in Seq(Job)
    OBVIOUS
  <2>4. viewer \in Viewers /\ cache \in BOOLEAN /\ level \in Levels
    <3>1. viewer \in ViewerType
      BY MessageAssumption DEF Init
    <3> QED
      BY <3>1 DEF Init, ViewerType
  <2>5. /\ asking = "asked" /\ queue = <<>> /\ stray = <<>>
        /\ pc = "between" /\ update = NoUpdate /\ picture = Blank /\ todo = <<>>
    BY DEF Init
  <2> QED
    BY <2>1, <2>2, <2>3, <2>4, <2>5 DEF Types
<1>2. Sound(todo)
  BY NoJob DEF Init
<1>3. Target = {}
  <2>1. update.cached \o update.changed = <<>>
    BY DEF Init, NoUpdate
  <2> QED
    BY <2>1, NoRects DEF Target
<1>4. stray \o queue = <<>>
  BY DEF Init
<1>5. PixelsArrive /\ Counted /\ Covered
  BY <1>3, <1>4 DEF Init, PixelsArrive, Counted, Covered
<1> QED
  BY <1>1, <1>2, <1>5 DEF IInv

\* What an update consists of.
LEMMA UpdateRects ==
  ASSUME Types
  PROVE  /\ update.cached \in Seq(Rect) /\ update.changed \in Seq(Rect)
         /\ <<>> \o update.changed = update.changed
         /\ EncodedRects(update) \in Seq(Rect)
<1>1. update.cached \in Seq(Rect) /\ update.changed \in Seq(Rect)
  <2>1. CASE update \in Updates
    <3>1. update \in UpdateType
      BY <2>1, MessageAssumption
    <3> QED
      BY <3>1 DEF UpdateType
  <2>2. CASE update = NoUpdate
    BY <2>2 DEF NoUpdate
  <2> QED
    BY <2>1, <2>2 DEF Types
<1> QED
  BY <1>1 DEF EncodedRects

\* Jobs stay sound while the picture stays the same.
LEMMA SoundStays ==
  ASSUME NEW s, Sound(s), todo' = s, picture' = picture
  PROVE  Sound(todo)'
<1>1. \A r, c : Solid(r, c) => Solid(r, c)'
  BY DEF Solid, Cells
<1> QED
  BY <1>1, Zenon DEF Sound, Cells

-----------------------------------------------------------------------------
(***************************************************************************)
(* The steps beside SendUpdate, and its count.                             *)
(***************************************************************************)
\* A moved cursor takes no pixels.
LEMMA CursorMovesIInv == IInv /\ CursorMoves => IInv'
<1> SUFFICES ASSUME IInv, CursorMoves PROVE IInv'
  OBVIOUS
<1> USE DEF CursorMoves, settings, corre, queueing, output
<1>1. Types'
  BY DEF IInv, Types
<1>2. Sound(todo)'
  BY SoundStays DEF IInv
<1>3. PixelsArrive'
  BY DEF IInv, PixelsArrive, Ended, Target
<1>4. Counted'
  BY DEF IInv, Counted, Queueing, EncodedRects
<1>5. Covered'
  BY DEF IInv, Covered
<1> QED
  BY <1>1, <1>2, <1>3, <1>4, <1>5 DEF IInv

\* The cache is taken from under a count only if nothing was cached, or the
\* history says so.
LEMMA NoCacheIInv ==
  ASSUME IInv, cache' = FALSE, level' \in Levels,
         pc = "counted" /\ cache /\ update.cached # <<>> => disturbed',
         disturbed => disturbed',
         UNCHANGED <<viewer, queueing, corre, pc, update, updates, picture, todo, output>>
  PROVE  IInv'
<1> USE DEF queueing, corre, output
<1>1. Types'
  BY DEF IInv, Types
<1>2. Sound(todo)'
  BY SoundStays DEF IInv
<1>3. PixelsArrive'
  BY DEF IInv, PixelsArrive, Ended, Target
<1>4. Counted'
  <2> SUFFICES ASSUME pc = "counted", ~disturbed' PROVE Counted'
    BY DEF Counted
  <2>1. EncodedRects(update)' = EncodedRects(update)
    BY UpdateRects DEF IInv, Types, EncodedRects
  <2> QED
    BY <2>1 DEF IInv, Counted, Queueing
<1>5. Covered'
  BY DEF IInv, Covered, Queueing, Sent, Target
<1> QED
  BY <1>1, <1>2, <1>3, <1>4, <1>5 DEF IInv

\* rfbSetEncodings takes the cache, too.
LEMMA ForgetSettingsIInv == IInv /\ ForgetSettings => IInv'
<1> SUFFICES ASSUME IInv, ForgetSettings PROVE IInv'
  OBVIOUS
<1>1. level' \in Levels
  BY MessageAssumption DEF ForgetSettings
<1> QED
  BY <1>1, NoCacheIInv DEF ForgetSettings, CountedOn

\* So does another client.
LEMMA DisableCacheIInv == IInv /\ DisableCache => IInv'
  BY NoCacheIInv DEF DisableCache, IInv, Types

\* Nothing queued is nothing stray, either.
LEMMA NothingQueued ==
  ASSUME NEW s \in Seq(Rect), NEW t \in Seq(Rect)
  PROVE  s \o t \in Seq(Rect) /\ <<>> \in Seq(Rect) /\ (s \o t) \o <<>> = s \o t
         /\ <<>> \o t = t /\ (s \o t = <<>> <=> s = <<>> /\ t = <<>>)
  OBVIOUS

\* The encoder is set again while nothing is queued, or the history says so.
LEMMA SetEncodingIInv == IInv /\ SetEncoding => IInv'
<1> SUFFICES ASSUME IInv, SetEncoding PROVE IInv'
  OBVIOUS
<1> USE DEF SetEncoding, cursor, output
<1>1. stray \in Seq(Rect) /\ queue \in Seq(Rect)
  BY DEF IInv, Types
<1>2. /\ stray' = stray \o queue /\ queue' = <<>> /\ stray' \in Seq(Rect) /\ queue' \in Seq(Rect)
      /\ stray' \o queue' = stray \o queue
      /\ stray \o queue = <<>> <=> stray = <<>> /\ queue = <<>>
  BY <1>1, NothingQueued
<1>3. Types'
  <2>1. maxwidth' \in CorreMin .. CorreMax
    BY MessageAssumption
  <2> QED
    BY <1>2, <2>1 DEF IInv, Types
<1>4. Sound(todo)'
  BY SoundStays DEF IInv
<1>5. PixelsArrive'
  BY <1>2 DEF IInv, PixelsArrive, Ended, Target
<1>6. Counted'
  BY <1>2 DEF IInv, Counted, Queueing, EncodedRects
<1>7. Covered'
  BY DEF Covered
<1> QED
  BY <1>3, <1>4, <1>5, <1>6, <1>7 DEF IInv

\* The settings come back at any time; the encoder has then read them, or the
\* history says what was counted on.
LEMMA RestoreSettingsIInv == IInv /\ RestoreSettings => IInv'
<1> SUFFICES ASSUME IInv, RestoreSettings PROVE IInv'
  OBVIOUS
<1> USE DEF RestoreSettings, queueing, corre, output
<1>1. Types'
  BY MessageAssumption DEF IInv, Types, ViewerType
<1>2. Sound(todo)'
  BY SoundStays DEF IInv
<1>3. PixelsArrive'
  BY DEF IInv, PixelsArrive, Ended, Target
<1>4. Counted'
  <2> SUFFICES ASSUME pc = "counted", ~disturbed' PROVE Counted'
    BY DEF Counted
  <2>1. EncodedRects(update)' # <<>> => EncodedRects(update) # <<>>
    <3>1. CASE update.cached = <<>>
      BY <3>1, UpdateRects DEF IInv, EncodedRects
    <3>2. CASE ~cache'
      BY <3>2 DEF IInv, Types, EncodedRects
    <3> QED
      BY <3>1, <3>2
  <2> QED
    BY <2>1 DEF IInv, Counted, Queueing
<1>5. Covered'
  BY DEF IInv, Covered, Queueing, Sent, Target
<1> QED
  BY <1>1, <1>2, <1>3, <1>4, <1>5 DEF IInv

\* The larger of two numbers.
LEMMA MaxOfTwo ==
  ASSUME NEW m \in Int, NEW n \in Int
  PROVE  Max({m, n}) \in {m, n} /\ Max({m, n}) >= m /\ Max({m, n}) >= n
<1>1. \E x \in {m, n} : \A y \in {m, n} : x >= y
  <2>1. CASE m >= n
    BY <2>1
  <2>2. CASE n >= m
    BY <2>2
  <2> QED
    BY <2>1, <2>2
<1>2. /\ Max({m, n}) \in {m, n}
      /\ \A y \in {m, n} : Max({m, n}) >= y
  BY <1>1, Zenon DEF Max
<1> QED
  BY <1>2

\* CoRRE's size keeps its bounds.
LEMMA AdaptedInBounds ==
  ASSUME NEW m \in CorreMin .. CorreMax
  PROVE  Adapted(m) \subseteq CorreMin .. CorreMax
<1>1. CorreMin \in Nat /\ CorreMax \in Nat /\ CorreMin <= CorreMax
  BY MessageAssumption
<1>2. ASSUME NEW n \in {m - 1, m, m + 1}
      PROVE  Max({CorreMin, Least(CorreMax, n)}) \in CorreMin .. CorreMax
  <2> DEFINE k == Least(CorreMax, n)
  <2>1. k \in Int /\ k <= CorreMax
    BY <1>1 DEF Least
  <2> HIDE DEF k
  <2>2. Max({CorreMin, k}) \in {CorreMin, k} /\ Max({CorreMin, k}) >= CorreMin
    BY <1>1, <2>1, MaxOfTwo
  <2> QED
    BY <1>1, <2>1, <2>2 DEF k
<1> QED
  BY <1>2 DEF Adapted

\* A rectangle that marks the last is in one of the two lists.
LEMMA EitherMarks ==
  ASSUME NEW s \in Seq(Rect), NEW t \in Seq(Rect), NEW m
  PROVE  /\ MarksLast(s \o t, m) => MarksLast(s, m) \/ MarksLast(t, m)
         /\ s \o t = <<>> => t \o s = <<>>
<1> DEFINE rs == s \o t
<1>1. \A i \in DOMAIN rs : \/ i \in DOMAIN s /\ rs[i] = s[i]
                           \/ i - Len(s) \in DOMAIN t /\ rs[i] = t[i - Len(s)]
  OBVIOUS
<1>2. rs = <<>> => t \o s = <<>>
  OBVIOUS
<1> HIDE DEF rs
<1>3. MarksLast(rs, m) => MarksLast(s, m) \/ MarksLast(t, m)
  BY <1>1, Zenon DEF MarksLast
<1> QED
  BY <1>2, <1>3 DEF rs

\* If one of the rectangles that are encoded marks the last, the sum does.
LEMMA CountMarks ==
  ASSUME NEW u \in Updates, NEW shape, NEW m,
         \/ CountedRects(u) = <<>> /\ EncodedRects(u) # <<>>
         \/ MarksLast(CountedRects(u), m)
  PROVE  CountAll(u, shape, m) = Marked
<1>1. u.cached \in Seq(Rect) /\ u.changed \in Seq(Rect)
  <2>1. u \in UpdateType
    BY MessageAssumption
  <2> QED
    BY <2>1 DEF UpdateType
<1>2. CASE Simple(u) = Marked
  BY <1>2 DEF CountAll, AddRects
<1>3. CASE Simple(u) # Marked /\ cache
  BY <1>3 DEF CountAll, AddRects, CountedRects, EncodedRects
<1>4. CASE Simple(u) # Marked /\ ~cache
  <2>1. CountedRects(u) = u.changed \o u.cached
    BY <1>4 DEF CountedRects
  <2>2. EncodedRects(u) = u.cached \o u.changed
    BY <1>4 DEF EncodedRects
  <2>3. CountedRects(u) = <<>> => EncodedRects(u) = <<>>
    BY <1>1, <2>1, <2>2, EitherMarks
  <2>4. MarksLast(u.changed \o u.cached, m)
    BY <2>1, <2>3
  <2>5. MarksLast(u.changed, m) \/ MarksLast(u.cached, m)
    BY <1>1, <2>4, EitherMarks
  <2> QED
    BY <1>4, <2>5 DEF CountAll, AddRects
<1> QED
  BY <1>2, <1>3, <1>4

\* If the queue will be used, the count says that the last will be marked.
LEMMA CountIInv ==
  ASSUME IInv, NEW u \in Updates, NEW shape \in BOOLEAN, Count(u, shape)
  PROVE  IInv'
<1> USE DEF settings, output
<1>1. Types'
  <2>1. maxwidth' \in CorreMin .. CorreMax
    BY AdaptedInBounds DEF Count, IInv, Types
  <2> QED
    BY <2>1 DEF Count, IInv, Types
<1>2. Sound(todo)'
  BY SoundStays DEF IInv, Count
<1>3. PixelsArrive' /\ Covered'
  BY DEF Count, PixelsArrive, Ended, Covered
<1>4. Counted'
  <2> SUFFICES ASSUME ~disturbed' PROVE Counted'
    BY DEF Counted
  <2>1. stray' = <<>> /\ queue' = <<>> /\ shown' = {} /\ lost' = {}
    <3>1. stray \o queue = <<>> /\ stray \in Seq(Rect) /\ queue \in Seq(Rect)
      BY DEF Count, IInv, Types
    <3>2. stray = <<>> /\ queue = <<>>
      BY <3>1, NothingQueued
    <3> QED
      BY <3>2 DEF Count
  <2>2. ASSUME Queueing', EncodedRects(update)' # <<>>
        PROVE  updates' = Marked
    <3>1. EncodedRects(u) # <<>> /\ viewer.encoder = "Zlib" /\ queueEnable'
      BY <2>2 DEF Queueing, EncodedRects, Count
    <3>2. CountedRects(u) # <<>> => MarksLast(CountedRects(u), maxwidth')
      BY <3>1 DEF Count
    <3>3. CountAll(u, pending', maxwidth') = Marked
      BY <3>1, <3>2, CountMarks
    <3> QED
      BY <3>3 DEF Count
  <2> QED
    BY <2>1, <2>2 DEF Counted
<1> QED
  BY <1>1, <1>2, <1>3, <1>4 DEF IInv


-----------------------------------------------------------------------------
(***************************************************************************)
(* The header, with copies and cached rectangles.                          *)
(***************************************************************************)
\* What is handed to the encoder are the pixels that are not cached.
LEMMA HeaderTasks ==
  ASSUME Types, todo' = Tasks("rect", EncodedRects(update), level)
  PROVE  /\ todo' \in Seq(Job) /\ Sound(todo)'
         /\ TodoCells(todo') = AllCells(EncodedRects(update))
         /\ WholeCells(todo') = AllCells(EncodedRects(update))
         /\ todo' # <<>> => EncodedRects(update) # <<>>
<1> DEFINE s == Tasks("rect", EncodedRects(update), level)
<1>1. /\ s \in Seq(Job)
      /\ \A i \in DOMAIN s : s[i].as = "rect" /\ s[i].rect = s[i].whole
      /\ TodoCells(s) = AllCells(EncodedRects(update))
      /\ WholeCells(s) = AllCells(EncodedRects(update))
  BY UpdateRects, TasksOfRects DEF Types
<1>2. s # <<>> => EncodedRects(update) # <<>>
  BY DEF Tasks
<1> HIDE DEF s
<1>3. todo' = s
  BY DEF s
<1>4. Sound(todo)'
  BY <1>1, <1>3 DEF Sound
<1> QED
  BY <1>1, <1>2, <1>3, <1>4

\* What the header does not show itself is all to be done.
LEMMA SendHeaderIInv == IInv /\ SendHeader => IInv'
<1> SUFFICES ASSUME IInv, SendHeader PROVE IInv'
  OBVIOUS
<1> USE DEF SendHeader, settings, corre, queueing
<1>1. Types
  BY DEF IInv
<1>2. CASE pc' = "between" /\ disturbed' /\ UNCHANGED <<todo, shown, picture>>
  <2>1. Types'
    BY <1>1, <1>2 DEF Types
  <2>2. Sound(todo)'
    BY <1>2, SoundStays DEF IInv
  <2>3. PixelsArrive' /\ Counted' /\ Covered'
    BY <1>2 DEF PixelsArrive, Counted, Covered
  <2> QED
    BY <2>1, <2>2, <2>3 DEF IInv
<1>3. CASE /\ pc' = "rects" /\ UNCHANGED disturbed
           /\ shown' = IF cache THEN AllCells(update.cached) ELSE {}
           /\ todo' = Tasks("rect", EncodedRects(update), level)
           /\ picture' \in [DOMAIN Blank -> Colours]
  <2> DEFINE encoded == EncodedRects(update)
  <2>1. /\ todo' \in Seq(Job) /\ Sound(todo)'
        /\ TodoCells(todo') = AllCells(encoded) /\ WholeCells(todo') = AllCells(encoded)
        /\ todo' # <<>> => encoded # <<>>
    BY <1>1, <1>3, HeaderTasks
  <2>2. Types'
    BY <1>1, <1>3, <2>1 DEF Types
  <2>3. PixelsArrive' /\ Counted'
    BY <1>3 DEF PixelsArrive, Ended, Counted
  <2>4. Covered'
    <3> SUFFICES ASSUME ~disturbed' PROVE Covered'
      BY DEF Covered
    <3>1. /\ stray = <<>> /\ queue = <<>> /\ lost = {}
          /\ Queueing /\ encoded # <<>> => updates = Marked
      BY <1>3 DEF IInv, Counted
    <3>2. stray' = <<>> /\ queue' = <<>> /\ lost' = {} /\ updates' = updates /\ update' = update
          /\ (Queueing' <=> Queueing)
      BY <3>1 DEF Queueing
    <3>3. Target' = AllCells(update.cached \o update.changed)
      BY <3>2 DEF Target
    <3>4. Target' = shown' \union AllCells(encoded)
      <4>1. CASE cache
        <5>1. encoded = update.changed /\ shown' = AllCells(update.cached)
          BY <1>3, <4>1 DEF EncodedRects
        <5> QED
          BY <1>1, <3>3, <5>1, UpdateRects, ConcatRects
      <4>2. CASE ~cache
        <5>1. encoded = update.cached \o update.changed /\ shown' = {}
          BY <1>3, <4>2 DEF EncodedRects
        <5> QED
          BY <3>3, <5>1
      <4> QED
        BY <4>1, <4>2
    <3>5. Sent' = shown'
      BY <3>2, NoRects DEF Sent
    <3> HIDE DEF encoded
    <3> QED
      BY <2>1, <3>1, <3>2, <3>4, <3>5 DEF Covered
  <2> QED
    BY <2>1, <2>2, <2>3, <2>4 DEF IInv
<1>4. Screens(EncodedRects(update)) \subseteq [DOMAIN Blank -> Colours]
  BY DEF Screens
<1> QED
  BY <1>2, <1>3, <1>4

-----------------------------------------------------------------------------
(***************************************************************************)
(* The encoders: the first job is replaced by others, and what they leave  *)
(* out is shown, queued or dropped.                                        *)
(***************************************************************************)
\* Replacing the first job loses no pixel and adds none.
LEMMA Replaced ==
  ASSUME IInv, todo # <<>>, NEW s \in Seq(Job), Sound(s), NEW done,
         Cells(Head(todo).rect) \subseteq done \union TodoCells(s),
         done \union WholeCells(s) \subseteq Cells(Head(todo).whole)
  PROVE  /\ s \o Tail(todo) \in Seq(Job) /\ Sound(s \o Tail(todo))
         /\ TodoCells(todo) \subseteq done \union TodoCells(s \o Tail(todo))
         /\ done \union WholeCells(s \o Tail(todo)) \subseteq WholeCells(todo)
<1>1. todo \in Seq(Job) /\ Sound(todo)
  BY DEF IInv, Types
<1>2. /\ Tail(todo) \in Seq(Job) /\ Sound(Tail(todo))
      /\ TodoCells(todo) = Cells(Head(todo).rect) \union TodoCells(Tail(todo))
      /\ WholeCells(todo) = Cells(Head(todo).whole) \union WholeCells(Tail(todo))
  BY <1>1, HeadAndTail
<1>3. /\ s \o Tail(todo) \in Seq(Job) /\ Sound(s \o Tail(todo))
      /\ TodoCells(s \o Tail(todo)) = TodoCells(s) \union TodoCells(Tail(todo))
      /\ WholeCells(s \o Tail(todo)) = WholeCells(s) \union WholeCells(Tail(todo))
  BY <1>2, ConcatCells
<1> QED
  BY <1>2, <1>3

\* What Encode, the search, the cuts and the queue have in common.
LEMMA ReplacedIInv ==
  ASSUME IInv, pc = "rects", todo # <<>>,
         NEW s \in Seq(Job), Sound(s), NEW done,
         Cells(Head(todo).rect) \subseteq done \union TodoCells(s),
         done \union WholeCells(s) \subseteq Cells(Head(todo).whole),
         todo' = s \o Tail(todo),
         ~disturbed /\ stray = <<>> => Sent' = Sent \union done /\ stray' = <<>>,
         stray' \in Seq(Rect), queue' \in Seq(Rect), viewer.encoder # "Zlib" => queue' = <<>>,
         queue' # <<>> => queue # <<>> \/ Queueing,
         UNCHANGED <<viewer, settings, maxwidth, queueEnable, pc, update, updates,
                     picture, disturbed>>
  PROVE  IInv'
<1> USE DEF settings
<1>1. /\ todo' \in Seq(Job) /\ Sound(s \o Tail(todo))
      /\ TodoCells(todo) \subseteq done \union TodoCells(todo')
      /\ done \union WholeCells(todo') \subseteq WholeCells(todo)
  BY Replaced
<1>2. Types'
  BY <1>1 DEF IInv, Types
<1>3. Sound(todo)'
  BY <1>1, SoundStays
<1>4. PixelsArrive' /\ Counted'
  BY DEF PixelsArrive, Ended, Counted
<1>5. Target' = Target /\ (Queueing' <=> Queueing)
  BY DEF Target, Queueing
<1>6. Covered'
  BY <1>1, <1>5 DEF IInv, Covered
<1> QED
  BY <1>2, <1>3, <1>4, <1>6 DEF IInv

\* Of the first job.
LEMMA FirstJob ==
  ASSUME IInv, todo # <<>>
  PROVE  /\ Head(todo) \in Job /\ Tail(todo) \in Seq(Job)
         /\ Head(todo).rect \in Rect /\ Head(todo).whole \in Rect
         /\ Cells(Head(todo).rect) \subseteq Cells(Head(todo).whole)
<1>1. todo \in Seq(Job) /\ Sound(todo)
  BY DEF IInv, Types
<1>2. Head(todo) \in Job /\ Tail(todo) \in Seq(Job) /\ Sound(<<Head(todo)>>)
  BY <1>1, HeadAndTail
<1> QED
  BY <1>2, OneJob DEF Job

\* The picture, the queue and the counts stay as they are.
Untouched == UNCHANGED <<viewer, settings, maxwidth, queueEnable, queue, stray, pc, update, updates,
                         picture, disturbed>>

\* A job that is only divided.
LEMMA UnsentIInv ==
  ASSUME IInv, pc = "rects", todo # <<>>, Untouched, UNCHANGED <<shown, lost>>,
         NEW s \in Seq(Job), Sound(s),
         Cells(Head(todo).rect) \subseteq TodoCells(s),
         WholeCells(s) \subseteq Cells(Head(todo).whole),
         todo' = s \o Tail(todo)
  PROVE  IInv'
<1>1. Sent' = Sent
  BY DEF Sent, Untouched
<1>2. stray' \in Seq(Rect) /\ queue' \in Seq(Rect) /\ (viewer.encoder # "Zlib" => queue' = <<>>)
  BY DEF IInv, Types, Untouched
<1> DEFINE done == {}
<1>3. Sent' = Sent \union done
  BY <1>1
<1>4. /\ Cells(Head(todo).rect) \subseteq done \union TodoCells(s)
      /\ done \union WholeCells(s) \subseteq Cells(Head(todo).whole)
  OBVIOUS
<1> HIDE DEF done
<1> QED
  BY <1>2, <1>3, <1>4, ReplacedIInv DEF Untouched

\* A whole rectangle is searched or cut.
LEMMA EncodeIInv == IInv /\ Encode => IInv'
<1> SUFFICES ASSUME IInv, Encode PROVE IInv'
  OBVIOUS
<1> DEFINE r == Head(todo).rect
           t == Task(IF Splits(r) THEN "scan" ELSE "simple", r, level)
<1>1. pc = "rects" /\ todo # <<>> /\ todo' = <<t>> \o Tail(todo)
  BY DEF Encode, Top
<1>2. r \in Rect /\ Cells(r) \subseteq Cells(Head(todo).whole)
  BY <1>1, FirstJob
<1>3. t \in Job /\ t.rect = r /\ t.whole = r /\ t.as # "solid"
  BY <1>2, TaskIsJob DEF IInv, Types
<1>4. Untouched /\ UNCHANGED <<shown, lost>>
  BY DEF Encode, Untouched, queueing, output
<1> HIDE DEF t
<1>5. /\ <<t>> \in Seq(Job) /\ Sound(<<t>>)
      /\ TodoCells(<<t>>) = Cells(r) /\ WholeCells(<<t>>) = Cells(r)
  BY <1>3, OneJob
<1> QED
  BY <1>1, <1>2, <1>4, <1>5, UnsentIInv

\* A search that finds nothing falls back to the rectangle as it was given.
LEMMA ScanEndsIInv == IInv /\ ScanEnds => IInv'
<1> SUFFICES ASSUME IInv, ScanEnds PROVE IInv'
  OBVIOUS
<1> DEFINE r == Head(todo).whole
           t == Task("simple", r, level)
<1>1. pc = "rects" /\ todo # <<>> /\ todo' = <<t>> \o Tail(todo)
  BY DEF ScanEnds, Top
<1>2. r \in Rect /\ Cells(Head(todo).rect) \subseteq Cells(r)
  BY <1>1, FirstJob
<1>3. t \in Job /\ t.rect = r /\ t.whole = r /\ t.as # "solid"
  BY <1>2, TaskIsJob DEF IInv, Types
<1>4. Untouched /\ UNCHANGED <<shown, lost>>
  BY DEF ScanEnds, Untouched, queueing, output, corre
<1> HIDE DEF t
<1>5. /\ <<t>> \in Seq(Job) /\ Sound(<<t>>)
      /\ TodoCells(<<t>>) = Cells(r) /\ WholeCells(<<t>>) = Cells(r)
  BY <1>3, OneJob
<1> QED
  BY <1>1, <1>2, <1>4, <1>5, UnsentIInv

\* A strip is sent in the middle of a search.
LEMMA UpperAndLower ==
  ASSUME level \in Levels, NEW t \in Job, t.row < t.rect.y + t.rect.h
  PROVE  /\ Lower(t) \in Rect
         /\ Upper(t) \in Seq(Job) /\ Sound(Upper(t))
         /\ Cells(t.rect) = TodoCells(Upper(t)) \union Cells(Lower(t))
         /\ WholeCells(Upper(t)) = TodoCells(Upper(t))
         /\ Lower(t).x + Lower(t).w <= Width /\ t.row < Height
<1> DEFINE r == t.rect
           n == TightLines(r.w, t.level)
<1>1. /\ r \in Rect /\ r.w \in Nat \ {0} /\ r.y \in Nat /\ r.h \in Nat
      /\ r.x + r.w <= Width /\ r.y + r.h <= Height /\ t.row \in Nat
      /\ t.level \in Levels
  BY MessageAssumption DEF Job, Rect
<1>2. n \in Nat \ {0}
  BY <1>1, TightLinesPositive
<1>3. t.row < Height
  BY <1>1, MessageAssumption
<1>4. CASE TooLarge(t)
  <2>1. n \in 1 .. r.h - 1
    BY <1>1, <1>2, <1>4 DEF TooLarge, MaxRows
  <2> DEFINE upper == Box(r.x, r.y, r.w, n)
             lower == Box(r.x, r.y + n, r.w, r.h - n)
  <2>2. /\ upper \in Rect /\ lower \in Rect
        /\ Cells(r) = Cells(upper) \union Cells(lower)
    BY <1>1, <2>1, StripCovers
  <2>3. Lower(t) = lower /\ Upper(t) = Todo("simple", upper, level)
    BY <1>4 DEF Lower, Upper, MaxRows
  <2>4. lower.x + lower.w <= Width
    BY <1>1 DEF Box
  <2> HIDE DEF upper, lower
  <2>5. /\ Todo("simple", upper, level) \in Seq(Job) /\ Sound(Todo("simple", upper, level))
        /\ TodoCells(Todo("simple", upper, level)) = Cells(upper)
        /\ WholeCells(Todo("simple", upper, level)) = Cells(upper)
    BY <2>2, RectIsSpan, TodoIsSound
  <2> QED
    BY <1>3, <2>2, <2>3, <2>4, <2>5
<1>5. CASE ~TooLarge(t)
  <2>1. Lower(t) = r /\ Upper(t) = <<>>
    BY <1>5 DEF Lower, Upper, MaxRows
  <2> QED
    BY <1>1, <1>3, <2>1, NoJob
<1> QED
  BY <1>4, <1>5

\* The five jobs a solid area is divided into.
LEMMA AroundIsSound ==
  ASSUME NEW r \in Rect, NEW a \in Rect, NEW l \in Levels, Inside(a, r),
         NEW c \in Colours, Solid(a, c)
  PROVE  /\ Around(r, a, l) \in Seq(Job) /\ Sound(Around(r, a, l))
         /\ TodoCells(Around(r, a, l)) = Cells(r) /\ WholeCells(Around(r, a, l)) = Cells(r)
<1> DEFINE top   == Box(r.x, r.y, r.w, a.y - r.y)
           left  == Box(r.x, a.y, a.x - r.x, a.h)
           right == Box(a.x + a.w, a.y, r.x + r.w - a.x - a.w, a.h)
           below == Box(r.x, a.y + a.h, r.w, r.y + r.h - a.y - a.h)
<1>1. /\ \A s \in {top, left, right, below} : s \in Span /\ (NonEmpty(s) => s \in Rect)
      /\ Cells(r) = Cells(top) \union Cells(left) \union Cells(a)
                        \union Cells(right) \union Cells(below)
  BY AroundCovers
<1>2. Around(r, a, l) = Todo("rect", top, l) \o Todo("rect", left, l) \o Todo("solid", a, l)
                         \o Todo("rect", right, l) \o Todo("rect", below, l)
  BY DEF Around
<1> HIDE DEF top, left, right, below
<1> DEFINE Fine(s, cells) == /\ s \in Seq(Job) /\ Sound(s)
                             /\ TodoCells(s) = cells /\ WholeCells(s) = cells
<1>3. ASSUME NEW s \in {top, left, right, below}
      PROVE  Fine(Todo("rect", s, l), Cells(s))
  BY <1>1, TodoIsSound
<1>4. Fine(Todo("solid", a, l), Cells(a))
  BY RectIsSpan, TodoIsSound
<1>5. ASSUME NEW s, NEW t, NEW d, NEW e, Fine(s, d), Fine(t, e)
      PROVE  Fine(s \o t, d \union e)
  BY <1>5, ConcatCells
<1> HIDE DEF Fine
<1> DEFINE first == Todo("rect", top, l) \o Todo("rect", left, l)
           second == first \o Todo("solid", a, l)
           third == second \o Todo("rect", right, l)
           all == third \o Todo("rect", below, l)
<1>6. Fine(first, Cells(top) \union Cells(left))
  BY <1>3, <1>5
<1> HIDE DEF first
<1>7. Fine(second, Cells(top) \union Cells(left) \union Cells(a))
  BY <1>4, <1>5, <1>6
<1> HIDE DEF second
<1>8. Fine(third, Cells(top) \union Cells(left) \union Cells(a) \union Cells(right))
  BY <1>3, <1>5, <1>7
<1> HIDE DEF third
<1>9. Fine(all, Cells(r))
  BY <1>1, <1>3, <1>5, <1>8
<1>10. Around(r, a, l) = all
  BY <1>2 DEF first, second, third
<1> QED
  BY <1>9, <1>10 DEF Fine

\* A row of the search divides the rectangle or goes on below.
LEMMA ScanRowIInv == IInv /\ ScanRow => IInv'
<1> SUFFICES ASSUME IInv, ScanRow PROVE IInv'
  OBVIOUS
<1> DEFINE t == Head(todo)
           r == Lower(t)
<1>1. pc = "rects" /\ todo # <<>> /\ t.row < t.rect.y + t.rect.h
  BY DEF ScanRow, Top
<1>2. Untouched /\ UNCHANGED <<shown, lost>>
  BY DEF ScanRow, Untouched, queueing, output, corre
<1>3. t \in Job /\ Cells(t.rect) \subseteq Cells(t.whole)
  BY <1>1, FirstJob
<1>4. /\ r \in Rect
      /\ Upper(t) \in Seq(Job) /\ Sound(Upper(t))
      /\ Cells(t.rect) = TodoCells(Upper(t)) \union Cells(r)
      /\ WholeCells(Upper(t)) = TodoCells(Upper(t))
      /\ r.x + r.w <= Width /\ t.row < Height
  BY <1>1, <1>3, UpperAndLower DEF IInv, Types
<1>5. ASSUME NEW s \in Seq(Job), Sound(s), Cells(r) = TodoCells(s),
             WholeCells(s) \subseteq Cells(t.whole),
             todo' = Upper(t) \o s \o Tail(todo)
      PROVE  IInv'
  <2>1. /\ Upper(t) \o s \in Seq(Job) /\ Sound(Upper(t) \o s)
        /\ TodoCells(Upper(t) \o s) = TodoCells(Upper(t)) \union TodoCells(s)
        /\ WholeCells(Upper(t) \o s) = WholeCells(Upper(t)) \union WholeCells(s)
    BY <1>4, <1>5, ConcatCells
  <2> QED
    BY <1>1, <1>2, <1>3, <1>4, <1>5, <2>1, UnsentIInv
<1>6. CASE todo' = Upper(t) \o <<[t EXCEPT !.rect = Lower(t), !.row = t.row + Tile]>>
                            \o Tail(todo) /\ t.as = "scan"
  <2> DEFINE u == [t EXCEPT !.rect = Lower(t), !.row = t.row + Tile]
  <2>1. u \in Job /\ u.rect = r /\ u.whole = t.whole /\ u.as = "scan"
    <3>1. t.row + Tile \in Nat
      BY <1>3, MessageAssumption DEF Job
    <3> QED
      BY <1>3, <1>4, <1>6, <3>1 DEF Job
  <2> HIDE DEF u
  <2>2. /\ <<u>> \in Seq(Job) /\ Sound(<<u>>)
        /\ TodoCells(<<u>>) = Cells(r) /\ WholeCells(<<u>>) = Cells(t.whole)
    BY <1>3, <1>4, <2>1, OneJob
  <2>3. todo' = Upper(t) \o <<u>> \o Tail(todo)
    BY <1>6 DEF u
  <2> QED
    BY <1>5, <2>2, <2>3
<1>7. ASSUME NEW x \in SolidStarts(r, t.row),
             NEW a \in BestSolidArea(r, x, t.row, picture[<<x, t.row>>]),
             NEW e \in ExtendSolidArea(r, a, picture[<<x, t.row>>]),
             todo' = Upper(t) \o Around(r, e, level) \o Tail(todo)
      PROVE  IInv'
  <2>1. picture[<<x, t.row>>] \in Colours
    <3>1. x \in 0 .. Width - 1
      <4>1. x \in r.x .. r.x + r.w - 1
        BY DEF SolidStarts
      <4>2. r \in Rect
        BY <1>4
      <4> HIDE DEF r
      <4>3. r.x \in Nat /\ r.w \in Nat
        BY <4>2, MessageAssumption DEF Rect
      <4>4. r.x + r.w <= Width /\ Width \in Nat
        BY <1>4, MessageAssumption
      <4> QED
        BY <4>1, <4>3, <4>4
    <3>2. t.row \in 0 .. Height - 1
      BY <1>3, <1>4, MessageAssumption DEF Job
    <3>3. <<x, t.row>> \in DOMAIN Blank
      BY <3>1, <3>2 DEF Blank
    <3> QED
      BY <3>3 DEF IInv, Types
  <2>2. e \in Rect /\ Inside(e, r) /\ Solid(e, picture[<<x, t.row>>])
    BY DEF ExtendSolidArea
  <2>3. /\ Around(r, e, level) \in Seq(Job) /\ Sound(Around(r, e, level))
        /\ TodoCells(Around(r, e, level)) = Cells(r) /\ WholeCells(Around(r, e, level)) = Cells(r)
    BY <1>4, <2>1, <2>2, AroundIsSound DEF IInv, Types
  <2> QED
    BY <1>3, <1>4, <1>5, <1>7, <2>3
<1> QED
  BY <1>6, <1>7 DEF ScanRow, Top

\* A solid rectangle, or a piece, is sent at once.
LEMMA SendSolidIInv == IInv /\ SendSolid => IInv'
<1> SUFFICES ASSUME IInv, SendSolid PROVE IInv'
  OBVIOUS
<1> DEFINE done == Cells(Head(todo).rect)
<1>1. pc = "rects" /\ todo # <<>> /\ todo' = Tail(todo) /\ shown' = shown \union done
  BY DEF SendSolid, Top, Shows
<1>2. Untouched /\ lost' = lost
  BY DEF SendSolid, Untouched, queueing, corre
<1>3. Tail(todo) \in Seq(Job) /\ done \subseteq Cells(Head(todo).whole)
  BY <1>1, FirstJob
<1>4. todo' = <<>> \o Tail(todo)
  BY <1>1, <1>3
<1>5. Sent' = Sent \union done /\ stray' = stray
  BY <1>1, <1>2 DEF Sent, Untouched
<1>6. stray' \in Seq(Rect) /\ queue' \in Seq(Rect) /\ (viewer.encoder # "Zlib" => queue' = <<>>)
  BY <1>2 DEF IInv, Types, Untouched
<1> HIDE DEF done
<1>7. Cells(Head(todo).rect) \subseteq done \union TodoCells(<<>>)
  BY DEF done
<1> QED
  BY <1>1, <1>2, <1>3, <1>4, <1>5, <1>6, <1>7, NoJob, ReplacedIInv DEF Untouched

\* A cut, and what is left of it to do.
LEMMA CutIsSound ==
  ASSUME IInv, todo # <<>>
  PROVE  LET c == Cut(Head(todo).rect, Head(todo).level)
             l == Head(todo).level
             s == Todo("simple", c.right, l) \o Todo("simple", c.below, l)
         IN  /\ Rest(Head(todo)) = s \o Tail(todo)
             /\ c.piece \in Rect
             /\ s \in Seq(Job) /\ Sound(s)
             /\ Cells(Head(todo).rect) \subseteq Cells(c.piece) \union TodoCells(s)
             /\ Cells(c.piece) \union WholeCells(s) \subseteq Cells(Head(todo).whole)
<1> DEFINE r == Head(todo).rect
           l == Head(todo).level
           c == Cut(r, l)
           s == Todo("simple", c.right, l) \o Todo("simple", c.below, l)
<1>1. r \in Rect /\ l \in Levels /\ Cells(r) \subseteq Cells(Head(todo).whole)
  BY FirstJob DEF Job
<1>2. PieceWidth(r, l) \in Nat \ {0} /\ PieceHeight(r, l) \in Nat \ {0}
  BY <1>1, PiecesPositive DEF IInv, Types
<1>3. /\ c.piece \in Rect /\ c.right \in Span /\ c.below \in Span
      /\ NonEmpty(c.right) => c.right \in Rect
      /\ NonEmpty(c.below) => c.below \in Rect
      /\ Cells(r) = Cells(c.piece) \union Cells(c.right) \union Cells(c.below)
  BY <1>1, <1>2, CutCovers
<1>4. Rest(Head(todo)) = s \o Tail(todo)
  BY DEF Rest, After
<1> HIDE DEF c
<1>5. ASSUME NEW p \in {c.right, c.below}
      PROVE  /\ Todo("simple", p, l) \in Seq(Job) /\ Sound(Todo("simple", p, l))
             /\ TodoCells(Todo("simple", p, l)) = Cells(p)
             /\ WholeCells(Todo("simple", p, l)) = Cells(p)
  BY <1>1, <1>3, TodoIsSound
<1>6. /\ s \in Seq(Job) /\ Sound(s)
      /\ TodoCells(s) = Cells(c.right) \union Cells(c.below)
      /\ WholeCells(s) = Cells(c.right) \union Cells(c.below)
  BY <1>5, ConcatCells
<1> HIDE DEF s
<1>7. /\ Cells(r) \subseteq Cells(c.piece) \union TodoCells(s)
      /\ Cells(c.piece) \union WholeCells(s) \subseteq Cells(Head(todo).whole)
  BY <1>1, <1>3, <1>6
<1> QED
  BY <1>3, <1>4, <1>6, <1>7 DEF s, c

\* A piece that is sent leaves the rest of its rectangle to do.
LEMMA SendPieceIInv == IInv /\ SendPiece => IInv'
<1> SUFFICES ASSUME IInv, SendPiece PROVE IInv'
  OBVIOUS
<1> DEFINE c == Cut(Head(todo).rect, Head(todo).level)
           l == Head(todo).level
           s == Todo("simple", c.right, l) \o Todo("simple", c.below, l)
           done == Cells(c.piece)
<1>1. pc = "rects" /\ todo # <<>> /\ todo' = Rest(Head(todo)) /\ shown' = shown \union done
  BY DEF SendPiece, Top, Shows, Piece, Rest, After
<1>2. Untouched /\ lost' = lost
  BY DEF SendPiece, Untouched, queueing, corre
<1>3. /\ Rest(Head(todo)) = s \o Tail(todo)
      /\ s \in Seq(Job) /\ Sound(s)
      /\ Cells(Head(todo).rect) \subseteq done \union TodoCells(s)
      /\ done \union WholeCells(s) \subseteq Cells(Head(todo).whole)
  BY <1>1, CutIsSound
<1> HIDE DEF s, done
<1>4. Sent' = Sent \union done /\ stray' = stray
  BY <1>1, <1>2 DEF Sent, Untouched
<1>5. stray' \in Seq(Rect) /\ queue' \in Seq(Rect) /\ (viewer.encoder # "Zlib" => queue' = <<>>)
  BY <1>2 DEF IInv, Types, Untouched
<1> QED
  BY <1>1, <1>2, <1>3, <1>4, <1>5, ReplacedIInv DEF Untouched

\* Whether a queue goes out or cannot be compressed, it is accounted for.
LEMMA FlushCovers ==
  ASSUME NEW rs \in Seq(Rect), NEW zip, Flush(rs, zip), stray = <<>>
  PROVE  shown' \union lost' = shown \union lost \union AllCells(rs)
<1>1. stray \o rs = rs /\ SubSeq(rs, 1, Len(rs)) = rs
  OBVIOUS
<1> QED
  BY <1>1 DEF Flush, Shows

\* Nothing stray is left by it.
LEMMA FlushStray ==
  ASSUME NEW rs, NEW zip, Flush(rs, zip)
  PROVE  stray' = <<>> /\ stray' \in Seq(Rect)
  BY DEF Flush

\* A piece that is queued is in the queue, shown or dropped.
LEMMA QueuePieceIInv ==
  ASSUME IInv, NEW zip \in BOOLEAN, QueuePiece(zip)
  PROVE  IInv'
<1> DEFINE l == Head(todo).level
           c == Cut(Head(todo).rect, l)
           s == Todo("simple", c.right, l) \o Todo("simple", c.below, l)
           piece == c.piece
           done == Cells(piece)
           rs == Append(queue, piece)
<1>1. /\ pc = "rects" /\ todo # <<>> /\ todo' = Rest(Head(todo)) /\ Queues
      /\ \/ /\ queue' = <<>> /\ Flush(rs, mustBeZipped \/ zip)
         \/ /\ Len(rs) <= QueueMax /\ queue' = rs /\ Unsent
         \/ /\ queue # <<>> /\ queue' = <<piece>> /\ Flush(queue, mustBeZipped)
  BY DEF QueuePiece, Top, Keep, Piece
<1>2. UNCHANGED <<viewer, settings, maxwidth, queueEnable, pc, update, updates, picture,
                  disturbed>>
  BY DEF QueuePiece, corre
<1>3. /\ Rest(Head(todo)) = s \o Tail(todo)
      /\ piece \in Rect
      /\ s \in Seq(Job) /\ Sound(s)
      /\ Cells(Head(todo).rect) \subseteq done \union TodoCells(s)
      /\ done \union WholeCells(s) \subseteq Cells(Head(todo).whole)
  BY <1>1, CutIsSound
<1> HIDE DEF s, piece
<1>4. stray \in Seq(Rect) /\ queue \in Seq(Rect) /\ (viewer.encoder # "Zlib" => queue = <<>>)
  BY DEF IInv, Types
<1>5. rs \in Seq(Rect) /\ Len(rs) \in Nat \ {0} /\ AllCells(rs) = AllCells(queue) \union done
  BY <1>3, <1>4, AppendRect
<1>6. <<piece>> \in Seq(Rect) /\ AllCells(<<piece>>) = done
  BY <1>3, OneRect
<1> HIDE DEF rs, done
<1>7. /\ stray = <<>> => Sent' = Sent \union done /\ stray' = <<>>
      /\ stray' \in Seq(Rect) /\ queue' \in Seq(Rect) /\ (viewer.encoder # "Zlib" => queue' = <<>>)
      /\ queue' # <<>> => queue # <<>> \/ Queueing
  <2>1. CASE queue' = <<>> /\ Flush(rs, mustBeZipped \/ zip)
    <3>1. /\ stray = <<>> => shown' \union lost' = shown \union lost \union AllCells(rs)
          /\ stray' = <<>> /\ stray' \in Seq(Rect)
      BY <1>5, <2>1, FlushCovers, FlushStray
    <3>2. <<>> \in Seq(Rect)
      OBVIOUS
    <3> QED
      BY <1>5, <2>1, <3>1, <3>2, NoRects DEF Sent
  <2>2. CASE Len(rs) <= QueueMax /\ queue' = rs /\ Unsent
    <3>1. viewer.encoder # "Ultra"
      BY <1>5, <2>2 DEF QueueMax
    <3>2. Queueing
      BY <1>1, <3>1 DEF Queues, Queueing
    <3> QED
      BY <1>4, <1>5, <2>2, <3>2 DEF Sent, Unsent, Queueing
  <2>3. CASE queue # <<>> /\ queue' = <<piece>> /\ Flush(queue, mustBeZipped)
    <3>1. /\ stray = <<>> => shown' \union lost' = shown \union lost \union AllCells(queue)
          /\ stray' = <<>> /\ stray' \in Seq(Rect)
      BY <1>4, <2>3, FlushCovers, FlushStray
    <3> QED
      BY <1>4, <1>6, <2>3, <3>1 DEF Sent
  <2> QED
    BY <1>1, <2>1, <2>2, <2>3
<1> QED
  BY <1>1, <1>2, <1>3, <1>7, ReplacedIInv

-----------------------------------------------------------------------------
(***************************************************************************)
(* The end of a message.                                                   *)
(***************************************************************************)
\* LastRect empties the queue: whatever is in it has made the count mark the last.
LEMMA EndMessageIInv == IInv /\ EndMessage => IInv'
<1> SUFFICES ASSUME IInv, EndMessage PROVE IInv'
  OBVIOUS
<1>1. /\ pc = "rects" /\ todo = <<>> /\ todo' = <<>> /\ pc' = "between" /\ picture' = Blank
      /\ UNCHANGED <<viewer, asking, cache, level, maxwidth, queueEnable, update, updates,
                     disturbed>>
  BY DEF EndMessage, settings, corre
<1>2. \/ queue' = queue /\ stray' = stray /\ shown' = shown /\ lost' = lost 
         /\ (queue = <<>> \/ updates # Marked)
      \/ queue' = <<>> /\ Flush(queue, mustBeZipped)
  BY DEF EndMessage, LastRect, Keep, Unsent
<1>3. Types'
  <2>1. Blank \in [DOMAIN Blank -> Colours]
    BY MessageAssumption DEF Blank
  <2>2. <<>> \in Seq(Rect)
    OBVIOUS
  <2>3. /\ queue' \in Seq(Rect) /\ stray' \in Seq(Rect)
        /\ viewer.encoder # "Zlib" => queue' = <<>>
    BY <1>2, <2>2, FlushStray DEF IInv, Types
  <2> QED
    BY <1>1, <2>1, <2>3 DEF IInv, Types
<1>4. Sound(todo)'
  <2>1. DOMAIN todo' = {}
    BY <1>1
  <2> QED
    BY <2>1 DEF Sound
<1>5. PixelsArrive'
  <2> SUFFICES ASSUME ~disturbed PROVE shown' \union lost' = Target' /\ stray' \o queue' = <<>>
    BY <1>1 DEF PixelsArrive
  <2>1. Sent = Target /\ stray = <<>> /\ (queue # <<>> => updates = Marked)
    BY <1>1, NoJob DEF IInv, Covered
  <2>2. Target' = Target
    BY <1>1 DEF Target
  <2>3. shown' \union lost' = Target' /\ stray' = <<>> /\ queue' = <<>>
    <3>1. CASE queue' = queue /\ stray' = stray /\ shown' = shown /\ lost' = lost /\ queue = <<>>
      BY <2>1, <2>2, <3>1, NoRects DEF Sent
    <3>2. CASE queue' = <<>> /\ Flush(queue, mustBeZipped)
      <4>1. queue \in Seq(Rect)
        BY DEF IInv, Types
      <4> QED
        BY <2>1, <2>2, <3>2, <4>1, FlushCovers, FlushStray DEF Sent
    <3> QED
      BY <1>2, <2>1, <3>1, <3>2
  <2>4. stray' \o queue' = <<>>
    BY <2>3
  <2> QED
    BY <2>3, <2>4
<1>6. Counted' /\ Covered'
  BY <1>1 DEF Counted, Covered
<1> QED
  BY <1>3, <1>4, <1>5, <1>6 DEF IInv

\* Every step.
LEMMA NextIInv == IInv /\ [Next]_vars => IInv'
<1> SUFFICES ASSUME IInv, [Next]_vars PROVE IInv'
  OBVIOUS
<1>1. CASE CursorMoves
  BY <1>1, CursorMovesIInv
<1>2. CASE ForgetSettings
  BY <1>2, ForgetSettingsIInv
<1>3. CASE RestoreSettings
  BY <1>3, RestoreSettingsIInv
<1>4. CASE DisableCache
  BY <1>4, DisableCacheIInv
<1>5. CASE \E u \in Updates, shape \in BOOLEAN : Count(u, shape)
  BY <1>5, CountIInv
<1>6. CASE SendHeader
  BY <1>6, SendHeaderIInv
<1>7. CASE Encoding
  BY <1>7, EncodeIInv, ScanRowIInv, ScanEndsIInv, SendSolidIInv, SendPieceIInv,
     QueuePieceIInv DEF Encoding
<1>8. CASE EndMessage
  BY <1>8, EndMessageIInv
<1>9. CASE SetEncoding
  BY <1>9, SetEncodingIInv
<1>10. CASE UNCHANGED vars
  <2> USE <1>10 DEF vars, settings, cursor, corre, queueing, output
  <2>1. Types'
    BY DEF IInv, Types
  <2>2. Sound(todo)'
    BY SoundStays DEF IInv
  <2>3. PixelsArrive' /\ Counted'
    BY DEF IInv, PixelsArrive, Ended, Target, Counted, Queueing, EncodedRects
  <2>4. Covered'
    BY DEF IInv, Covered, Sent, Target, Queueing
  <2> QED
    BY <2>1, <2>2, <2>3, <2>4 DEF IInv
<1> QED
  BY <1>1, <1>2, <1>3, <1>4, <1>5, <1>6, <1>7, <1>8, <1>9, <1>10 DEF Next

\* So the invariant holds throughout.
LEMMA Invariance == Spec => []IInv
  BY InitIInv, NextIInv, PTL DEF Spec

\* Whatever the encoder, its limits, the picture and the updates, a message has
\* covered exactly the changed pixels when SendUpdate returns, and no rectangle
\* is left in a queue, unless what was counted on has changed in between.
THEOREM MessagesCover == Spec => []PixelsArrive
<1>1. IInv => PixelsArrive
  BY DEF IInv
<1> QED
  BY <1>1, Invariance, PTL

\* Tight sends as one colour only what is of one colour, for any size of tiles
\* and any limits, however far its search has extended the area.
THEOREM SolidAreasAreSolid == Spec => []SolidIsSolid
<1>1. IInv => SolidIsSolid
  BY DEF IInv, Sound, SolidIsSolid
<1> QED
  BY <1>1, Invariance, PTL

-----------------------------------------------------------------------------
(***************************************************************************)
(* Arithmetic of the divisions.                                            *)
(***************************************************************************)
\* The quotient is the only number of whole pieces.
LEMMA Quotient ==
  ASSUME NEW a \in Nat, NEW n \in Nat \ {0}, NEW q \in Int,
         n * q <= a, a < n * q + n
  PROVE  a \div n = q
<1> DEFINE d == a \div n
<1>1. d \in Int /\ n * d <= a /\ a < n * d + n
  OBVIOUS
<1> HIDE DEF d
<1>2. ASSUME NEW x \in Int, NEW y \in Int, x < y PROVE n * x + n <= n * y
  <2>1. n * (y - x) >= n
    BY <1>2
  <2>2. n * (y - x) = n * y - n * x
    OBVIOUS
  <2> QED
    BY <2>1, <2>2
<1>3. ~(d < q)
  BY <1>1, <1>2
<1>4. ~(q < d)
  BY <1>1, <1>2
<1> QED
  BY <1>1, <1>3, <1>4 DEF d

\* What fits is one piece ...
LEMMA CeilOfOne ==
  ASSUME NEW n \in Nat \ {0}, NEW m \in 1 .. n
  PROVE  Ceil(m, n) = 1
<1>1. m - 1 \in Nat /\ n * 0 <= m - 1 /\ m - 1 < n * 0 + n
  OBVIOUS
<1>2. (m - 1) \div n = 0
  BY <1>1, Quotient
<1> QED
  BY <1>2 DEF Ceil

\* ... and what is larger is one more than the rest.
LEMMA CeilOfMore ==
  ASSUME NEW n \in Nat \ {0}, NEW m \in Nat, m > n
  PROVE  Ceil(m, n) = Ceil(m - n, n) + 1
<1> DEFINE d == (m - n - 1) \div n
<1>1. m - n - 1 \in Nat
  OBVIOUS
<1>2. d \in Int /\ n * d <= m - n - 1 /\ m - n - 1 < n * d + n
  BY <1>1
<1> HIDE DEF d
<1>3. n * (d + 1) = n * d + n
  BY <1>2
<1>4. (m - 1) \div n = d + 1
  BY <1>2, <1>3, Quotient
<1> QED
  BY <1>4 DEF Ceil, d

\* There is always one.
LEMMA CeilPositive ==
  ASSUME NEW n \in Nat \ {0}, NEW m \in Nat \ {0}
  PROVE  Ceil(m, n) \in Nat \ {0}
<1>1. /\ (m - 1) \div n \in Int /\ n * ((m - 1) \div n) <= m - 1
      /\ m - 1 < n * ((m - 1) \div n) + n
  OBVIOUS
<1> DEFINE d == (m - 1) \div n
<1> HIDE DEF d
<1>2. d \in Int /\ 0 < n * d + n
  BY <1>1 DEF d
<1>3. n * (d + 1) = n * d + n
  BY <1>2
<1>4. d + 1 > 0
  BY <1>2, <1>3
<1> QED
  BY <1>2, <1>4 DEF Ceil, d

\* Narrower pieces may be higher.
LEMMA FewerHigher ==
  ASSUME NEW s \in Nat, NEW m \in Nat \ {0}, NEW n \in 1 .. m
  PROVE  s \div m <= s \div n
<1> DEFINE d == s \div m
           e == s \div n
<1>1. /\ d \in Int /\ m * d <= s /\ s < m * d + m
      /\ e \in Int /\ n * e <= s /\ s < n * e + n
  OBVIOUS
<1> HIDE DEF d, e
<1>2. SUFFICES ASSUME e + 1 <= d PROVE FALSE
  BY <1>1 DEF d, e
<1>3. n * (e + 1) = n * e + n
  BY <1>1
<1>4. n * (e + 1) <= n * d
  BY <1>1, <1>2
<1>5. d \in Nat
  <2>1. m * (d + 1) = m * d + m
    BY <1>1
  <2> QED
    BY <1>1, <2>1
<1>6. n * d <= m * d
  BY <1>5
<1> QED
  BY <1>1, <1>3, <1>4, <1>6

-----------------------------------------------------------------------------
(***************************************************************************)
(* Into how many pieces a rectangle is cut, with m as the size of CoRRE.   *)
(***************************************************************************)
Wide(r, m) ==
    CASE viewer.encoder = "CoRRE" -> m
      [] viewer.encoder = "Tight" -> MaxRectWidth[level]
      [] OTHER -> r.w
High(r, m) ==
    CASE viewer.encoder = "CoRRE" -> m
      [] viewer.encoder = "Tight" -> TightLines(r.w, level)
      [] viewer.encoder \in {"Zlib", "Ultra"} -> StripLines(r.w)
      [] OTHER -> r.h

Pieces(r, m) == Ceil(r.w, Wide(r, m)) * Ceil(r.h, High(r, m))

\* The width and height of a rectangle are positive.
LEMMA RectSizes ==
  ASSUME NEW r \in Rect
  PROVE  /\ r.x \in Nat /\ r.y \in Nat /\ r.w \in Nat \ {0} /\ r.h \in Nat \ {0}
  BY MessageAssumption DEF Rect

\* So are the limits of a piece.
LEMMA LimitsPositive ==
  ASSUME NEW r \in Rect, NEW m \in CorreMin .. CorreMax, level \in Levels
  PROVE  Wide(r, m) \in Nat \ {0} /\ High(r, m) \in Nat \ {0}
<1>1. m \in Nat \ {0} /\ MaxRectWidth[level] \in Nat \ {0}
  BY MessageAssumption
<1>2. r.w \in Nat \ {0} /\ r.h \in Nat \ {0}
  BY RectSizes
<1>3. TightLines(r.w, level) \in Nat \ {0} /\ StripLines(r.w) \in Nat \ {0}
  BY <1>2, TightLinesPositive, StripLinesPositive
<1>4. Wide(r, m) \in Nat \ {0}
  BY <1>1, <1>2 DEF Wide
<1>5. High(r, m) \in Nat \ {0}
  BY <1>1, <1>2, <1>3 DEF High
<1> QED
  BY <1>4, <1>5

\* A rectangle is cut into some number of pieces.
LEMMA PiecesNat ==
  ASSUME NEW r \in Rect, NEW m \in CorreMin .. CorreMax, level \in Levels
  PROVE  Pieces(r, m) \in Nat \ {0}
<1>1. /\ Ceil(r.w, Wide(r, m)) \in Nat \ {0} /\ Ceil(r.h, High(r, m)) \in Nat \ {0}
  BY RectSizes, LimitsPositive, CeilPositive
<1> QED
  BY <1>1 DEF Pieces

\* What an empty part would add.
PartPieces(r, m) == IF NonEmpty(r) THEN Pieces(r, m) ELSE 0

\* A cut takes one piece off the number.
LEMMA CutCounts ==
  ASSUME NEW r \in Rect, maxwidth \in CorreMin .. CorreMax, level \in Levels,
         NEW l, viewer.encoder = "Tight" => l = level
  PROVE  Pieces(r, maxwidth) =
            1 + PartPieces(Cut(r, l).right, maxwidth) + PartPieces(Cut(r, l).below, maxwidth)
<1> DEFINE m  == maxwidth
           pw == Wide(r, m)
           ph == High(r, m)
           w  == Least(r.w, pw)
           h  == Least(r.h, ph)
           right == Cut(r, l).right
           below == Cut(r, l).below
           across == Ceil(r.w, pw)
           down   == Ceil(r.h, ph)
<1>1. pw = PieceWidth(r, l) /\ ph = PieceHeight(r, l)
  BY DEF Wide, High, PieceWidth, PieceHeight
<1>2. pw \in Nat \ {0} /\ ph \in Nat \ {0} /\ r.w \in Nat \ {0} /\ r.h \in Nat \ {0}
  BY LimitsPositive, RectSizes
<1>3. right = Box(r.x + w, r.y, r.w - w, h) /\ below = Box(r.x, r.y + h, r.w, r.h - h)
  BY <1>1 DEF Cut
<1>4. across \in Nat \ {0} /\ down \in Nat \ {0}
  BY <1>2, CeilPositive
<1>5. /\ right.w = r.w - w /\ right.h = h /\ below.w = r.w /\ below.h = r.h - h
  BY <1>3 DEF Box
<1>6. /\ r.w <= pw => across = 1 /\ w = r.w
      /\ r.w > pw => across = Ceil(r.w - pw, pw) + 1 /\ w = pw
      /\ r.h <= ph => down = 1 /\ h = r.h
      /\ r.h > ph => down = Ceil(r.h - ph, ph) + 1 /\ h = ph
  <2>1. ASSUME r.w <= pw PROVE across = 1 /\ w = r.w
    BY <1>2, <2>1, r.w \in 1 .. pw, CeilOfOne DEF Least
  <2>2. ASSUME r.w > pw PROVE across = Ceil(r.w - pw, pw) + 1 /\ w = pw
    BY <1>2, <2>2, CeilOfMore DEF Least
  <2>3. ASSUME r.h <= ph PROVE down = 1 /\ h = r.h
    BY <1>2, <2>3, r.h \in 1 .. ph, CeilOfOne DEF Least
  <2>4. ASSUME r.h > ph PROVE down = Ceil(r.h - ph, ph) + 1 /\ h = ph
    BY <1>2, <2>4, CeilOfMore DEF Least
  <2> QED
    BY <2>1, <2>2, <2>3, <2>4
<1> HIDE DEF w, h, right, below, across, down
<1>7. PartPieces(right, m) = across - 1
  <2>1. CASE r.w <= pw
    <3>1. right.w = 0
      BY <1>2, <1>5, <1>6, <2>1
    <3> QED
      BY <1>6, <2>1, <3>1 DEF PartPieces, NonEmpty
  <2>2. CASE r.w > pw
    <3>1. right.w = r.w - pw /\ right.h = h /\ h \in 1 .. ph /\ right.w \in 1 .. r.w
      BY <1>2, <1>5, <1>6, <2>2
    <3>2. NonEmpty(right)
      BY <3>1 DEF NonEmpty
    <3>3. viewer.encoder \in {"CoRRE", "Tight"}
      BY <1>2, <2>2 DEF Wide
    <3>4. Wide(right, m) = pw
      BY <3>3 DEF Wide
    <3>5. High(right, m) \in Nat \ {0} /\ h <= High(right, m)
      <4>1. CASE viewer.encoder = "CoRRE"
        BY <1>2, <3>1, <4>1 DEF High
      <4>2. CASE viewer.encoder = "Tight"
        <5> DEFINE size  == MaxRectSize[level]
                   width == MaxRectWidth[level]
                   a == Least(r.w, width)
                   b == Least(right.w, width)
        <5>1. width \in Nat \ {0} /\ size \in Nat
          BY MessageAssumption
        <5>2. a \in Nat \ {0} /\ b \in 1 .. a
          BY <1>2, <3>1, <5>1 DEF Least
        <5>3. ph = size \div a /\ High(right, m) = size \div b
          BY <4>2 DEF High, TightLines
        <5> HIDE DEF a, b, ph, size
        <5>4. ph <= High(right, m)
          BY <5>1, <5>2, <5>3, FewerHigher
        <5>5. High(right, m) = TightLines(right.w, level) /\ TightLines(right.w, level) \in Nat \ {0}
          BY <3>1, <4>2, TightLinesPositive DEF High
        <5> QED
          BY <1>2, <3>1, <5>4, <5>5
      <4> QED
        BY <3>3, <4>1, <4>2
    <3>6. Ceil(right.h, High(right, m)) = 1
      <4>1. right.h \in 1 .. High(right, m)
        BY <1>2, <3>1, <3>5
      <4> QED
        BY <3>5, <4>1, CeilOfOne
    <3>7. Ceil(right.w, Wide(right, m)) = across - 1
      BY <1>4, <1>6, <2>2, <3>1, <3>4, <1>2, CeilPositive
    <3> QED
      BY <1>4, <3>2, <3>6, <3>7 DEF PartPieces, Pieces
  <2> QED
    BY <1>2, <2>1, <2>2
<1>8. PartPieces(below, m) = across * (down - 1)
  <2>1. CASE r.h <= ph
    <3>1. below.h = 0
      BY <1>2, <1>5, <1>6, <2>1
    <3> QED
      BY <1>4, <1>6, <2>1, <3>1 DEF PartPieces, NonEmpty
  <2>2. CASE r.h > ph
    <3>1. below.w = r.w /\ below.h = r.h - ph /\ below.h \in Nat \ {0}
      BY <1>2, <1>5, <1>6, <2>2
    <3>2. NonEmpty(below)
      BY <1>2, <3>1 DEF NonEmpty
    <3>3. viewer.encoder \in {"CoRRE", "Tight", "Zlib", "Ultra"}
      BY <1>2, <2>2 DEF High
    <3>4. Wide(below, m) = pw
      BY <3>1 DEF Wide
    <3>5. High(below, m) = ph
      BY <3>1, <3>3 DEF High
    <3>6. Ceil(below.w, Wide(below, m)) = across
      BY <3>1, <3>4 DEF across
    <3>7. Ceil(below.h, High(below, m)) = down - 1
      BY <1>4, <1>6, <2>2, <3>1, <3>5, <1>2, CeilPositive
    <3> QED
      BY <3>2, <3>6, <3>7 DEF PartPieces, Pieces
  <2> QED
    BY <1>2, <2>1, <2>2
<1>9. across * (down - 1) = across * down - across
  BY <1>4
<1>10. Pieces(r, m) = across * down /\ across * down \in Int
  BY <1>4 DEF Pieces, across, down
<1> QED
  BY <1>4, <1>7, <1>8, <1>9, <1>10 DEF right, below

\* What NumCodedRects announces of a rectangle, unless it has the last one
\* marked, is the number of pieces it is cut into; and it is not searched.
LEMMA CodedIsPieces ==
  ASSUME NEW r \in Rect, NEW m \in CorreMin .. CorreMax, viewer \in Viewers,
         level \in Levels,
         viewer.scale = 1, NumCodedRects(OnServer(r), m) # 0
  PROVE  /\ NumCodedRects(OnServer(r), m) = Pieces(r, m)
         /\ ~Splits(r) /\ viewer.encoder \notin {"Ultra", "ZlibHex"}
<1>1. r \in Span /\ r.w \in Nat \ {0} /\ r.h \in Nat \ {0}
  BY RectIsSpan, RectSizes
<1>2. OnServer(r) = r
  BY <1>1 DEF OnServer, Box, Span
<1>3. NumCodedRects(r, m) # 0
  BY <1>2
<1>4. viewer.encoder \in Encoders
  <2>1. viewer \in ViewerType
    BY MessageAssumption
  <2> QED
    BY <2>1 DEF ViewerType
<1>5. viewer.encoder \notin {"Ultra", "ZlibHex"}
  BY <1>3 DEF NumCodedRects
<1>6. ~Splits(r)
  BY <1>3 DEF NumCodedRects, Splits
<1>7. NumCodedRects(r, m) = Pieces(r, m)
  <2>1. CASE viewer.encoder = "CoRRE"
    BY <2>1 DEF NumCodedRects, Pieces, Wide, High
  <2>2. CASE viewer.encoder = "Zlib"
    <3> DEFINE n == Ceil(r.h, StripLines(r.w))
    <3>1. n \in Nat \ {0}
      BY <1>1, StripLinesPositive, CeilPositive
    <3>2. NumCodedRects(r, m) = IF lastrect /\ n > 1 THEN 0 ELSE n
      BY <2>2 DEF NumCodedRects
    <3>3. NumCodedRects(r, m) = n
      BY <1>3, <3>2
    <3>4. Ceil(r.w, r.w) = 1
      BY <1>1, r.w \in 1 .. r.w, CeilOfOne
    <3>5. Pieces(r, m) = Ceil(r.w, r.w) * n
      BY <2>2 DEF Pieces, Wide, High
    <3> HIDE DEF n
    <3> QED
      BY <3>1, <3>3, <3>4, <3>5
  <2>3. CASE viewer.encoder = "Tight"
    <3> DEFINE size  == MaxRectSize[level]
               width == MaxRectWidth[level]
               lines == TightLines(r.w, level)
    <3>1. width \in Nat \ {0} /\ size \in Nat /\ lines = size \div Least(r.w, width)
      BY MessageAssumption DEF TightLines
    <3>5. NumCodedRects(r, m) = IF r.w > width \/ Area(r) > size
                                THEN Ceil(r.w, width) * Ceil(r.h, lines) ELSE 1
      BY <1>6, <2>3 DEF NumCodedRects
    <3>2. Pieces(r, m) = Ceil(r.w, width) * Ceil(r.h, lines)
      BY <2>3 DEF Pieces, Wide, High
    <3> HIDE DEF size, width, lines
    <3>3. CASE r.w > width \/ Area(r) > size
      BY <3>2, <3>3, <3>5
    <3>4. CASE ~(r.w > width \/ Area(r) > size)
      <4>1. NumCodedRects(r, m) = 1
        BY <3>4, <3>5
      <4>2. Ceil(r.w, width) = 1
        BY <1>1, <3>1, <3>4, r.w \in 1 .. width, CeilOfOne
      <4>3. lines = size \div r.w
        BY <1>1, <3>1, <3>4 DEF Least
      <4>4. r.w * r.h <= size
        BY <1>1, <3>1, <3>4 DEF Area
      <4> DEFINE d == size \div r.w
      <4>5. d \in Int /\ size < r.w * d + r.w
        BY <1>1, <3>1
      <4> HIDE DEF d
      <4>6. r.h <= d
        <5>1. SUFFICES ASSUME d + 1 <= r.h PROVE FALSE
          BY <1>1, <4>5
        <5>2. r.w * (d + 1) = r.w * d + r.w
          BY <1>1, <4>5
        <5>3. r.w * (d + 1) <= r.w * r.h
          BY <1>1, <4>5, <5>1
        <5> QED
          BY <1>1, <3>1, <4>4, <4>5, <5>2, <5>3
      <4>7. Ceil(r.h, lines) = 1
        BY <1>1, <4>3, <4>5, <4>6, r.h \in 1 .. d, d \in Nat \ {0}, CeilOfOne DEF d
      <4> QED
        BY <3>2, <4>1, <4>2, <4>7
    <3> QED
      BY <3>3, <3>4
  <2>4. CASE viewer.encoder = "Raw"
    <3>1. Ceil(r.w, r.w) = 1 /\ Ceil(r.h, r.h) = 1
      BY <1>1, r.w \in 1 .. r.w, r.h \in 1 .. r.h, CeilOfOne
    <3> QED
      BY <2>4, <3>1 DEF NumCodedRects, Pieces, Wide, High
  <2> QED
    BY <1>4, <1>5, <2>1, <2>2, <2>3, <2>4 DEF Encoders
<1> QED
  BY <1>2, <1>5, <1>6, <1>7

\* It is a number in any case.
LEMMA CodedNat ==
  ASSUME NEW r \in Rect, NEW m \in CorreMin .. CorreMax, viewer \in Viewers,
         level \in Levels
  PROVE  NumCodedRects(OnServer(r), m) \in Nat
<1> DEFINE t == OnServer(r)
<1>1. viewer.scale \in Nat \ {0} /\ r.w \in Nat \ {0} /\ r.h \in Nat \ {0}
  <2>1. viewer \in ViewerType
    BY MessageAssumption
  <2> QED
    BY <2>1, RectSizes DEF ViewerType
<1>2. t.w = viewer.scale * r.w /\ t.h = viewer.scale * r.h
  BY DEF OnServer, Box
<1> HIDE DEF t
<1>3. t.w \in Nat \ {0} /\ t.h \in Nat \ {0}
  <2>1. viewer.scale * r.w >= r.w /\ viewer.scale * r.h >= r.h
    BY <1>1
  <2> QED
    BY <1>1, <1>2, <2>1
<1>4. m \in Nat \ {0} /\ MaxRectWidth[level] \in Nat \ {0}
  BY MessageAssumption
<1>5. TightLines(t.w, level) \in Nat \ {0} /\ StripLines(t.w) \in Nat \ {0}
  BY <1>3, TightLinesPositive, StripLinesPositive
<1>6. /\ Ceil(t.w, m) \in Nat /\ Ceil(t.h, m) \in Nat /\ Ceil(t.h, StripLines(t.w)) \in Nat
      /\ Ceil(t.w, MaxRectWidth[level]) \in Nat /\ Ceil(t.h, TightLines(t.w, level)) \in Nat
  BY <1>3, <1>4, <1>5, CeilPositive
<1>7. /\ Ceil(t.w, m) * Ceil(t.h, m) \in Nat
      /\ Ceil(t.w, MaxRectWidth[level]) * Ceil(t.h, TightLines(t.w, level)) \in Nat
  BY <1>6
<1>8. NumCodedRects(t, m) \in Nat
  BY <1>6, <1>7 DEF NumCodedRects
<1> QED
  BY <1>8 DEF t

-----------------------------------------------------------------------------
(***************************************************************************)
(* Sums over a sequence.  f[i] is the sum of the first i numbers.          *)
(***************************************************************************)
\* Every set of natural numbers that is not empty has a least element.
LEMMA LeastElement ==
  ASSUME NEW S \in SUBSET Nat, S # {}
  PROVE  \E n \in S : \A k \in S : n <= k
<1> DEFINE R == OpToRel(<, Nat)
<1>1. \A k, n \in Nat : <<k, n>> \in R <=> k < n
  BY DEF OpToRel
<1>2. IsWellFoundedOn(R, Nat)
  BY NatLessThanWellFounded
<1> HIDE DEF R
<1>3. PICK n \in S : \A k \in S : ~(<<k, n>> \in R)
  BY <1>2, WFMin
<1>4. ASSUME NEW k \in S PROVE n <= k
  BY <1>1, <1>3, <1>4, n \in Nat, k \in Nat, ~(<<k, n>> \in R)
<1> QED
  BY <1>4

Adds(f, n, c, len) ==
    /\ DOMAIN f = 0 .. len
    /\ f[0] = n
    /\ \A i \in 1 .. len : f[i] = f[i - 1] + c[i]

\* What is added to a natural number is a natural number.
LEMMA SumsAreNat ==
  ASSUME NEW len \in Nat, NEW c \in [1 .. len -> Nat], NEW n \in Nat,
         NEW f, Adds(f, n, c, len)
  PROVE  \A i \in 0 .. len : f[i] \in Nat
<1> DEFINE Bad == {i \in 0 .. len : f[i] \notin Nat}
<1>1. SUFFICES ASSUME Bad # {} PROVE FALSE
  OBVIOUS
<1>2. PICK i \in Bad : \A k \in Bad : i <= k
  BY <1>1, LeastElement, Bad \in SUBSET Nat
<1>3. i \in 0 .. len /\ f[i] \notin Nat
  OBVIOUS
<1>4. i # 0
  BY <1>3 DEF Adds
<1>5. i - 1 \in 0 .. len /\ i - 1 \notin Bad
  BY <1>2, <1>3, <1>4
<1>6. f[i - 1] \in Nat /\ c[i] \in Nat /\ f[i] = f[i - 1] + c[i]
  BY <1>3, <1>4, <1>5, i \in 1 .. len DEF Adds
<1> QED
  BY <1>3, <1>6

\* There are such sums.
LEMMA SumsExist ==
  ASSUME NEW len \in Nat, NEW c \in [1 .. len -> Nat], NEW n \in Nat
  PROVE  \E f : Adds(f, n, c, len)
<1> DEFINE Bad == {i \in 0 .. len : ~ \E f : Adds(f, n, c, i)}
<1>1. SUFFICES ASSUME Bad # {} PROVE FALSE
  BY len \in 0 .. len
<1>2. PICK i \in Bad : \A k \in Bad : i <= k
  BY <1>1, LeastElement, Bad \in SUBSET Nat
<1>3. i \in 0 .. len /\ ~ \E f : Adds(f, n, c, i)
  OBVIOUS
<1>4. CASE i = 0
  <2> DEFINE f == [k \in 0 .. 0 |-> n]
  <2>1. Adds(f, n, c, 0)
    BY DEF Adds
  <2> QED
    BY <1>3, <1>4, <2>1
<1>5. CASE i > 0
  <2>1. i - 1 \in 0 .. len /\ i - 1 \notin Bad
    BY <1>2, <1>3, <1>5
  <2>2. PICK g : Adds(g, n, c, i - 1)
    BY <2>1
  <2> DEFINE f == [k \in 0 .. i |-> IF k = i THEN g[i - 1] + c[i] ELSE g[k]]
  <2>3. Adds(f, n, c, i)
    <3>1. DOMAIN f = 0 .. i /\ f[0] = n
      BY <1>3, <1>5, <2>2 DEF Adds
    <3>2. ASSUME NEW k \in 1 .. i PROVE f[k] = f[k - 1] + c[k]
      <4>1. CASE k = i
        BY <1>3, <4>1
      <4>2. CASE k # i
        BY <1>3, <2>2, <4>2, k \in 1 .. i - 1 DEF Adds
      <4> QED
        BY <4>1, <4>2
    <3> QED
      BY <3>1, <3>2 DEF Adds
  <2> QED
    BY <1>3, <2>3
<1> QED
  BY <1>3, <1>4, <1>5

\* What AddRects adds up: the numbers for the rectangles, if none is 0.
LEMMA AddRectsSums ==
  ASSUME NEW rs \in Seq(Rect), NEW n \in Nat, NEW m \in CorreMin .. CorreMax,
         viewer \in Viewers, level \in Levels
  PROVE  /\ AddRects(n, rs, m) \in Nat
         /\ AddRects(n, rs, m) # Marked =>
               /\ n # Marked /\ ~MarksLast(rs, m)
               /\ \E f : /\ Adds(f, n, [i \in 1 .. Len(rs) |->
                                           NumCodedRects(OnServer(rs[i]), m)], Len(rs))
                         /\ AddRects(n, rs, m) = f[Len(rs)]
<1> DEFINE len == Len(rs)
           c == [i \in 1 .. len |-> NumCodedRects(OnServer(rs[i]), m)]
           IsTotal(g) == g = [i \in 0 .. len |->
                IF i = 0 THEN n ELSE g[i - 1] + NumCodedRects(OnServer(rs[i]), m)]
           total == CHOOSE g : IsTotal(g)
<1>1. len \in Nat /\ Marked \in Nat
  BY MessageAssumption DEF Marked
<1>2. c \in [1 .. len -> Nat]
  <2>1. ASSUME NEW i \in 1 .. len PROVE NumCodedRects(OnServer(rs[i]), m) \in Nat
    <3>1. rs[i] \in Rect
      BY <2>1
    <3> QED
      BY <3>1, CodedNat
  <2> QED
    BY <2>1
<1>3. IsTotal(total)
  <2>1. PICK f : Adds(f, n, c, len)
    BY <1>1, <1>2, SumsExist
  <2> DEFINE g == [i \in 0 .. len |-> f[i]]
  <2>2. IsTotal(g)
    BY <1>1, <2>1 DEF Adds
  <2> HIDE DEF g, IsTotal
  <2> QED
    BY <2>2
<1>4. Adds(total, n, c, len)
  <2> HIDE DEF total
  <2> QED
    BY <1>1, <1>3 DEF Adds
<1>5. AddRects(n, rs, m) = IF n = Marked THEN n
                           ELSE IF MarksLast(rs, m) THEN Marked ELSE total[len]
  BY DEF AddRects
<1> HIDE DEF total, IsTotal, c
<1>6. total[len] \in Nat
  BY <1>1, <1>2, <1>4, SumsAreNat
<1> QED
  BY <1>1, <1>4, <1>5, <1>6 DEF c

-----------------------------------------------------------------------------
(***************************************************************************)
(* How many pieces are still to be sent: some running total of the pieces  *)
(* of the jobs ends with n.                                                *)
(***************************************************************************)
Totals(f, s, m) ==
    /\ f \in [0 .. Len(s) -> Int]
    /\ f[0] = 0
    /\ \A i \in 1 .. Len(s) : f[i] = f[i - 1] + Pieces(s[i].rect, m)

Remain(s, n, m) == \E f : Totals(f, s, m) /\ f[Len(s)] = n

\* Nothing is none.
LEMMA NoneRemain ==
  ASSUME NEW m, NEW n
  PROVE  Remain(<<>>, n, m) <=> n = 0
<1>1. Remain(<<>>, n, m) => n = 0
  BY DEF Remain, Totals
<1>2. Remain(<<>>, 0, m)
  <2> DEFINE f == [i \in 0 .. 0 |-> 0]
  <2>1. Totals(f, <<>>, m) /\ f[Len(<<>>)] = 0
    BY DEF Totals
  <2> QED
    BY <2>1 DEF Remain
<1> QED
  BY <1>1, <1>2

\* One job stands for its own pieces.
LEMMA OneRemains ==
  ASSUME NEW t \in Job, NEW m \in CorreMin .. CorreMax, level \in Levels
  PROVE  Remain(<<t>>, Pieces(t.rect, m), m)
<1>1. Pieces(t.rect, m) \in Int
  BY PiecesNat DEF Job
<1> DEFINE f == [i \in 0 .. 1 |-> IF i = 0 THEN 0 ELSE Pieces(t.rect, m)]
<1>2. Totals(f, <<t>>, m)
  BY <1>1 DEF Totals
<1>3. f[Len(<<t>>)] = Pieces(t.rect, m)
  OBVIOUS
<1> QED
  BY <1>2, <1>3 DEF Remain

\* The items of two lists of jobs, in the list of both.
LEMMA ConcatItems ==
  ASSUME NEW s \in Seq(Job), NEW t \in Seq(Job)
  PROVE  /\ Len(s) \in Nat /\ Len(t) \in Nat /\ Len(s \o t) = Len(s) + Len(t)
         /\ \A i \in 1 .. Len(s) : (s \o t)[i] = s[i]
         /\ \A i \in 1 .. Len(t) : (s \o t)[Len(s) + i] = t[i]
<1>1. Len(s) \in Nat /\ Len(t) \in Nat /\ Len(s \o t) = Len(s) + Len(t)
  OBVIOUS
<1>2. \A i \in 1 .. Len(s) : (s \o t)[i] = s[i]
  OBVIOUS
<1>3. \A i \in 1 .. Len(t) : (s \o t)[Len(s) + i] = t[i]
  OBVIOUS
<1> QED
  BY <1>1, <1>2, <1>3

\* The pieces of jobs one after the other add up.
LEMMA ConcatRemain ==
  ASSUME NEW s \in Seq(Job), NEW t \in Seq(Job), NEW k, NEW n, NEW m \in CorreMin .. CorreMax,
         level \in Levels, Remain(s, k, m), Remain(t, n, m)
  PROVE  Remain(s \o t, k + n, m) /\ k \in Int /\ n \in Int
<1>1. PICK f : Totals(f, s, m) /\ f[Len(s)] = k
  BY DEF Remain
<1>2. PICK g : Totals(g, t, m) /\ g[Len(t)] = n
  BY DEF Remain
<1> DEFINE u == s \o t
           h == [i \in 0 .. Len(s) + Len(t) |->
                    IF i <= Len(s) THEN f[i] ELSE k + g[i - Len(s)]]
<1>3. /\ Len(s) \in Nat /\ Len(t) \in Nat /\ Len(u) = Len(s) + Len(t)
      /\ \A i \in 1 .. Len(s) : u[i] = s[i]
      /\ \A i \in 1 .. Len(t) : u[Len(s) + i] = t[i]
  BY ConcatItems
<1> HIDE DEF u
<1>4. k \in Int /\ n \in Int
  <2>1. f \in [0 .. Len(s) -> Int] /\ g \in [0 .. Len(t) -> Int]
    BY <1>1, <1>2 DEF Totals
  <2>2. Len(s) \in 0 .. Len(s) /\ Len(t) \in 0 .. Len(t)
    BY <1>3
  <2>3. f[Len(s)] \in Int /\ g[Len(t)] \in Int
    BY <2>1, <2>2
  <2> QED
    BY <1>1, <1>2, <2>3
<1>5. ASSUME NEW i \in 0 .. Len(t) PROVE h[Len(s) + i] = k + g[i]
  <2>1. Len(s) + i \in 0 .. Len(s) + Len(t) /\ (Len(s) + i) - Len(s) = i
    BY <1>3
  <2>2. CASE i = 0
    <3>1. h[Len(s)] = f[Len(s)]
      BY <1>3
    <3>2. g[0] = 0 /\ Len(s) + 0 = Len(s)
      BY <1>2, <1>3 DEF Totals
    <3> HIDE DEF h
    <3> QED
      BY <1>1, <1>4, <2>2, <3>1, <3>2
  <2>3. CASE i > 0
    <3>1. ~(Len(s) + i <= Len(s))
      BY <1>3, <2>3
    <3>2. h[Len(s) + i] = k + g[(Len(s) + i) - Len(s)]
      BY <2>1, <3>1
    <3> QED
      BY <2>1, <3>2
  <2> QED
    BY <2>2, <2>3
<1>6. \A i \in 0 .. Len(s) : h[i] = f[i]
  BY <1>3
<1>7. h \in [0 .. Len(u) -> Int]
  BY <1>1, <1>2, <1>3, <1>4 DEF Totals
<1> HIDE DEF h
<1>8. ASSUME NEW i \in 1 .. Len(u) PROVE h[i] = h[i - 1] + Pieces(u[i].rect, m)
  <2>1. CASE i <= Len(s)
    <3>1. i \in 1 .. Len(s) /\ i \in 0 .. Len(s) /\ i - 1 \in 0 .. Len(s)
      BY <1>3, <2>1
    <3>2. h[i] = f[i] /\ h[i - 1] = f[i - 1] /\ u[i] = s[i]
      BY <1>3, <1>6, <3>1
    <3>3. f[i] = f[i - 1] + Pieces(s[i].rect, m)
      BY <1>1, <3>1 DEF Totals
    <3> QED
      BY <3>2, <3>3
  <2>2. CASE i > Len(s)
    <3> DEFINE j == i - Len(s)
    <3>1. j \in 1 .. Len(t) /\ j \in 0 .. Len(t) /\ j - 1 \in 0 .. Len(t) /\ i = Len(s) + j
      BY <1>3, <2>2
    <3> HIDE DEF j
    <3>2. g[j] = g[j - 1] + Pieces(t[j].rect, m) /\ g[j] \in Int /\ g[j - 1] \in Int
      BY <1>2, <3>1 DEF Totals
    <3>3. h[i] = k + g[j] /\ h[Len(s) + (j - 1)] = k + g[j - 1] /\ u[i] = t[j]
      BY <1>3, <1>5, <3>1
    <3>4. i - 1 = Len(s) + (j - 1)
      BY <1>3, <3>1
    <3>5. Pieces(t[j].rect, m) \in Int
      <4>1. t[j] \in Job
        BY <3>1
      <4>2. t[j].rect \in Rect
        BY <4>1 DEF Job
      <4> QED
        BY <4>2, PiecesNat
    <3>6. h[i - 1] = k + g[j - 1] /\ Pieces(u[i].rect, m) = Pieces(t[j].rect, m)
      BY <3>3, <3>4
    <3>7. k + g[j] = (k + g[j - 1]) + Pieces(t[j].rect, m)
      BY <1>4, <3>2, <3>5
    <3> QED
      BY <3>3, <3>6, <3>7
  <2> QED
    BY <1>3, <2>1, <2>2
<1>9. h[0] = 0 /\ h[Len(u)] = k + n
  BY <1>1, <1>2, <1>3, <1>5, <1>6, 0 \in 0 .. Len(s), Len(t) \in 0 .. Len(t) DEF Totals
<1>10. Totals(h, u, m) /\ h[Len(u)] = k + n
  BY <1>7, <1>8, <1>9 DEF Totals
<1> QED
  BY <1>4, <1>10 DEF Remain, u

\* Without the first job its pieces are missing.
LEMMA TailRemain ==
  ASSUME NEW s \in Seq(Job), s # <<>>, NEW n, NEW m \in CorreMin .. CorreMax,
         level \in Levels, Remain(s, n, m)
  PROVE  Remain(Tail(s), n - Pieces(Head(s).rect, m), m) /\ n \in Int
<1>1. PICK f : Totals(f, s, m) /\ f[Len(s)] = n
  BY DEF Remain
<1> DEFINE t == Tail(s)
           p == Pieces(Head(s).rect, m)
           h == [i \in 0 .. Len(s) - 1 |-> f[i + 1] - p]
<1>2. /\ Len(s) \in Nat /\ Len(s) > 0 /\ Len(t) = Len(s) - 1 /\ s[1] = Head(s)
      /\ \A i \in 1 .. Len(t) : t[i] = s[i + 1]
      /\ \A i \in 1 .. Len(s) : s[i].rect \in Rect
  <2>1. /\ Len(s) \in Nat /\ Len(s) > 0 /\ Len(t) = Len(s) - 1 /\ s[1] = Head(s)
        /\ \A i \in 1 .. Len(t) : t[i] = s[i + 1]
        /\ \A i \in 1 .. Len(s) : s[i] \in Job
    OBVIOUS
  <2> HIDE DEF t
  <2> QED
    BY <2>1 DEF Job
<1>3. p \in Int
  BY <1>2, 1 \in 1 .. Len(s), PiecesNat
<1>4. f[0] = 0 /\ f[1] = p /\ n \in Int
  <2>1. f[1] = f[1 - 1] + p /\ f[0] = 0 /\ f[Len(s)] \in Int
    BY <1>1, <1>2, 1 \in 1 .. Len(s), Len(s) \in 0 .. Len(s) DEF Totals
  <2> QED
    BY <1>1, <1>3, <2>1
<1> HIDE DEF t, p
<1>5. h \in [0 .. Len(t) -> Int] /\ (\A i \in 0 .. Len(t) : h[i] = f[i + 1] - p)
  BY <1>1, <1>2, <1>3 DEF Totals
<1> HIDE DEF h
<1>6. ASSUME NEW i \in 1 .. Len(t) PROVE h[i] = h[i - 1] + Pieces(t[i].rect, m)
  <2>1. i + 1 \in 1 .. Len(s) /\ i + 1 \in 0 .. Len(s) /\ i \in 0 .. Len(s)
        /\ i \in 0 .. Len(t) /\ i - 1 \in 0 .. Len(t) /\ (i + 1) - 1 = i /\ (i - 1) + 1 = i
    BY <1>2
  <2>2. f[i + 1] = f[i] + Pieces(s[i + 1].rect, m) /\ f[i + 1] \in Int /\ f[i] \in Int
    BY <1>1, <2>1 DEF Totals
  <2>3. h[i] = f[i + 1] - p /\ h[i - 1] = f[i] - p /\ t[i] = s[i + 1]
    BY <1>2, <1>5, <2>1
  <2>4. Pieces(s[i + 1].rect, m) \in Int
    BY <1>2, <2>1, PiecesNat
  <2> QED
    BY <1>3, <2>2, <2>3, <2>4
<1>7. h[0] = 0 /\ h[Len(t)] = n - p
  BY <1>1, <1>2, <1>3, <1>4, <1>5, 0 \in 0 .. Len(t), Len(t) \in 0 .. Len(t)
<1> QED
  BY <1>4, <1>5, <1>6, <1>7 DEF Remain, Totals, t, p

-----------------------------------------------------------------------------
(***************************************************************************)
(* The rest of the types.                                                  *)
(***************************************************************************)
Flags ==
    /\ asking \in {"asked", "forgotten", "chosen"} /\ lastrect \in BOOLEAN
    /\ posChanged \in BOOLEAN /\ pending \in BOOLEAN /\ statsready \in BOOLEAN
    /\ queueEnable \in BOOLEAN /\ mustBeZipped \in BOOLEAN
    /\ marked \in BOOLEAN /\ disturbed \in BOOLEAN /\ recut \in BOOLEAN

Pixels ==
    /\ shown \subseteq DOMAIN Blank /\ again \subseteq shown /\ lost \subseteq DOMAIN Blank
    /\ pc = "counted" => again = {}

Numbers ==
    /\ updates \in Nat /\ sent \in Nat /\ announced \in 0 .. Marked
    /\ pc # "counted" => announced = updates % MaxRects
    /\ pc # "between" => ~marked
    /\ pc = "between" /\ ~disturbed => (marked <=> updates = Marked)

\* The pixels of rectangles are those of the picture.
LEMMA CellsOfPicture ==
  ASSUME NEW r \in Rect
  PROVE  Cells(r) \subseteq DOMAIN Blank
<1>1. Width \in Nat /\ Height \in Nat
  BY MessageAssumption
<1>2. /\ r.x \in Nat /\ r.y \in Nat /\ r.w \in Nat /\ r.h \in Nat
      /\ r.x + r.w <= Width /\ r.y + r.h <= Height
  BY <1>1 DEF Rect
<1>3. /\ (r.x .. r.x + r.w - 1) \subseteq 0 .. Width - 1
      /\ (r.y .. r.y + r.h - 1) \subseteq 0 .. Height - 1
  BY <1>1, <1>2
<1>4. DOMAIN Blank = (0 .. Width - 1) \X (0 .. Height - 1)
  BY DEF Blank
<1> QED
  BY <1>3, <1>4 DEF Cells

\* So are those of a sequence of rectangles.
LEMMA AllCellsOfPicture ==
  ASSUME NEW rs \in Seq(Rect)
  PROVE  AllCells(rs) \subseteq DOMAIN Blank
<1>1. \A i \in DOMAIN rs : rs[i] \in Rect
  OBVIOUS
<1> QED
  BY <1>1, CellsOfPicture, Zenon DEF AllCells

\* Nothing is counted yet.
LEMMA InitTypes == Init => Flags /\ Pixels /\ Numbers
<1> SUFFICES ASSUME Init PROVE Flags /\ Pixels /\ Numbers
  OBVIOUS
<1>1. viewer \in ViewerType
  BY MessageAssumption DEF Init
<1>2. viewer.lastrect \in BOOLEAN
  BY <1>1 DEF ViewerType
<1>3. Flags
  <2>1. /\ asking = "asked" /\ lastrect = viewer.lastrect /\ posChanged = FALSE
        /\ pending = FALSE /\ statsready = FALSE /\ queueEnable = FALSE
        /\ mustBeZipped = FALSE /\ marked = FALSE /\ disturbed = FALSE /\ recut = FALSE
    BY DEF Init
  <2> QED
    BY <1>2, <2>1 DEF Flags
<1>4. Pixels
  BY DEF Init, Pixels
<1>5. Numbers
  <2>1. Marked \in Nat /\ 0 # Marked /\ 0 % MaxRects = 0
    BY MessageAssumption DEF Marked
  <2>2. pc = "between" /\ updates = 0 /\ sent = 0 /\ announced = 0 /\ marked = FALSE
    BY DEF Init
  <2> QED
    BY <2>1, <2>2 DEF Numbers
<1> QED
  BY <1>3, <1>4, <1>5

\* What Shows adds to the pixels are pixels of the picture.
LEMMA ShowsPixels ==
  ASSUME Pixels, NEW cells \in SUBSET DOMAIN Blank, Shows(cells)
  PROVE  shown' \subseteq DOMAIN Blank /\ again' \subseteq shown'
  BY DEF Pixels, Shows

\* So with a queue that goes out.
LEMMA FlushPixels ==
  ASSUME Pixels, sent \in Nat, stray \in Seq(Rect), NEW rs \in Seq(Rect), NEW zip,
         Flush(rs, zip)
  PROVE  /\ shown' \subseteq DOMAIN Blank /\ again' \subseteq shown'
         /\ lost' \subseteq DOMAIN Blank /\ sent' \in Nat
<1> DEFINE all == stray \o rs
           some == SubSeq(all, 1, Len(rs))
<1>1. all \in Seq(Rect) /\ some \in Seq(Rect) /\ Len(all) \in Nat
  <2>1. all \in Seq(Rect)
    OBVIOUS
  <2>2. Len(rs) <= Len(all) /\ Len(rs) \in Nat /\ Len(all) \in Nat
    OBVIOUS
  <2> HIDE DEF all
  <2>3. some \in Seq(Rect)
    BY <2>1, <2>2
  <2> QED
    BY <2>1, <2>2, <2>3
<1>2. \/ Shows(AllCells(all)) /\ UNCHANGED lost /\ sent' = sent + Len(all)
      \/ Shows(AllCells(some)) /\ UNCHANGED lost /\ sent' = sent + 1
      \/ lost' = lost \union AllCells(all) /\ UNCHANGED <<sent, shown, again>>
  BY DEF Flush
<1> HIDE DEF all, some
<1>3. AllCells(all) \in SUBSET DOMAIN Blank /\ AllCells(some) \in SUBSET DOMAIN Blank
  BY <1>1, AllCellsOfPicture
<1>4. CASE Shows(AllCells(all)) /\ UNCHANGED lost /\ sent' = sent + Len(all)
  BY <1>1, <1>3, <1>4, ShowsPixels DEF Pixels
<1>5. CASE Shows(AllCells(some)) /\ UNCHANGED lost /\ sent' = sent + 1
  BY <1>3, <1>5, ShowsPixels DEF Pixels
<1>6. CASE lost' = lost \union AllCells(all) /\ UNCHANGED <<sent, shown, again>>
  BY <1>3, <1>6 DEF Pixels
<1> QED
  BY <1>2, <1>4, <1>5, <1>6

\* The number of an update is a natural number.
LEMMA CountNat ==
  ASSUME NEW u \in Updates, NEW shape, NEW m \in CorreMin .. CorreMax, viewer \in Viewers,
         level \in Levels
  PROVE  CountAll(u, shape, m) \in Nat
<1>1. u.copied \in Nat /\ u.cached \in Seq(Rect) /\ u.changed \in Seq(Rect)
  <2>1. u \in UpdateType
    BY MessageAssumption
  <2> QED
    BY <2>1 DEF UpdateType
<1>2. Simple(u) \in Nat
  <2>1. Len(u.cached) \in Nat
    BY <1>1
  <2> QED
    BY <1>1, <2>1 DEF Simple, CacheRects
<1> DEFINE n == AddRects(Simple(u), u.changed, m)
           k == IF cache THEN n ELSE AddRects(n, u.cached, m)
<1>3. n \in Nat
  BY <1>1, <1>2, AddRectsSums
<1> HIDE DEF n
<1>4. k \in Nat
  BY <1>1, <1>3, AddRectsSums
<1>5. CountAll(u, shape, m) = IF k = Marked THEN k ELSE k + One(shape) + One(posChanged)
  BY DEF CountAll, n
<1> HIDE DEF k
<1> QED
  BY <1>4, <1>5 DEF One

\* Every step keeps them.
LEMMA NextTypes ==
  IInv /\ Flags /\ Pixels /\ Numbers /\ [Next]_vars => (Flags /\ Pixels /\ Numbers)'
<1> SUFFICES ASSUME IInv, Flags, Pixels, Numbers, [Next]_vars
             PROVE  (Flags /\ Pixels /\ Numbers)'
  OBVIOUS
<1> USE DEF settings, cursor, corre, queueing, output
<1>1. Types /\ viewer \in Viewers /\ viewer \in ViewerType /\ viewer.lastrect \in BOOLEAN
  <2>1. Types /\ viewer \in Viewers /\ viewer \in ViewerType
    BY MessageAssumption DEF IInv, Types
  <2> QED
    BY <2>1 DEF ViewerType
<1>2. UNCHANGED DOMAIN Blank
  BY DEF Blank
<1>3. CASE CursorMoves
  <2>1. Flags'
    BY <1>3 DEF CursorMoves, Flags
  <2>2. Pixels' /\ Numbers'
    BY <1>2, <1>3 DEF CursorMoves, Pixels, Numbers
  <2> QED
    BY <2>1, <2>2
<1>4. CASE ForgetSettings
  <2>1. Flags'
    BY <1>4 DEF ForgetSettings, Flags
  <2>2. Pixels' /\ Numbers'
    BY <1>2, <1>4 DEF ForgetSettings, Pixels, Numbers
  <2> QED
    BY <2>1, <2>2
<1>5. CASE RestoreSettings
  <2>1. Flags'
    BY <1>1, <1>5 DEF RestoreSettings, Flags
  <2>2. Pixels' /\ Numbers'
    BY <1>2, <1>5 DEF RestoreSettings, Pixels, Numbers
  <2> QED
    BY <2>1, <2>2
<1>6. CASE DisableCache
  <2>1. Flags'
    BY <1>6 DEF DisableCache, Flags
  <2>2. Pixels' /\ Numbers'
    BY <1>2, <1>6 DEF DisableCache, Pixels, Numbers
  <2> QED
    BY <2>1, <2>2
<1>7. ASSUME NEW u \in Updates, NEW shape \in BOOLEAN, Count(u, shape)
      PROVE  (Flags /\ Pixels /\ Numbers)'
  <2>1. maxwidth' \in CorreMin .. CorreMax
    <3>1. maxwidth \in CorreMin .. CorreMax
      BY <1>1 DEF Types
    <3> QED
      BY <1>7, <3>1, AdaptedInBounds DEF Count
  <2>2. Flags'
    <3> DEFINE rs == CountedRects(u)
    <3>1. MarksLast(rs, maxwidth') \in BOOLEAN
      BY DEF MarksLast
    <3>2. /\ asking' = asking /\ lastrect' = lastrect /\ posChanged' = posChanged
          /\ mustBeZipped' = mustBeZipped /\ marked' = FALSE /\ recut' = FALSE
      BY <1>7 DEF Count
    <3>3. /\ pending' = (shape /\ viewer.cursor /\ asking = "asked")
          /\ statsready' = (statsready /\ rs = <<>>)
          /\ disturbed' = (stray \o queue # <<>>)
      BY <1>7 DEF Count
    <3>4. \/ queueEnable' = MarksLast(rs, maxwidth') \/ queueEnable' = queueEnable
      BY <1>7 DEF Count
    <3> HIDE DEF rs
    <3>5. queueEnable' \in BOOLEAN
      BY <3>1, <3>4 DEF Flags
    <3>6. pending' \in BOOLEAN /\ statsready' \in BOOLEAN /\ disturbed' \in BOOLEAN
      BY <3>3
    <3> QED
      BY <3>2, <3>5, <3>6 DEF Flags
  <2>3. Pixels'
    BY <1>7 DEF Count, Pixels
  <2>4. updates' \in Nat
    BY <1>1, <1>7, <2>1, CountNat DEF Count, Types
  <2>5. Numbers'
    BY <1>7, <2>4, MessageAssumption DEF Count, Numbers, Marked
  <2> QED
    BY <2>2, <2>3, <2>5
<1>8. CASE SendHeader
  <2>1. update.copied \in Nat /\ update.cached \in Seq(Rect) /\ Len(update.cached) \in Nat
    <3>1. update.cached \in Seq(Rect)
      BY <1>1, UpdateRects
    <3>2. update \in UpdateType \/ update = NoUpdate
      BY <1>1, MessageAssumption DEF Types
    <3>3. update.copied \in Nat
      BY <3>2 DEF UpdateType, NoUpdate
    <3> QED
      BY <3>1, <3>3
  <2>2. Flags'
    BY <1>8 DEF SendHeader, Flags
  <2>3. Pixels'
    <3>1. AllCells(update.cached) \subseteq DOMAIN Blank
      BY <2>1, AllCellsOfPicture
    <3>2. pc = "counted" /\ again' = again /\ lost' = lost /\ pc' # "counted"
          /\ shown' \in {shown, AllCells(update.cached), {}}
      BY <1>8 DEF SendHeader
    <3> QED
      BY <1>2, <3>1, <3>2 DEF Pixels
  <2>4. sent' \in Nat
    <3>1. Simple(update) \in Nat
      BY <2>1 DEF Simple, CacheRects
    <3>2. \/ sent' = One(pending) + One(posChanged) + update.copied
          \/ sent' = One(pending) + One(posChanged) + Simple(update)
      BY <1>8 DEF SendHeader
    <3> QED
      BY <2>1, <3>1, <3>2 DEF One
  <2>5. Numbers'
    <3>1. /\ announced' = updates % MaxRects /\ updates' = updates /\ marked' = marked
          /\ pc = "counted" /\ (pc' = "between" => disturbed')
      BY <1>8 DEF SendHeader
    <3>2. updates % MaxRects \in 0 .. Marked
      BY MessageAssumption DEF Numbers, Marked
    <3> QED
      BY <2>4, <3>1, <3>2 DEF Numbers
  <2> QED
    BY <2>2, <2>3, <2>5
<1>9. CASE Encode \/ ScanRow \/ ScanEnds
  <2>1. /\ UNCHANGED <<settings, cursor, queueing, pc, updates, announced, output, disturbed,
                       recut>>
        /\ statsready' = (statsready \/ (viewer.encoder = "CoRRE" /\ Larger(Head(todo).rect)))
           \/ statsready' = statsready
    BY <1>9 DEF Encode, ScanRow, ScanEnds
  <2>2. Flags'
    BY <2>1 DEF Flags
  <2>3. Pixels' /\ Numbers'
    BY <1>2, <2>1 DEF Pixels, Numbers
  <2> QED
    BY <2>2, <2>3
<1>10. CASE SendSolid \/ SendPiece
  <2>1. todo # <<>>
    BY <1>10 DEF SendSolid, SendPiece, Top
  <2>2. Head(todo).rect \in Rect /\ Piece(Head(todo)) \in Rect
    BY <2>1, FirstJob, CutIsSound DEF Job, Piece
  <2>3. PICK cells \in SUBSET DOMAIN Blank : Shows(cells)
    BY <1>10, <2>2, CellsOfPicture DEF SendSolid, SendPiece, Piece
  <2>4. /\ UNCHANGED <<settings, cursor, corre, queueing, pc, updates, announced, marked,
                       lost, disturbed, recut>>
        /\ sent' = sent + 1
    BY <1>10 DEF SendSolid, SendPiece
  <2>5. Flags'
    BY <2>4 DEF Flags
  <2>6. Pixels'
    <3>1. pc # "counted"
      BY <1>10 DEF SendSolid, SendPiece, Top
    <3>2. shown' \subseteq DOMAIN Blank /\ again' \subseteq shown'
      BY <2>3, ShowsPixels
    <3> QED
      BY <1>2, <2>4, <3>1, <3>2 DEF Pixels
  <2>7. Numbers'
    BY <2>4 DEF Numbers
  <2> QED
    BY <2>5, <2>6, <2>7
<1>11. ASSUME NEW zip \in BOOLEAN, QueuePiece(zip)
       PROVE  (Flags /\ Pixels /\ Numbers)'
  <2>1. todo # <<>> /\ pc = "rects"
    BY <1>11 DEF QueuePiece, Top
  <2> DEFINE piece == Piece(Head(todo))
             rs == Append(queue, piece)
  <2>2. piece \in Rect
    BY <2>1, CutIsSound DEF Piece
  <2>3. stray \in Seq(Rect) /\ queue \in Seq(Rect)
    BY <1>1 DEF Types
  <2>4. rs \in Seq(Rect)
    BY <2>2, <2>3, AppendRect
  <2>5. \/ Flush(rs, mustBeZipped \/ zip) \/ Unsent \/ Flush(queue, mustBeZipped)
    BY <1>11 DEF QueuePiece
  <2>6. UNCHANGED <<asking, lastrect, cursor, statsready, queueEnable, pc, updates,
                    announced, marked, disturbed, recut>>
    BY <1>11 DEF QueuePiece
  <2>7. mustBeZipped' \in BOOLEAN
    BY <1>11 DEF QueuePiece, Keep, Flags
  <2> HIDE DEF rs
  <2>8. /\ shown' \subseteq DOMAIN Blank /\ again' \subseteq shown'
        /\ lost' \subseteq DOMAIN Blank /\ sent' \in Nat
    <3>1. CASE Unsent
      BY <3>1 DEF Unsent, Pixels, Numbers
    <3> QED
      BY <2>3, <2>4, <2>5, <3>1, FlushPixels DEF Numbers
  <2>9. Flags'
    BY <2>6, <2>7 DEF Flags
  <2>10. Pixels' /\ Numbers'
    BY <1>2, <2>1, <2>6, <2>8 DEF Pixels, Numbers
  <2> QED
    BY <2>9, <2>10
<1>12. CASE EndMessage
  <2>1. stray \in Seq(Rect) /\ queue \in Seq(Rect)
    BY <1>1 DEF Types
  <2>2. /\ pc = "rects" /\ pc' = "between" /\ marked' = (updates = Marked)
        /\ Unsent \/ Flush(queue, mustBeZipped)
        /\ mustBeZipped' = mustBeZipped \/ mustBeZipped' = FALSE
        /\ UNCHANGED <<asking, lastrect, cursor, statsready, queueEnable, updates,
                       announced, disturbed, recut>>
    BY <1>12 DEF EndMessage, LastRect, Keep
  <2>3. /\ shown' \subseteq DOMAIN Blank /\ again' \subseteq shown'
        /\ lost' \subseteq DOMAIN Blank /\ sent' \in Nat
    <3>1. CASE Unsent
      BY <3>1 DEF Unsent, Pixels, Numbers
    <3> QED
      BY <2>1, <2>2, <3>1, FlushPixels DEF Numbers
  <2>4. Flags'
    BY <2>2 DEF Flags
  <2>5. Pixels' /\ Numbers'
    BY <1>2, <2>2, <2>3 DEF Pixels, Numbers
  <2> QED
    BY <2>4, <2>5
<1>13. CASE SetEncoding
  <2>1. Flags'
    BY <1>13 DEF SetEncoding, Flags
  <2>2. Pixels' /\ Numbers'
    BY <1>2, <1>13 DEF SetEncoding, Pixels, Numbers
  <2> QED
    BY <2>1, <2>2
<1>14. CASE UNCHANGED vars
  BY <1>2, <1>14 DEF vars, Flags, Pixels, Numbers
<1> QED
  BY <1>3, <1>4, <1>5, <1>6, <1>7, <1>8, <1>9, <1>10, <1>11, <1>12, <1>13, <1>14
     DEF Next, Encoding

-----------------------------------------------------------------------------
(***************************************************************************)
(* The count is kept.  As long as the last rectangle is not to be marked,  *)
(* what has been sent and the pieces that remain are what was counted; and *)
(* no rectangle is searched or queued, which would make other pieces of it.*)
(***************************************************************************)
Plain(s) == \A i \in DOMAIN s :
                /\ s[i].as \in {"rect", "simple"}
                /\ s[i].as = "rect" => ~Splits(s[i].rect)
                /\ viewer.encoder = "Tight" => s[i].level = level
                /\ viewer.encoder \notin {"Ultra", "ZlibHex"}

Waiting == IF pc = "counted" THEN Tasks("rect", EncodedRects(update), level) ELSE todo
Before  == IF pc = "counted" THEN One(pending) + One(posChanged) + Simple(update) ELSE sent

Kept ==
    ~disturbed /\ ~recut /\ viewer.scale = 1 /\ updates # Marked =>
        IF pc = "between" THEN sent = updates
        ELSE Plain(Waiting) /\ \E n : Remain(Waiting, n, maxwidth) /\ updates = Before + n

\* Jobs one after the other are plain if they are.
LEMMA ConcatPlain ==
  ASSUME NEW s \in Seq(Job), NEW t \in Seq(Job), Plain(s), Plain(t)
  PROVE  Plain(s \o t)
<1> DEFINE u == s \o t
<1>1. \A i \in DOMAIN u : \/ i \in DOMAIN s /\ u[i] = s[i]
                          \/ i - Len(s) \in DOMAIN t /\ u[i] = t[i - Len(s)]
  OBVIOUS
<1> HIDE DEF u
<1>2. Plain(u)
  BY <1>1, Zenon DEF Plain
<1> QED
  BY <1>2 DEF u

\* One plain job, and none.
LEMMA OnePlain ==
  ASSUME NEW t \in Job, t.as = "simple", viewer.encoder \notin {"Ultra", "ZlibHex"},
         viewer.encoder = "Tight" => t.level = level
  PROVE  Plain(<<t>>) /\ Plain(<<>>)
<1>1. DOMAIN <<t>> = {1} /\ <<t>>[1] = t /\ DOMAIN <<>> = {}
  OBVIOUS
<1> QED
  BY <1>1 DEF Plain

\* The first of plain jobs and the others.
LEMMA HeadPlain ==
  ASSUME NEW s \in Seq(Job), s # <<>>, Plain(s)
  PROVE  /\ Plain(Tail(s)) /\ viewer.encoder \notin {"Ultra", "ZlibHex"}
         /\ Head(s).as \in {"rect", "simple"}
         /\ Head(s).as = "rect" => ~Splits(Head(s).rect)
         /\ viewer.encoder = "Tight" => Head(s).level = level
<1>1. /\ 1 \in DOMAIN s /\ s[1] = Head(s)
      /\ \A i \in DOMAIN Tail(s) : i + 1 \in DOMAIN s /\ s[i + 1] = Tail(s)[i]
  OBVIOUS
<1>2. Plain(Tail(s))
  BY <1>1, Zenon DEF Plain
<1> QED
  BY <1>1, <1>2 DEF Plain

\* The rectangles of an update, counted without a mark, are plain jobs with as
\* many pieces as were added.
LEMMA TasksRemain ==
  ASSUME NEW rs \in Seq(Rect), NEW n \in Nat, NEW m \in CorreMin .. CorreMax,
         viewer \in Viewers, level \in Levels, viewer.scale = 1, AddRects(n, rs, m) # Marked
  PROVE  /\ Tasks("rect", rs, level) \in Seq(Job) /\ Plain(Tasks("rect", rs, level))
         /\ Remain(Tasks("rect", rs, level), AddRects(n, rs, m) - n, m)
<1> DEFINE s == Tasks("rect", rs, level)
           c == [i \in 1 .. Len(rs) |-> NumCodedRects(OnServer(rs[i]), m)]
<1>1. ~MarksLast(rs, m)
  BY AddRectsSums
<1>2. PICK f : Adds(f, n, c, Len(rs)) /\ AddRects(n, rs, m) = f[Len(rs)]
  BY AddRectsSums
<1>3. /\ Len(s) = Len(rs) /\ DOMAIN s = 1 .. Len(rs) /\ Len(rs) \in Nat
      /\ \A i \in 1 .. Len(rs) : s[i] = Task("rect", rs[i], level) /\ rs[i] \in Rect
  BY DEF Tasks
<1>4. s \in Seq(Job)
  BY TasksOfRects
<1>5. ASSUME NEW i \in 1 .. Len(rs)
      PROVE  /\ s[i].as = "rect" /\ s[i].rect = rs[i] /\ s[i].level = level /\ ~Splits(rs[i])
             /\ NumCodedRects(OnServer(rs[i]), m) = Pieces(rs[i], m)
             /\ Pieces(rs[i], m) \in Nat /\ viewer.encoder \notin {"Ultra", "ZlibHex"}
  <2>1. rs[i] \in Rect /\ s[i] = Task("rect", rs[i], level) /\ i \in DOMAIN rs
    BY <1>3
  <2>2. NumCodedRects(OnServer(rs[i]), m) # 0
    BY <1>1, <2>1 DEF MarksLast
  <2> QED
    BY <2>1, <2>2, CodedIsPieces, PiecesNat, TaskIsJob
<1> HIDE DEF s
<1>6. Plain(s)
  BY <1>3, <1>5 DEF Plain
<1>7. \A i \in 1 .. Len(rs) : c[i] = Pieces(s[i].rect, m) /\ c[i] \in Nat
  BY <1>5
<1>8. c \in [1 .. Len(rs) -> Nat]
  BY <1>7
<1> HIDE DEF c
<1>9. \A i \in 0 .. Len(rs) : f[i] \in Nat
  BY <1>2, <1>3, <1>8, SumsAreNat
<1> DEFINE g == [i \in 0 .. Len(rs) |-> f[i] - n]
<1>10. Totals(g, s, m)
  <2>1. g \in [0 .. Len(s) -> Int]
    BY <1>3, <1>9
  <2>2. g[0] = 0
    BY <1>2, <1>3 DEF Adds
  <2>3. ASSUME NEW i \in 1 .. Len(s) PROVE g[i] = g[i - 1] + Pieces(s[i].rect, m)
    <3>1. i \in 1 .. Len(rs) /\ i \in 0 .. Len(rs) /\ i - 1 \in 0 .. Len(rs)
      BY <1>3
    <3>2. f[i] = f[i - 1] + c[i] /\ f[i] \in Nat /\ f[i - 1] \in Nat
      BY <1>2, <1>9, <3>1 DEF Adds
    <3>3. g[i] = f[i] - n /\ g[i - 1] = f[i - 1] - n
      BY <3>1
    <3> QED
      BY <1>7, <3>1, <3>2, <3>3
  <2> QED
    BY <2>1, <2>2, <2>3 DEF Totals
<1>11. g[Len(s)] = AddRects(n, rs, m) - n
  BY <1>2, <1>3
<1>12. Remain(s, AddRects(n, rs, m) - n, m)
  BY <1>10, <1>11 DEF Remain
<1> QED
  BY <1>4, <1>6, <1>12 DEF s

\* Tasks of rectangles one after the other.
LEMMA ConcatTasks ==
  ASSUME NEW s \in Seq(Rect), NEW t \in Seq(Rect), NEW l \in Levels
  PROVE  Tasks("rect", s \o t, l) = Tasks("rect", s, l) \o Tasks("rect", t, l)
<1> DEFINE u == s \o t
           a == Tasks("rect", s, l)
           b == Tasks("rect", t, l)
<1>1. /\ Len(u) = Len(s) + Len(t) /\ Len(s) \in Nat /\ Len(t) \in Nat
      /\ DOMAIN u = 1 .. Len(u)
      /\ \A i \in 1 .. Len(u) : u[i] = IF i <= Len(s) THEN s[i] ELSE t[i - Len(s)]
  OBVIOUS
<1>2. /\ a \in Seq(Job) /\ Len(a) = Len(s) /\ b \in Seq(Job) /\ Len(b) = Len(t)
      /\ \A i \in 1 .. Len(s) : a[i] = Task("rect", s[i], l)
      /\ \A i \in 1 .. Len(t) : b[i] = Task("rect", t[i], l)
  <2>1. a \in Seq(Job) /\ b \in Seq(Job)
    BY TasksOfRects
  <2>2. DOMAIN a = 1 .. Len(s) /\ DOMAIN b = 1 .. Len(t)
    BY DEF Tasks
  <2> QED
    BY <1>1, <2>1, <2>2 DEF Tasks
<1>3. Tasks("rect", u, l) = [i \in 1 .. Len(u) |-> Task("rect", u[i], l)]
  BY <1>1 DEF Tasks
<1> HIDE DEF u, a, b
<1> DEFINE w == a \o b
<1>4. /\ w \in Seq(Job) /\ Len(w) = Len(a) + Len(b)
      /\ \A i \in 1 .. Len(w) : w[i] = IF i <= Len(a) THEN a[i] ELSE b[i - Len(a)]
  <2>1. a \in Seq(Job) /\ b \in Seq(Job)
    BY <1>2
  <2>2. w \in Seq(Job) /\ Len(w) = Len(a) + Len(b)
    BY <2>1
  <2>3. \A i \in 1 .. Len(w) : w[i] = IF i <= Len(a) THEN a[i] ELSE b[i - Len(a)]
    BY <2>1
  <2> QED
    BY <2>2, <2>3
<1> HIDE DEF w
<1>5. ASSUME NEW i \in 1 .. Len(u) PROVE w[i] = Task("rect", u[i], l)
  <2>1. i \in 1 .. Len(w)
    BY <1>1, <1>2, <1>4
  <2>2. CASE i <= Len(s)
    <3>1. i \in 1 .. Len(s)
      BY <1>1, <2>2
    <3> QED
      BY <1>1, <1>2, <1>4, <2>1, <2>2, <3>1
  <2>3. CASE i > Len(s)
    <3>1. i - Len(s) \in 1 .. Len(t) /\ ~(i <= Len(s))
      BY <1>1, <2>3
    <3>2. w[i] = b[i - Len(s)] /\ u[i] = t[i - Len(s)]
      BY <1>1, <1>2, <1>4, <2>1, <3>1
    <3> QED
      BY <1>2, <3>1, <3>2
  <2> QED
    BY <1>1, <2>2, <2>3
<1>6. w = [i \in 1 .. Len(u) |-> Task("rect", u[i], l)]
  <2>1. w = [i \in 1 .. Len(w) |-> w[i]]
    BY <1>4
  <2>2. Len(w) = Len(u)
    BY <1>1, <1>2, <1>4
  <2> QED
    BY <1>5, <2>1, <2>2
<1> QED
  BY <1>3, <1>6 DEF u, a, b, w

\* Tasks have the pieces of their rectangles, whatever level was read for them.
LEMMA RelevelRemain ==
  ASSUME NEW rs \in Seq(Rect), NEW k \in Levels, NEW l \in Levels, NEW n, NEW m,
         Remain(Tasks("rect", rs, k), n, m)
  PROVE  Remain(Tasks("rect", rs, l), n, m)
<1> DEFINE s == Tasks("rect", rs, k)
           t == Tasks("rect", rs, l)
<1>1. /\ Len(s) = Len(rs) /\ Len(t) = Len(rs) /\ DOMAIN s = 1 .. Len(rs)
      /\ DOMAIN t = 1 .. Len(rs)
      /\ \A i \in 1 .. Len(rs) : s[i].rect = rs[i] /\ t[i].rect = rs[i]
  BY DEF Tasks, Task
<1> HIDE DEF s, t
<1>2. PICK f : Totals(f, s, m) /\ f[Len(s)] = n
  BY DEF Remain, s
<1>3. Totals(f, t, m) /\ f[Len(t)] = n
  BY <1>1, <1>2 DEF Totals
<1> QED
  BY <1>3 DEF Remain, t

\* The limits of the pieces and of the search, as far as the encoder has any.
LimitsStand == viewer.encoder = "Tight" => level' = level /\ (lastrect' => lastrect)

\* What does not change with the viewer, the size of CoRRE and Tight's limits.
LEMMA KeptBy ==
  ASSUME NEW s, NEW n, NEW m, viewer' = viewer, maxwidth' = m, LimitsStand,
         Waiting' = s, Plain(s), Remain(s, n, m), pc' # "between", updates' = Before' + n
  PROVE  Kept'
<1>1. \A r, k : Pieces(r, k)' = Pieces(r, k)
  <2>1. CASE viewer.encoder = "Tight"
    BY <2>1 DEF Pieces, Wide, High, TightLines, StripLines, LimitsStand
  <2>2. CASE viewer.encoder # "Tight"
    BY <2>2 DEF Pieces, Wide, High, StripLines
  <2> QED
    BY <2>1, <2>2
<1>2. Remain(Waiting, n, maxwidth)'
  BY <1>1, Zenon DEF Remain, Totals
<1>3. \A r : Splits(r)' => Splits(r)
  BY DEF Splits, LimitsStand
<1>4. Plain(Waiting)'
  <2>1. \A i \in DOMAIN s : viewer'.encoder = "Tight" => s[i].level = level'
    BY DEF Plain, LimitsStand
  <2>2. \A i \in DOMAIN s : /\ s[i].as \in {"rect", "simple"}
                             /\ s[i].as = "rect" => ~Splits(s[i].rect)'
                             /\ viewer'.encoder \notin {"Ultra", "ZlibHex"}
    BY <1>3, Zenon DEF Plain
  <2> QED
    BY <2>1, <2>2, Zenon DEF Plain
<1> QED
  BY <1>2, <1>4 DEF Kept

\* Before a message, sent and updates are both 0.
LEMMA InitKept == Init => Kept
  BY DEF Init, Kept

\* What is counted is what the encoders will make.
LEMMA CountKept ==
  ASSUME IInv, Numbers, NEW u \in Updates, NEW shape \in BOOLEAN, Count(u, shape)
  PROVE  Kept'
<1> DEFINE m == maxwidth'
           n == AddRects(Simple(u), u.changed, m)
           k == AddRects(n, u.cached, m)
<1>1. /\ pc' = "counted" /\ update' = u /\ updates' = CountAll(u, pending', m)
      /\ UNCHANGED <<viewer, cache, lastrect, level, posChanged>>
      /\ LimitsStand
  BY DEF Count, settings, LimitsStand
<1>2. viewer \in Viewers /\ level \in Levels /\ m \in CorreMin .. CorreMax
  <2>1. maxwidth \in CorreMin .. CorreMax /\ viewer \in Viewers /\ level \in Levels
    BY DEF IInv, Types
  <2> QED
    BY <2>1, AdaptedInBounds DEF Count
<1>3. u.copied \in Nat /\ u.cached \in Seq(Rect) /\ u.changed \in Seq(Rect)
  <2>1. u \in UpdateType
    BY MessageAssumption
  <2> QED
    BY <2>1 DEF UpdateType
<1>4. Simple(u) \in Nat
  <2>1. Len(u.cached) \in Nat
    BY <1>3
  <2> QED
    BY <1>3, <2>1 DEF Simple, CacheRects
<1>5. n \in Nat /\ k \in Nat
  BY <1>2, <1>3, <1>4, AddRectsSums
<1>6. SUFFICES ASSUME viewer.scale = 1, updates' # Marked PROVE Kept'
  BY <1>1 DEF Kept
<1>7. Waiting' = Tasks("rect", EncodedRects(u), level)
  <2>1. (Tasks("rect", EncodedRects(update), level))' = Tasks("rect", EncodedRects(u), level)
    BY <1>1 DEF EncodedRects, Tasks, Task
  <2> QED
    BY <1>1, <2>1 DEF Waiting
<1>8. Before' = One(pending') + One(posChanged) + Simple(u)
  BY <1>1 DEF Before, Simple, CacheRects, One
<1>9. One(pending') \in Nat /\ One(posChanged) \in Nat
  BY DEF One
<1>10. CountAll(u, pending', m) =
          LET all == IF cache THEN n ELSE k
          IN  IF all = Marked THEN all ELSE all + One(pending') + One(posChanged)
  BY DEF CountAll
<1> HIDE DEF n
<1>11. CASE cache
  <2>1. n # Marked /\ updates' = n + One(pending') + One(posChanged)
    BY <1>1, <1>6, <1>10, <1>11
  <2>2. EncodedRects(u) = u.changed
    BY <1>11 DEF EncodedRects
  <2> DEFINE s == Tasks("rect", u.changed, level)
  <2>3. Plain(s) /\ Remain(s, n - Simple(u), m)
    BY <1>2, <1>3, <1>4, <1>6, <2>1, TasksRemain DEF n
  <2>4. updates' = Before' + (n - Simple(u))
    BY <1>4, <1>5, <1>8, <1>9, <2>1
  <2> HIDE DEF s
  <2>5. Waiting' = s
    BY <1>7, <2>2 DEF s
  <2> QED
    BY <1>1, <2>3, <2>4, <2>5, KeptBy
<1>12. CASE ~cache
  <2>1. k # Marked /\ updates' = k + One(pending') + One(posChanged)
    BY <1>1, <1>6, <1>10, <1>12
  <2>2. EncodedRects(u) = u.cached \o u.changed
    BY <1>12 DEF EncodedRects
  <2>3. n # Marked
    BY <1>2, <1>3, <1>5, <2>1, AddRectsSums
  <2> DEFINE a == Tasks("rect", u.cached, level)
             b == Tasks("rect", u.changed, level)
  <2>4. a \in Seq(Job) /\ Plain(a) /\ Remain(a, k - n, m)
    BY <1>2, <1>3, <1>5, <1>6, <2>1, TasksRemain
  <2>5. b \in Seq(Job) /\ Plain(b) /\ Remain(b, n - Simple(u), m)
    BY <1>2, <1>3, <1>4, <1>6, <2>3, TasksRemain DEF n
  <2>6. Waiting' = a \o b
    BY <1>2, <1>3, <1>7, <2>2, ConcatTasks
  <2> HIDE DEF a, b, k
  <2>7. Plain(a \o b) /\ Remain(a \o b, (k - n) + (n - Simple(u)), m)
    BY <1>2, <2>4, <2>5, ConcatPlain, ConcatRemain
  <2>8. updates' = Before' + ((k - n) + (n - Simple(u)))
    BY <1>4, <1>5, <1>8, <1>9, <2>1
  <2> QED
    BY <1>1, <2>6, <2>7, <2>8, KeptBy
<1> QED
  BY <1>11, <1>12

\* Settings that are taken back change nothing that was counted, or the history
\* says so.
LEMMA SettingsKept ==
  ASSUME IInv, Kept, level' \in Levels, disturbed => disturbed', recut => recut',
         pc = "between" \/ recut' \/ LimitsStand,
         pc = "counted" =>
            disturbed' \/ (One(pending') = One(pending)
                           /\ (cache' = cache \/ update.cached = <<>>)),
         UNCHANGED <<viewer, posChanged, maxwidth, pc, update, updates, todo, sent>>
  PROVE  Kept'
<1>1. SUFFICES ASSUME ~disturbed', ~recut', viewer.scale = 1, updates # Marked PROVE Kept'
  BY DEF Kept
<1>2. CASE pc = "between"
  BY <1>1, <1>2 DEF Kept
<1>3. CASE pc # "between"
  <2>1. PICK n : Plain(Waiting) /\ Remain(Waiting, n, maxwidth) /\ updates = Before + n
    BY <1>1, <1>3 DEF Kept
  <2>2. Plain(Waiting') /\ Remain(Waiting', n, maxwidth) /\ Before' = Before
    <3>1. CASE pc = "counted"
      <4>1. EncodedRects(update)' = EncodedRects(update)
        <5>1. CASE cache' = cache
          BY <5>1 DEF EncodedRects
        <5>2. CASE update.cached = <<>>
          <6>1. update.cached \o update.changed = update.changed
            BY <5>2, UpdateRects DEF IInv
          <6>2. EncodedRects(update) = update.changed
            BY <6>1 DEF EncodedRects
          <6>3. EncodedRects(update)' = update.changed
            BY <5>2, <6>1 DEF EncodedRects
          <6> QED
            BY <6>2, <6>3
        <5> QED
          BY <1>1, <3>1, <5>1, <5>2
      <4> DEFINE rs == EncodedRects(update)
      <4>2. Waiting = Tasks("rect", rs, level) /\ Waiting' = Tasks("rect", rs, level')
        BY <3>1, <4>1 DEF Waiting, Tasks, Task
      <4>5. rs \in Seq(Rect) /\ level \in Levels
        BY UpdateRects DEF IInv, Types
      <4>6. Remain(Waiting', n, maxwidth)
        BY <2>1, <4>2, <4>5, RelevelRemain
      <4>7. Plain(Waiting')
        <5>1. viewer.encoder = "Tight" => level' = level
          BY <1>1, <1>3 DEF LimitsStand
        <5>2. /\ DOMAIN Waiting = DOMAIN rs /\ DOMAIN Waiting' = DOMAIN rs
              /\ \A i \in DOMAIN rs :
                    /\ Waiting'[i].as = Waiting[i].as /\ Waiting'[i].rect = Waiting[i].rect
                    /\ Waiting'[i].level = level'
          BY <4>2 DEF Tasks, Task
        <5> QED
          BY <2>1, <5>1, <5>2, Zenon DEF Plain
      <4>3. Simple(update)' = Simple(update)
        <5>1. CASE cache' = cache
          BY <5>1 DEF Simple, CacheRects
        <5>2. CASE update.cached = <<>>
          <6>1. Len(update.cached) = 0 /\ ~(0 > ZipAbove)
            BY <5>2, MessageAssumption
          <6>2. CacheRects(update) = 0 /\ CacheRects(update)' = 0
            BY <5>2, <6>1 DEF CacheRects
          <6> QED
            BY <6>2 DEF Simple
        <5> QED
          BY <1>1, <3>1, <5>1, <5>2
      <4>4. One(posChanged)' = One(posChanged) /\ One(pending)' = One(pending)
        BY <1>1, <3>1 DEF One
      <4> QED
        BY <3>1, <4>3, <4>4, <4>6, <4>7 DEF Before
    <3>2. CASE pc # "counted"
      BY <2>1, <3>2 DEF Waiting, Before
    <3> QED
      BY <3>1, <3>2
  <2>3. LimitsStand
    BY <1>1, <1>3
  <2> QED
    BY <1>3, <2>1, <2>2, <2>3, KeptBy
<1> QED
  BY <1>2, <1>3

\* The header, and what goes out with it, has been counted as it is sent.
LEMMA SendHeaderKept == IInv /\ Kept /\ SendHeader => Kept'
<1> SUFFICES ASSUME IInv, Kept, SendHeader PROVE Kept'
  OBVIOUS
<1>1. CASE disturbed'
  BY <1>1 DEF Kept
<1>2. CASE ~disturbed'
  <2>1. SUFFICES ASSUME ~recut, viewer.scale = 1, updates # Marked PROVE Kept'
    BY DEF SendHeader, Kept
  <2>2. /\ pc = "counted" /\ pc' = "rects" /\ ~disturbed
        /\ sent' = One(pending) + One(posChanged) + Simple(update)
        /\ todo' = Tasks("rect", EncodedRects(update), level)
        /\ UNCHANGED <<viewer, lastrect, level, maxwidth, updates>>
        /\ LimitsStand
    BY <1>2 DEF SendHeader, settings, corre, LimitsStand
  <2>3. PICK n : Plain(Waiting) /\ Remain(Waiting, n, maxwidth) /\ updates = Before + n
    BY <2>1, <2>2 DEF Kept
  <2>4. Waiting' = Waiting /\ Before' = Before
    BY <2>2 DEF Waiting, Before
  <2> QED
    BY <2>2, <2>3, <2>4, KeptBy
<1> QED
  BY <1>1, <1>2

\* Jobs in the place of the first keep the count if they have the pieces that it
\* had, except those that are sent.
LEMMA ReplacedKept ==
  ASSUME IInv, Numbers, Kept, pc = "rects", todo # <<>>,
         NEW s \in Seq(Job), NEW k \in Int, Plain(s), Remain(s, k, maxwidth),
         sent' + k = sent + Pieces(Head(todo).rect, maxwidth), sent' \in Int,
         todo' = s \o Tail(todo),
         UNCHANGED <<viewer, lastrect, level, maxwidth, pc, updates, disturbed, recut>>
  PROVE  Kept'
<1>1. SUFFICES ASSUME ~disturbed, ~recut, viewer.scale = 1, updates # Marked PROVE Kept'
  BY DEF Kept
<1>2. PICK n : Plain(todo) /\ Remain(todo, n, maxwidth) /\ updates = sent + n
  BY <1>1 DEF Kept, Waiting, Before
<1> DEFINE q == Pieces(Head(todo).rect, maxwidth)
<1>3. /\ todo \in Seq(Job) /\ Tail(todo) \in Seq(Job) /\ maxwidth \in CorreMin .. CorreMax
      /\ level \in Levels /\ sent \in Nat /\ q \in Nat
  <2>1. Head(todo).rect \in Rect
    BY FirstJob
  <2> QED
    BY <2>1, PiecesNat DEF IInv, Types, Numbers
<1> HIDE DEF q
<1>4. Remain(Tail(todo), n - q, maxwidth) /\ n \in Int /\ Plain(Tail(todo))
  BY <1>2, <1>3, TailRemain, HeadPlain DEF q
<1>5. Remain(s \o Tail(todo), k + (n - q), maxwidth)
  BY <1>3, <1>4, ConcatRemain
<1>6. Plain(s \o Tail(todo))
  BY <1>3, <1>4, ConcatPlain
<1>7. Waiting' = s \o Tail(todo) /\ Before' = sent'
  BY DEF Waiting, Before
<1>8. updates' = Before' + (k + (n - q))
  <2>1. sent' + k = sent + q /\ sent' \in Int /\ k \in Int
    BY DEF q
  <2>2. updates' = sent + n /\ Before' = sent'
    BY <1>2, <1>7
  <2>3. sent \in Int /\ q \in Int /\ n \in Int
    BY <1>3, <1>4
  <2>4. \A i, j \in Int : i + k = j + q => i + (k + (n - q)) = j + n
    BY <2>1, <2>3
  <2>5. sent' + (k + (n - q)) = sent + n
    BY <2>1, <2>3, <2>4
  <2> QED
    BY <2>2, <2>5
<1>9. LimitsStand
  BY DEF LimitsStand
<1> QED
  BY <1>5, <1>6, <1>7, <1>8, <1>9, KeptBy

\* While a message is encoded that is not to be marked, nothing is searched.
LEMMA EncodingKept ==
  ASSUME IInv, Numbers, Kept, Encoding
  PROVE  Kept'
<1>1. /\ pc = "rects" /\ todo # <<>> /\ sent \in Nat
      /\ UNCHANGED <<viewer, lastrect, level, maxwidth, pc, updates, disturbed, recut>>
  BY DEF Encoding, Encode, ScanRow, ScanEnds, SendSolid, SendPiece, QueuePiece, Top,
         settings, corre, Numbers
<1>2. SUFFICES ASSUME ~disturbed, ~recut, viewer.scale = 1, updates # Marked PROVE Kept'
  BY <1>1 DEF Kept
<1>3. PICK n : Plain(todo) /\ Remain(todo, n, maxwidth) /\ updates = sent + n
  BY <1>1, <1>2 DEF Kept, Waiting, Before
<1>4. todo \in Seq(Job) /\ level \in Levels /\ maxwidth \in CorreMin .. CorreMax
  BY DEF IInv, Types
<1> DEFINE t == Head(todo)
           r == t.rect
           l == t.level
<1>5. /\ t.as \in {"rect", "simple"} /\ (t.as = "rect" => ~Splits(r))
      /\ viewer.encoder = "Tight" => l = level
      /\ viewer.encoder \notin {"Ultra", "ZlibHex"}
  BY <1>1, <1>3, <1>4, HeadPlain
<1>6. r \in Rect /\ l \in Levels
  BY <1>1, FirstJob DEF Job
<1>7. CASE Encode
  <2> DEFINE j == Task("simple", r, level)
  <2>1. j \in Job /\ j.rect = r /\ j.as = "simple" /\ j.level = level
    BY <1>4, <1>6, TaskIsJob
  <2>2. todo' = <<j>> \o Tail(todo) /\ sent' = sent
    BY <1>5, <1>7 DEF Encode, Top, output
  <2> HIDE DEF j
  <2>3. <<j>> \in Seq(Job) /\ Plain(<<j>>)
    BY <1>5, <2>1, OnePlain
  <2>4. Remain(<<j>>, Pieces(r, maxwidth), maxwidth) /\ Pieces(r, maxwidth) \in Int
    BY <1>4, <1>6, <2>1, OneRemains, PiecesNat
  <2> DEFINE k == Pieces(r, maxwidth)
  <2>5. k \in Int /\ sent' + k = sent + Pieces(Head(todo).rect, maxwidth) /\ sent' \in Int
    BY <1>1, <2>2, <2>4
  <2>6. Remain(<<j>>, k, maxwidth)
    BY <2>4
  <2> HIDE DEF k
  <2> QED
    BY <1>1, <2>2, <2>3, <2>5, <2>6, ReplacedKept
<1>8. CASE ScanRow \/ ScanEnds \/ SendSolid
  BY <1>5, <1>8 DEF ScanRow, ScanEnds, SendSolid, Top
<1>9. CASE SendPiece
  <2> DEFINE a == Cut(r, l).right
             b == Cut(r, l).below
             s == Todo("simple", a, l) \o Todo("simple", b, l)
  <2>1. todo' = s \o Tail(todo) /\ sent' = sent + 1
    BY <1>1, <1>9, CutIsSound DEF SendPiece, Rest, After
  <2>2. /\ a \in Span /\ b \in Span
        /\ NonEmpty(a) => a \in Rect
        /\ NonEmpty(b) => b \in Rect
    BY <1>6, CutCovers, PiecesPositive DEF IInv, Types
  <2>3. Pieces(r, maxwidth) = 1 + PartPieces(a, maxwidth) + PartPieces(b, maxwidth)
    BY <1>4, <1>5, <1>6, CutCounts
  <2> HIDE DEF a, b
  <2>4. ASSUME NEW c \in {a, b}
        PROVE  /\ Todo("simple", c, l) \in Seq(Job) /\ Plain(Todo("simple", c, l))
               /\ Remain(Todo("simple", c, l), PartPieces(c, maxwidth), maxwidth)
               /\ PartPieces(c, maxwidth) \in Int
    <3>1. CASE NonEmpty(c)
      <4> DEFINE j == Task("simple", c, l)
      <4>1. c \in Rect /\ j \in Job /\ j.rect = c /\ j.as = "simple" /\ j.level = l
        BY <1>6, <2>2, <3>1, TaskIsJob
      <4>2. Todo("simple", c, l) = <<j>> /\ PartPieces(c, maxwidth) = Pieces(c, maxwidth)
        BY <3>1 DEF Todo, PartPieces
      <4> HIDE DEF j
      <4>3. <<j>> \in Seq(Job) /\ Plain(<<j>>)
        BY <1>5, <4>1, OnePlain
      <4>4. Remain(<<j>>, Pieces(c, maxwidth), maxwidth) /\ Pieces(c, maxwidth) \in Int
        BY <1>4, <4>1, OneRemains, PiecesNat
      <4> QED
        BY <4>2, <4>3, <4>4
    <3>2. CASE ~NonEmpty(c)
      <4> DEFINE none == <<>>
      <4>1. Todo("simple", c, l) = none /\ PartPieces(c, maxwidth) = 0
        BY <3>2 DEF Todo, PartPieces
      <4>2. none \in Seq(Job) /\ DOMAIN none = {} /\ Remain(none, 0, maxwidth)
        BY NoneRemain
      <4> HIDE DEF none
      <4>3. Plain(none)
        BY <4>2 DEF Plain
      <4>4. Todo("simple", c, l) \in Seq(Job)
        BY <4>1, <4>2
      <4>5. Plain(Todo("simple", c, l))
        BY <4>1, <4>3
      <4>6. Remain(Todo("simple", c, l), PartPieces(c, maxwidth), maxwidth)
        BY <4>1, <4>2
      <4>7. PartPieces(c, maxwidth) \in Int
        BY <4>1
      <4> QED
        BY <4>4, <4>5, <4>6, <4>7
    <3> QED
      BY <3>1, <3>2
  <2> DEFINE k == PartPieces(a, maxwidth) + PartPieces(b, maxwidth)
  <2>5. s \in Seq(Job) /\ Plain(s) /\ Remain(s, k, maxwidth)
    <3> DEFINE left == Todo("simple", a, l)
               rest == Todo("simple", b, l)
    <3>1. /\ left \in Seq(Job) /\ Plain(left) /\ Remain(left, PartPieces(a, maxwidth), maxwidth)
          /\ rest \in Seq(Job) /\ Plain(rest) /\ Remain(rest, PartPieces(b, maxwidth), maxwidth)
      BY <2>4
    <3> HIDE DEF left, rest
    <3>2. left \o rest \in Seq(Job)
      BY <3>1
    <3>3. Plain(left \o rest)
      BY <3>1, ConcatPlain
    <3>4. Remain(left \o rest, k, maxwidth)
      BY <1>4, <3>1, ConcatRemain
    <3> QED
      BY <3>2, <3>3, <3>4 DEF left, rest
  <2>6. k \in Int /\ sent' + k = sent + Pieces(Head(todo).rect, maxwidth) /\ sent' \in Int
    <3>1. PartPieces(a, maxwidth) \in Int /\ PartPieces(b, maxwidth) \in Int
      BY <2>4
    <3>2. k \in Int /\ Pieces(Head(todo).rect, maxwidth) = 1 + k
      BY <2>3, <3>1
    <3> HIDE DEF k
    <3> QED
      BY <1>1, <2>1, <3>2
  <2> HIDE DEF s, k
  <2> QED
    BY <1>1, <2>1, <2>5, <2>6, ReplacedKept
<1>10. CASE \E zip \in BOOLEAN : QueuePiece(zip)
  <2>1. Queueing
    BY <1>5, <1>10 DEF QueuePiece, Queues, Queueing
  <2>2. updates = Marked
    BY <1>1, <1>2, <2>1 DEF IInv, Covered
  <2> QED
    BY <1>2, <2>2
<1> QED
  BY <1>7, <1>8, <1>9, <1>10 DEF Encoding

\* The count is kept to the end.
LEMMA NextKept == IInv /\ Flags /\ Numbers /\ Kept /\ [Next]_vars => Kept'
<1> SUFFICES ASSUME IInv, Flags, Numbers, Kept, [Next]_vars PROVE Kept'
  OBVIOUS
<1>1. CASE CursorMoves
  <2>1. /\ UNCHANGED <<viewer, updates, sent, pc>>
        /\ pc = "between" \/ disturbed'
        /\ disturbed => disturbed'
        /\ recut' = recut
    BY <1>1 DEF CursorMoves, output
  <2> QED
    BY <2>1 DEF Kept
<1>2. CASE ForgetSettings
  <2>1. /\ ~lastrect' /\ cache' = FALSE /\ ~pending' /\ level' \in Levels
        /\ disturbed' = (disturbed \/ CountedOn)
        /\ recut' = (recut \/ (CutByLevel /\ level' # level))
        /\ UNCHANGED <<viewer, posChanged, maxwidth, pc, update, updates, todo, sent>>
    BY <1>2, MessageAssumption DEF ForgetSettings, corre, output
  <2>2. cache \in BOOLEAN
    BY DEF IInv, Types
  <2>3. pc = "counted" => disturbed' \/ (One(pending') = One(pending)
                           /\ (cache' = cache \/ update.cached = <<>>))
    BY <2>1, <2>2 DEF CountedOn, One
  <2>4. pc = "between" \/ recut' \/ LimitsStand
    BY <2>1 DEF CutByLevel, LimitsStand
  <2> QED
    BY <2>1, <2>3, <2>4, SettingsKept
<1>3. CASE RestoreSettings
  <2>1. /\ asking = "chosen" /\ level' = viewer.level
        /\ disturbed' = (disturbed \/ (pc = "counted" /\ cache' /\ update.cached # <<>>))
        /\ recut' = (recut \/ (CutByLevel /\ (level' # level \/ lastrect' # lastrect)))
        /\ cache' = viewer.cache
        /\ UNCHANGED <<viewer, pending, posChanged, maxwidth, pc, update, updates, todo, sent>>
    BY <1>3 DEF RestoreSettings, cursor, corre, output
  <2>2. ~cache /\ cache \in BOOLEAN
    BY <2>1 DEF IInv, Types
  <2>3. level' \in Levels /\ cache' \in BOOLEAN
    <3>1. viewer \in ViewerType
      BY MessageAssumption DEF IInv, Types
    <3> QED
      BY <2>1, <3>1 DEF ViewerType
  <2>4. pc = "counted" =>
            disturbed' \/ (One(pending') = One(pending)
                           /\ (cache' = cache \/ update.cached = <<>>))
    <3>1. One(pending') = One(pending)
      BY <2>1
    <3>2. CASE cache' = TRUE
      BY <2>1, <3>1, <3>2, Zenon
    <3>3. CASE cache' = FALSE
      <4>1. cache' = cache
        BY <2>2, <3>3
      <4> QED
        BY <3>1, <4>1
    <3> QED
      BY <2>3, <3>2, <3>3
  <2>5. pc = "between" \/ recut' \/ LimitsStand
    <3>1. CASE level' = level /\ lastrect' = lastrect
      BY <3>1, Zenon DEF LimitsStand
    <3>2. CASE level' # level \/ lastrect' # lastrect
      BY <2>1, <3>2, Zenon DEF CutByLevel, LimitsStand
    <3> QED
      BY <3>1, <3>2
  <2> QED
    BY <2>1, <2>3, <2>4, <2>5, SettingsKept
<1>4. CASE DisableCache
  <2>1. /\ cache' = FALSE /\ disturbed' = (disturbed \/ (pc = "counted" /\ update.cached # <<>>))
        /\ UNCHANGED <<viewer, lastrect, level, pending, posChanged, maxwidth, pc, update,
                       updates, todo, sent, recut>>
        /\ level' \in Levels /\ LimitsStand
    BY <1>4 DEF DisableCache, cursor, corre, output, IInv, Types, LimitsStand
  <2> QED
    BY <2>1, SettingsKept
<1>5. CASE \E u \in Updates, shape \in BOOLEAN : Count(u, shape)
  BY <1>5, CountKept
<1>6. CASE SendHeader
  BY <1>6, SendHeaderKept
<1>7. CASE Encoding
  BY <1>7, EncodingKept
<1>8. CASE EndMessage
  <2>1. /\ pc = "rects" /\ todo = <<>> /\ pc' = "between" /\ (updates # Marked => sent' = sent)
        /\ UNCHANGED <<viewer, updates, disturbed, recut>>
    BY <1>8 DEF EndMessage, Unsent
  <2>2. SUFFICES ASSUME ~disturbed, ~recut, viewer.scale = 1, updates # Marked PROVE sent = updates
    BY <2>1 DEF Kept
  <2>3. PICK n : Remain(<<>>, n, maxwidth) /\ updates = sent + n
    BY <2>1, <2>2 DEF Kept, Waiting, Before
  <2>4. n = 0
    BY <2>3, NoneRemain
  <2> QED
    BY <2>3, <2>4 DEF Numbers
<1>9. CASE SetEncoding
  <2>1. /\ asking = "forgotten" /\ recut' = (recut \/ (pc = "counted" /\ maxwidth' # maxwidth))
        /\ pc # "rects"
        /\ UNCHANGED <<viewer, lastrect, level, cache, pending, posChanged, pc, update, updates,
                       todo, sent, disturbed>>
    BY <1>9 DEF SetEncoding, cursor, output
  <2>2. CASE pc = "between"
    BY <2>1, <2>2 DEF Kept
  <2>3. CASE pc = "counted" /\ maxwidth' # maxwidth
    BY <2>1, <2>3 DEF Kept
  <2>4. CASE maxwidth' = maxwidth
    <3>1. level' \in Levels /\ LimitsStand
      BY <2>1 DEF LimitsStand, IInv, Types
    <3> QED
      BY <2>1, <2>4, <3>1, SettingsKept
  <2> QED
    BY <2>1, <2>2, <2>3, <2>4 DEF IInv, Types
<1>10. CASE UNCHANGED vars
  <2>1. UNCHANGED <<viewer, lastrect, level, cache, pending, posChanged, maxwidth, pc, update,
                    updates, todo, sent, disturbed, recut>>
        /\ level' \in Levels /\ LimitsStand
    BY <1>10 DEF vars, settings, cursor, corre, output, IInv, Types, LimitsStand
  <2> QED
    BY <2>1, SettingsKept
<1> QED
  BY <1>1, <1>2, <1>3, <1>4, <1>5, <1>6, <1>7, <1>8, <1>9, <1>10 DEF Next

-----------------------------------------------------------------------------
(***************************************************************************)
(* No pixel twice.  A pixel that only one rectangle of an update has is in *)
(* one place at most: it is shown, it waits in the queue, or one of the    *)
(* jobs will send it.                                                      *)
(***************************************************************************)
Searching == viewer.encoder = "Tight" /\ viewer.lastrect

OnlyOnce(p, s) ==
    \A i, j \in DOMAIN s : p \in Cells(s[i].rect) /\ p \in Cells(s[j].rect) => i = j

InOnePlace(p) ==
    /\ p \in shown => p \notin AllCells(queue) /\ p \notin TodoCells(todo)
    /\ p \in AllCells(queue) => p \notin TodoCells(todo)
    /\ OnlyOnce(p, todo)

Once ==
    /\ lastrect => viewer.lastrect
    /\ ~disturbed /\ ~Searching =>
          /\ again \subseteq GivenTwice(update)
          /\ pc = "rects" =>
                /\ \A i \in DOMAIN todo : todo[i].as \in {"rect", "simple"}
                /\ \A p : p \notin GivenTwice(update) => InOnePlace(p)

\* No two parts of a cut have a pixel.
LEMMA CutApart ==
  ASSUME NEW r \in Rect, NEW l,
         PieceWidth(r, l) \in Nat \ {0}, PieceHeight(r, l) \in Nat \ {0}
  PROVE  LET c == Cut(r, l) IN
         /\ Cells(c.piece) \intersect Cells(c.right) = {}
         /\ Cells(c.piece) \intersect Cells(c.below) = {}
         /\ Cells(c.right) \intersect Cells(c.below) = {}
<1> DEFINE c == Cut(r, l)
           w == Least(r.w, PieceWidth(r, l))
           h == Least(r.h, PieceHeight(r, l))
<1>1. /\ w \in 1 .. r.w /\ h \in 1 .. r.h
  BY MessageAssumption DEF Least, Rect
<1>2. /\ c.piece = Box(r.x, r.y, w, h)
      /\ c.right = Box(r.x + w, r.y, r.w - w, h)
      /\ c.below = Box(r.x, r.y + h, r.w, r.h - h)
  BY DEF Cut
<1>3. c.piece \in Rect /\ c.piece \in Span /\ c.right \in Span /\ c.below \in Span
  BY CutCovers, RectIsSpan
<1>4. r \in Span
  BY RectIsSpan
<1> HIDE DEF w, h, c
<1>5. ASSUME NEW p \in Nat \X Nat
      PROVE  /\ ~(Within(p, c.piece) /\ Within(p, c.right))
             /\ ~(Within(p, c.piece) /\ Within(p, c.below))
             /\ ~(Within(p, c.right) /\ Within(p, c.below))
  BY <1>1, <1>2, <1>4 DEF Within, Box, Span
<1> QED
  BY <1>3, <1>5, InCells DEF c

\* A pixel in one of two lists of jobs that have it once, but not in both.
LEMMA ConcatOnce ==
  ASSUME NEW s \in Seq(Job), NEW t \in Seq(Job), NEW p, OnlyOnce(p, s), OnlyOnce(p, t),
         p \notin TodoCells(s) \/ p \notin TodoCells(t)
  PROVE  OnlyOnce(p, s \o t)
<1> DEFINE u == s \o t
<1>1. \A i \in DOMAIN u : \/ i \in DOMAIN s /\ u[i] = s[i]
                          \/ /\ i - Len(s) \in DOMAIN t /\ u[i] = t[i - Len(s)]
                             /\ i \in Int /\ Len(s) \in Int
  OBVIOUS
<1> HIDE DEF u
<1>2. SUFFICES ASSUME NEW i \in DOMAIN u, NEW j \in DOMAIN u,
                      p \in Cells(u[i].rect), p \in Cells(u[j].rect)
               PROVE  i = j
  BY DEF OnlyOnce, u
<1>3. \A k \in DOMAIN s : p \in Cells(s[k].rect) => p \in TodoCells(s)
  BY DEF TodoCells
<1>4. \A k \in DOMAIN t : p \in Cells(t[k].rect) => p \in TodoCells(t)
  BY DEF TodoCells
<1>5. CASE /\ i \in DOMAIN s /\ u[i] = s[i] /\ j \in DOMAIN s /\ u[j] = s[j]
  BY <1>2, <1>5 DEF OnlyOnce
<1>6. CASE /\ i - Len(s) \in DOMAIN t /\ u[i] = t[i - Len(s)] /\ i \in Int
           /\ j - Len(s) \in DOMAIN t /\ u[j] = t[j - Len(s)] /\ j \in Int /\ Len(s) \in Int
  <2>1. i - Len(s) = j - Len(s)
    BY <1>2, <1>6 DEF OnlyOnce
  <2> QED
    BY <1>6, <2>1
<1>7. CASE /\ i \in DOMAIN s /\ u[i] = s[i]
           /\ j - Len(s) \in DOMAIN t /\ u[j] = t[j - Len(s)]
  BY <1>2, <1>3, <1>4, <1>7
<1>8. CASE /\ j \in DOMAIN s /\ u[j] = s[j]
           /\ i - Len(s) \in DOMAIN t /\ u[i] = t[i - Len(s)]
  BY <1>2, <1>3, <1>4, <1>8
<1> QED
  BY <1>1, <1>5, <1>6, <1>7, <1>8

\* One job, and the jobs without the first.
LEMMA OneOnce ==
  ASSUME NEW t, NEW p
  PROVE  OnlyOnce(p, <<t>>) /\ OnlyOnce(p, <<>>)
<1>1. DOMAIN <<t>> = {1} /\ DOMAIN <<>> = {}
  OBVIOUS
<1> QED
  BY <1>1 DEF OnlyOnce

\* The first job and the others do not have it both.
LEMMA TailOnce ==
  ASSUME NEW s \in Seq(Job), s # <<>>, NEW p, OnlyOnce(p, s)
  PROVE  /\ OnlyOnce(p, Tail(s))
         /\ p \in Cells(Head(s).rect) => p \notin TodoCells(Tail(s))
<1>1. /\ 1 \in DOMAIN s /\ s[1] = Head(s)
      /\ \A i \in DOMAIN Tail(s) : i \in Nat \ {0} /\ i + 1 \in DOMAIN s /\ s[i + 1] = Tail(s)[i]
  OBVIOUS
<1> DEFINE t == Tail(s)
<1> HIDE DEF t
<1>2. OnlyOnce(p, t)
  <2>1. SUFFICES ASSUME NEW i \in DOMAIN t, NEW j \in DOMAIN t,
                        p \in Cells(t[i].rect), p \in Cells(t[j].rect)
                 PROVE  i = j
    BY DEF OnlyOnce
  <2>2. /\ i \in Nat /\ i + 1 \in DOMAIN s /\ s[i + 1] = t[i]
        /\ j \in Nat /\ j + 1 \in DOMAIN s /\ s[j + 1] = t[j]
    BY <1>1 DEF t
  <2>3. i + 1 = j + 1
    BY <2>1, <2>2 DEF OnlyOnce
  <2> QED
    BY <2>2, <2>3
<1>3. ASSUME p \in Cells(Head(s).rect), p \in TodoCells(t) PROVE FALSE
  <2>1. PICK i \in DOMAIN t : p \in Cells(t[i].rect)
    BY <1>3 DEF TodoCells
  <2>2. i \in Nat \ {0} /\ i + 1 \in DOMAIN s /\ s[i + 1] = t[i]
    BY <1>1 DEF t
  <2>3. 1 = i + 1
    BY <1>1, <1>3, <2>1, <2>2 DEF OnlyOnce
  <2> QED
    BY <2>2, <2>3
<1> QED
  BY <1>2, <1>3 DEF t

\* The tasks of rectangles have a pixel once that one of them only has.
LEMMA TasksOnce ==
  ASSUME NEW rs \in Seq(Rect), NEW l, NEW p,
         \A i, j \in DOMAIN rs : p \in Cells(rs[i]) /\ p \in Cells(rs[j]) => i = j
  PROVE  OnlyOnce(p, Tasks("rect", rs, l))
<1>1. /\ DOMAIN Tasks("rect", rs, l) = DOMAIN rs
      /\ \A i \in DOMAIN rs : Tasks("rect", rs, l)[i].rect = rs[i]
  BY DEF Tasks, Task
<1> QED
  BY <1>1, Zenon DEF OnlyOnce

\* A pixel that is not given twice is in one rectangle of the update.
LEMMA NotTwice ==
  ASSUME NEW u, u.cached \in Seq(Rect), u.changed \in Seq(Rect), NEW p, p \notin GivenTwice(u)
  PROVE  /\ \A i, j \in DOMAIN u.changed :
                p \in Cells(u.changed[i]) /\ p \in Cells(u.changed[j]) => i = j
         /\ \A i, j \in DOMAIN (u.cached \o u.changed) :
                p \in Cells((u.cached \o u.changed)[i])
                    /\ p \in Cells((u.cached \o u.changed)[j]) => i = j
         /\ p \in AllCells(u.cached) => p \notin AllCells(u.changed)
<1> DEFINE a == u.cached
           b == u.changed
           w == a \o b
<1>01. a \in Seq(Rect) /\ b \in Seq(Rect)
  OBVIOUS
<1> HIDE DEF a, b
<1>1. /\ Len(a) \in Nat
      /\ \A i \in DOMAIN a : i \in DOMAIN w /\ w[i] = a[i] /\ i <= Len(a) /\ i \in Nat
      /\ \A i \in DOMAIN b : i + Len(a) \in DOMAIN w /\ w[i + Len(a)] = b[i] /\ i \in Nat \ {0}
  BY <1>01
<1>2. GivenTwice(u) = {q \in AllCells(w) :
                          \E i, j \in DOMAIN w : i # j /\ q \in Cells(w[i]) \intersect Cells(w[j])}
  BY DEF GivenTwice, a, b
<1> HIDE DEF w
<1>3. ASSUME NEW i \in DOMAIN w, NEW j \in DOMAIN w, p \in Cells(w[i]), p \in Cells(w[j])
      PROVE  i = j
  <2>1. p \in AllCells(w)
    BY <1>3 DEF AllCells
  <2> QED
    BY <1>2, <1>3, <2>1
<1>4. ASSUME NEW i \in DOMAIN b, NEW j \in DOMAIN b, p \in Cells(b[i]), p \in Cells(b[j])
      PROVE  i = j
  <2>1. i + Len(a) = j + Len(a)
    BY <1>1, <1>3, <1>4
  <2>2. i \in Nat /\ j \in Nat /\ Len(a) \in Nat
    BY <1>1
  <2> QED
    BY <2>1, <2>2
<1>5. ASSUME p \in AllCells(a), p \in AllCells(b) PROVE FALSE
  <2>1. PICK i \in DOMAIN a : p \in Cells(a[i])
    BY <1>5 DEF AllCells
  <2>2. PICK j \in DOMAIN b : p \in Cells(b[j])
    BY <1>5 DEF AllCells
  <2>3. i = j + Len(a)
    BY <1>1, <1>3, <2>1, <2>2
  <2>4. i <= Len(a) /\ i \in Nat /\ j \in Nat \ {0} /\ Len(a) \in Nat
    BY <1>1
  <2> QED
    BY <2>3, <2>4
<1> QED
  BY <1>3, <1>4, <1>5 DEF a, b, w

\* Before the first message nothing is anywhere.
LEMMA InitOnce == Init => Once
<1> SUFFICES ASSUME Init PROVE Once
  OBVIOUS
<1>1. (lastrect => viewer.lastrect) /\ again = {} /\ pc = "between"
  BY DEF Init
<1> QED
  BY <1>1 DEF Once

\* What changes nothing but settings.
LEMMA OnceStays ==
  ASSUME Once, lastrect' => lastrect \/ viewer.lastrect, disturbed => disturbed',
         UNCHANGED <<viewer, pc, update, todo, shown, again, queue>>
  PROVE  Once'
<1>1. Searching' <=> Searching
  BY DEF Searching
<1>2. \A p : InOnePlace(p) => InOnePlace(p)'
  BY DEF InOnePlace, AllCells, TodoCells, OnlyOnce, Cells
<1> QED
  BY <1>1, <1>2 DEF Once

\* Jobs in the place of the first, and what is sent and queued of it.
LEMMA ReplacedOnce ==
  ASSUME IInv, Once, pc = "rects", todo # <<>>,
         NEW s \in Seq(Job), NEW done, NEW out,
         ~Searching => \A i \in DOMAIN s : s[i].as \in {"rect", "simple"},
         \A p : OnlyOnce(p, s),
         todo' = s \o Tail(todo),
         done \union TodoCells(s) \subseteq Cells(Head(todo).rect),
         done \intersect TodoCells(s) = {},
         shown' = shown \union out, again' = again \union (shown \intersect out),
         out \union AllCells(queue') \subseteq AllCells(queue) \union done,
         \/ out \intersect AllCells(queue') = {}
         \/ out \subseteq AllCells(queue) /\ AllCells(queue') \subseteq done
         \/ out \subseteq done /\ AllCells(queue') = AllCells(queue),
         UNCHANGED <<viewer, lastrect, pc, update, disturbed>>
  PROVE  Once'
<1>1. /\ todo \in Seq(Job) /\ Tail(todo) \in Seq(Job)
      /\ TodoCells(todo) = Cells(Head(todo).rect) \union TodoCells(Tail(todo))
      /\ TodoCells(s \o Tail(todo)) = TodoCells(s) \union TodoCells(Tail(todo))
  <2>1. todo \in Seq(Job)
    BY DEF IInv, Types
  <2>2. Tail(todo) \in Seq(Job)
    BY <2>1, HeadAndTail
  <2> QED
    BY <2>1, <2>2, HeadAndTail, ConcatCells
<1>2. SUFFICES ASSUME ~disturbed, ~Searching
      PROVE  /\ again' \subseteq GivenTwice(update)
             /\ \A i \in DOMAIN todo' : todo'[i].as \in {"rect", "simple"}
             /\ \A p : p \notin GivenTwice(update) => InOnePlace(p)'
  BY DEF Once, Searching
<1>3. /\ again \subseteq GivenTwice(update)
      /\ \A i \in DOMAIN todo : todo[i].as \in {"rect", "simple"}
      /\ \A p : p \notin GivenTwice(update) => InOnePlace(p)
  BY <1>2 DEF Once
<1>4. again' \subseteq GivenTwice(update)
  <2>1. ASSUME NEW p \in shown \intersect out, p \notin GivenTwice(update) PROVE FALSE
    <3>1. p \notin AllCells(queue) /\ p \notin TodoCells(todo)
      BY <1>3, <2>1 DEF InOnePlace
    <3> QED
      BY <1>1, <2>1, <3>1
  <2> QED
    BY <1>3, <2>1
<1>5. \A i \in DOMAIN todo' : todo'[i].as \in {"rect", "simple"}
  <2> DEFINE u == s \o Tail(todo)
  <2>1. \A i \in DOMAIN u : \/ i \in DOMAIN s /\ u[i] = s[i]
                            \/ i - Len(s) \in DOMAIN Tail(todo) /\ u[i] = Tail(todo)[i - Len(s)]
    BY <1>1
  <2>2. \A i \in DOMAIN Tail(todo) : i + 1 \in DOMAIN todo /\ Tail(todo)[i] = todo[i + 1]
    BY <1>1
  <2>3. todo' = u
    OBVIOUS
  <2> HIDE DEF u
  <2>4. \A i \in DOMAIN u : u[i].as \in {"rect", "simple"}
    BY <1>2, <1>3, <2>1, <2>2
  <2> QED
    BY <2>3, <2>4
<1>6. ASSUME NEW p, p \notin GivenTwice(update) PROVE InOnePlace(p)'
  <2>1. InOnePlace(p)
    BY <1>3, <1>6
  <2>2. /\ OnlyOnce(p, Tail(todo))
        /\ p \in Cells(Head(todo).rect) => p \notin TodoCells(Tail(todo))
    BY <1>1, <2>1, TailOnce DEF InOnePlace
  <2>3. TodoCells(todo') = TodoCells(s) \union TodoCells(Tail(todo))
    BY <1>1
  <2>4. p \in shown' => p \notin AllCells(queue') /\ p \notin TodoCells(todo')
    BY <1>1, <2>1, <2>2, <2>3 DEF InOnePlace
  <2>5. p \in AllCells(queue') => p \notin TodoCells(todo')
    BY <1>1, <2>1, <2>2, <2>3 DEF InOnePlace
  <2>6. OnlyOnce(p, todo')
    <3>1. OnlyOnce(p, s \o Tail(todo))
      BY <1>1, <2>2, ConcatOnce
    <3> QED
      BY <3>1
  <2> QED
    BY <2>4, <2>5, <2>6 DEF InOnePlace
<1> QED
  BY <1>4, <1>5, <1>6

\* What a cut leaves to do is of what is not sent, and each pixel of it is once.
LEMMA CutOnce ==
  ASSUME IInv, todo # <<>>
  PROVE  LET l == Head(todo).level
             c == Cut(Head(todo).rect, l)
             s == Todo("simple", c.right, l) \o Todo("simple", c.below, l)
         IN  /\ Rest(Head(todo)) = s \o Tail(todo) /\ s \in Seq(Job) /\ c.piece \in Rect
             /\ \A i \in DOMAIN s : s[i].as \in {"rect", "simple"}
             /\ \A p : OnlyOnce(p, s)
             /\ Cells(c.piece) \union TodoCells(s) \subseteq Cells(Head(todo).rect)
             /\ Cells(c.piece) \intersect TodoCells(s) = {}
<1> DEFINE r == Head(todo).rect
           l == Head(todo).level
           c == Cut(r, l)
           a == Todo("simple", c.right, l)
           b == Todo("simple", c.below, l)
           s == a \o b
<1>1. r \in Rect /\ l \in Levels
  BY FirstJob DEF Job
<1>2. PieceWidth(r, l) \in Nat \ {0} /\ PieceHeight(r, l) \in Nat \ {0}
  BY <1>1, PiecesPositive DEF IInv, Types
<1>3. /\ c.piece \in Rect /\ c.right \in Span /\ c.below \in Span
      /\ NonEmpty(c.right) => c.right \in Rect
      /\ NonEmpty(c.below) => c.below \in Rect
      /\ Cells(r) = Cells(c.piece) \union Cells(c.right) \union Cells(c.below)
  BY <1>1, <1>2, CutCovers
<1>4. /\ Cells(c.piece) \intersect Cells(c.right) = {}
      /\ Cells(c.piece) \intersect Cells(c.below) = {}
      /\ Cells(c.right) \intersect Cells(c.below) = {}
  BY <1>1, <1>2, CutApart
<1>5. Rest(Head(todo)) = s \o Tail(todo)
  BY DEF Rest, After
<1> HIDE DEF c, r, l
<1>6. ASSUME NEW e \in {c.right, c.below}
      PROVE  /\ Todo("simple", e, l) \in Seq(Job) /\ TodoCells(Todo("simple", e, l)) = Cells(e)
             /\ \A i \in DOMAIN Todo("simple", e, l) :
                    Todo("simple", e, l)[i].as \in {"rect", "simple"}
             /\ \A p : OnlyOnce(p, Todo("simple", e, l))
  <2>1. Todo("simple", e, l) \in Seq(Job) /\ TodoCells(Todo("simple", e, l)) = Cells(e)
    BY <1>1, <1>3, TodoIsSound
  <2>2. Todo("simple", e, l) = <<Task("simple", e, l)>> \/ Todo("simple", e, l) = <<>>
    BY DEF Todo
  <2>3. \A p : OnlyOnce(p, Todo("simple", e, l))
    BY <2>2, OneOnce
  <2>4. Task("simple", e, l).as = "simple"
    BY DEF Task
  <2>5. \A i \in DOMAIN Todo("simple", e, l) : Todo("simple", e, l)[i].as \in {"rect", "simple"}
    BY <2>2, <2>4
  <2> QED
    BY <2>1, <2>3, <2>5
<1> HIDE DEF a, b
<1>7. /\ a \in Seq(Job) /\ TodoCells(a) = Cells(c.right) /\ (\A p : OnlyOnce(p, a))
      /\ b \in Seq(Job) /\ TodoCells(b) = Cells(c.below) /\ (\A p : OnlyOnce(p, b))
      /\ \A i \in DOMAIN a : a[i].as \in {"rect", "simple"}
      /\ \A i \in DOMAIN b : b[i].as \in {"rect", "simple"}
  BY <1>6 DEF a, b
<1>8. s \in Seq(Job) /\ TodoCells(s) = Cells(c.right) \union Cells(c.below)
  BY <1>7, ConcatCells
<1>9. \A p : OnlyOnce(p, s)
  BY <1>4, <1>7, ConcatOnce
<1>10. \A i \in DOMAIN s : s[i].as \in {"rect", "simple"}
  <2>1. \A i \in DOMAIN s : \/ i \in DOMAIN a /\ s[i] = a[i]
                            \/ i - Len(a) \in DOMAIN b /\ s[i] = b[i - Len(a)]
    BY <1>7
  <2> HIDE DEF s
  <2> QED
    BY <1>7, <2>1
<1> HIDE DEF s
<1>11. /\ Cells(c.piece) \union TodoCells(s) \subseteq Cells(r)
       /\ Cells(c.piece) \intersect TodoCells(s) = {}
  BY <1>3, <1>4, <1>8
<1> QED
  BY <1>3, <1>5, <1>8, <1>9, <1>10, <1>11 DEF s, a, b, c, r, l

\* The header leaves each pixel in one place.
LEMMA SendHeaderOnce == IInv /\ Pixels /\ Once /\ SendHeader => Once'
<1> SUFFICES ASSUME IInv, Pixels, Once, SendHeader PROVE Once'
  OBVIOUS
<1>1. /\ pc = "counted" /\ again = {} /\ (lastrect => viewer.lastrect)
      /\ UNCHANGED <<viewer, lastrect, cache, update, again, queue>>
      /\ \/ disturbed'
         \/ /\ ~disturbed /\ ~disturbed' /\ pc' = "rects"
            /\ shown' = IF cache THEN AllCells(update.cached) ELSE {}
            /\ todo' = Tasks("rect", EncodedRects(update), level)
  BY DEF SendHeader, settings, queueing, Pixels, Once
<1>2. CASE disturbed'
  BY <1>1, <1>2 DEF Once
<1>3. CASE ~disturbed'
  <2>1. /\ ~disturbed /\ pc' = "rects" /\ queue' = <<>>
        /\ shown' = IF cache THEN AllCells(update.cached) ELSE {}
        /\ todo' = Tasks("rect", EncodedRects(update), level)
    BY <1>1, <1>3 DEF IInv, Counted
  <2>2. /\ update.cached \in Seq(Rect) /\ update.changed \in Seq(Rect)
        /\ EncodedRects(update) \in Seq(Rect)
    BY UpdateRects DEF IInv
  <2>3. /\ TodoCells(todo') = AllCells(EncodedRects(update))
        /\ \A i \in DOMAIN todo' : todo'[i].as = "rect"
    BY <2>1, <2>2, TasksOfRects DEF IInv, Types
  <2>4. ASSUME NEW p, p \notin GivenTwice(update) PROVE InOnePlace(p)'
    <3>1. /\ \A i, j \in DOMAIN update.changed :
                 p \in Cells(update.changed[i]) /\ p \in Cells(update.changed[j]) => i = j
          /\ \A i, j \in DOMAIN (update.cached \o update.changed) :
                 p \in Cells((update.cached \o update.changed)[i])
                    /\ p \in Cells((update.cached \o update.changed)[j]) => i = j
          /\ p \in AllCells(update.cached) => p \notin AllCells(update.changed)
      BY <2>2, <2>4, NotTwice
    <3>2. OnlyOnce(p, todo')
      <4>1. CASE cache
        <5>1. EncodedRects(update) = update.changed
          BY <4>1 DEF EncodedRects
        <5> QED
          BY <2>1, <2>2, <3>1, <5>1, TasksOnce
      <4>2. CASE ~cache
        <5>1. EncodedRects(update) = update.cached \o update.changed
          BY <4>2 DEF EncodedRects
        <5> DEFINE rs == update.cached \o update.changed
        <5>2. /\ rs \in Seq(Rect) /\ todo' = Tasks("rect", rs, level)
              /\ \A i, j \in DOMAIN rs : p \in Cells(rs[i]) /\ p \in Cells(rs[j]) => i = j
          BY <2>1, <2>2, <3>1, <5>1
        <5> HIDE DEF rs
        <5> QED
          BY <5>2, TasksOnce
      <4> QED
        BY <4>1, <4>2
    <3>3. p \in shown' => p \notin TodoCells(todo')
      <4>1. cache => EncodedRects(update) = update.changed
        BY DEF EncodedRects
      <4> QED
        BY <2>1, <2>3, <3>1, <4>1
    <3>4. p \notin AllCells(queue')
      BY <2>1, NoRects
    <3> QED
      BY <3>2, <3>3, <3>4 DEF InOnePlace
  <2> QED
    BY <1>1, <2>3, <2>4 DEF Once
<1> QED
  BY <1>2, <1>3

\* What a queue shows that goes out.
LEMMA FlushShows ==
  ASSUME NEW rs \in Seq(Rect), NEW zip, Flush(rs, zip), stray = <<>>
  PROVE  \/ /\ shown' = shown \union AllCells(rs)
            /\ again' = again \union (shown \intersect AllCells(rs))
         \/ UNCHANGED <<shown, again>>
<1>1. stray \o rs = rs /\ SubSeq(rs, 1, Len(rs)) = rs
  OBVIOUS
<1> QED
  BY <1>1 DEF Flush, Shows

\* The encoders leave it there.
LEMMA EncodingOnce == IInv /\ Once /\ Encoding => Once'
<1> SUFFICES ASSUME IInv, Once, Encoding PROVE Once'
  OBVIOUS
<1>1. /\ pc = "rects" /\ todo # <<>>
      /\ UNCHANGED <<viewer, lastrect, pc, update, disturbed>>
  BY DEF Encoding, Encode, ScanRow, ScanEnds, SendSolid, SendPiece, QueuePiece, Top, settings
<1>2. CASE disturbed \/ Searching
  BY <1>1, <1>2 DEF Once, Searching
<1>3. CASE ~disturbed /\ ~Searching
  <2> DEFINE t == Head(todo)
             r == t.rect
             l == t.level
             c == Cut(r, l)
             s == Todo("simple", c.right, l) \o Todo("simple", c.below, l)
             done == Cells(c.piece)
  <2>1. r \in Rect /\ todo \in Seq(Job) /\ level \in Levels /\ stray = <<>>
    BY <1>1, <1>3, FirstJob DEF IInv, Types, Covered
  <2>2. t.as \in {"rect", "simple"}
    <3>1. 1 \in DOMAIN todo /\ todo[1] = t
      BY <1>1, <2>1
    <3> QED
      BY <1>1, <1>3, <3>1 DEF Once
  <2>3. ~Splits(r)
    BY <1>3 DEF Once, Splits, Searching
  <2>4. CASE Encode
    <3> DEFINE j == <<Task("simple", r, level)>>
    <3>1. todo' = j \o Tail(todo) /\ UNCHANGED <<shown, again, queue>>
      BY <2>3, <2>4 DEF Encode, output, queueing
    <3>2. j \in Seq(Job) /\ TodoCells(j) = Cells(r) /\ \A p : OnlyOnce(p, j)
      BY <2>1, TaskIsJob, OneJob, OneOnce
    <3>3. \A i \in DOMAIN j : j[i].as \in {"rect", "simple"}
      BY DEF Task
    <3> DEFINE none == {}
    <3>4. /\ none \union TodoCells(j) \subseteq Cells(Head(todo).rect)
          /\ none \intersect TodoCells(j) = {}
          /\ shown' = shown \union none /\ again' = again \union (shown \intersect none)
          /\ none \union AllCells(queue') \subseteq AllCells(queue) \union none
          /\ none \intersect AllCells(queue') = {}
      BY <3>1, <3>2
    <3> HIDE DEF j, none
    <3> QED
      BY <1>1, <3>1, <3>2, <3>3, <3>4, ReplacedOnce
  <2>5. CASE ScanRow \/ ScanEnds \/ SendSolid
    BY <2>2, <2>5 DEF ScanRow, ScanEnds, SendSolid, Top
  <2>6. /\ Rest(t) = s \o Tail(todo) /\ s \in Seq(Job) /\ c.piece \in Rect
        /\ \A i \in DOMAIN s : s[i].as \in {"rect", "simple"}
        /\ \A p : OnlyOnce(p, s)
        /\ done \union TodoCells(s) \subseteq Cells(Head(todo).rect)
        /\ done \intersect TodoCells(s) = {}
    BY <1>1, CutOnce
  <2> HIDE DEF s
  <2>7. CASE SendPiece
    <3>1. /\ todo' = s \o Tail(todo) /\ queue' = queue
          /\ shown' = shown \union done /\ again' = again \union (shown \intersect done)
      BY <2>6, <2>7 DEF SendPiece, Shows, queueing, Piece, Rest, After
    <3> HIDE DEF done
    <3>2. /\ done \union AllCells(queue') \subseteq AllCells(queue) \union done
          /\ done \subseteq done /\ AllCells(queue') = AllCells(queue)
      BY <3>1
    <3> QED
      BY <1>1, <2>6, <3>1, <3>2, ReplacedOnce
  <2>8. CASE \E zip \in BOOLEAN : QueuePiece(zip)
    <3> DEFINE piece == c.piece
               rs == Append(queue, piece)
    <3>1. queue \in Seq(Rect)
      BY DEF IInv, Types
    <3>2. /\ todo' = s \o Tail(todo)
          /\ \/ /\ queue' = <<>>
                /\ \/ shown' = shown \union AllCells(rs)
                      /\ again' = again \union (shown \intersect AllCells(rs))
                   \/ UNCHANGED <<shown, again>>
             \/ queue' = rs /\ UNCHANGED <<shown, again>>
             \/ /\ queue' = <<piece>>
                /\ \/ shown' = shown \union AllCells(queue)
                      /\ again' = again \union (shown \intersect AllCells(queue))
                   \/ UNCHANGED <<shown, again>>
      <4>1. PICK zip \in BOOLEAN : QueuePiece(zip)
        BY <2>8
      <4>2. rs \in Seq(Rect) /\ piece = Piece(t)
        BY <2>6, <3>1, AppendRect DEF Piece
      <4>3. /\ todo' = s \o Tail(todo)
            /\ \/ queue' = <<>> /\ Flush(rs, mustBeZipped \/ zip)
               \/ queue' = rs /\ UNCHANGED <<shown, again>>
               \/ queue' = <<piece>> /\ Flush(queue, mustBeZipped)
        BY <2>6, <4>1, <4>2 DEF QueuePiece, Keep, Unsent
      <4> HIDE DEF rs, piece
      <4>4. CASE queue' = <<>> /\ Flush(rs, mustBeZipped \/ zip)
        BY <2>1, <4>2, <4>3, <4>4, FlushShows
      <4>5. CASE queue' = rs /\ UNCHANGED <<shown, again>>
        BY <4>3, <4>5
      <4>6. CASE queue' = <<piece>> /\ Flush(queue, mustBeZipped)
        BY <2>1, <3>1, <4>3, <4>6, FlushShows
      <4> QED
        BY <4>3, <4>4, <4>5, <4>6
    <3>3. AllCells(rs) = AllCells(queue) \union done
      BY <2>6, <3>1, AppendRect
    <3>4. AllCells(<<piece>>) = done
      BY <2>6, OneRect
    <3> HIDE DEF rs, piece, done
    <3>5. PICK out :
             /\ shown' = shown \union out /\ again' = again \union (shown \intersect out)
             /\ out \union AllCells(queue') \subseteq AllCells(queue) \union done
             /\ \/ out \intersect AllCells(queue') = {}
                \/ out \subseteq AllCells(queue) /\ AllCells(queue') \subseteq done
      <4>1. CASE queue' = <<>> /\ UNCHANGED <<shown, again>>
        <5> DEFINE out == {}
        <5>1. /\ shown' = shown \union out /\ again' = again \union (shown \intersect out)
              /\ out \union AllCells(queue') \subseteq AllCells(queue) \union done
              /\ out \intersect AllCells(queue') = {}
          BY <4>1, NoRects
        <5> QED
          BY <5>1
      <4>2. CASE /\ queue' = <<>> /\ shown' = shown \union AllCells(rs)
                 /\ again' = again \union (shown \intersect AllCells(rs))
        <5> DEFINE out == AllCells(rs)
        <5>1. /\ shown' = shown \union out /\ again' = again \union (shown \intersect out)
              /\ out \union AllCells(queue') \subseteq AllCells(queue) \union done
              /\ out \intersect AllCells(queue') = {}
          BY <3>3, <4>2, NoRects
        <5> HIDE DEF out
        <5> QED
          BY <5>1
      <4>3. CASE queue' = rs /\ UNCHANGED <<shown, again>>
        <5> DEFINE out == {}
        <5>1. /\ shown' = shown \union out /\ again' = again \union (shown \intersect out)
              /\ out \union AllCells(queue') \subseteq AllCells(queue) \union done
              /\ out \intersect AllCells(queue') = {}
          BY <3>3, <4>3
        <5> QED
          BY <5>1
      <4>4. CASE /\ queue' = <<piece>> /\ shown' = shown \union AllCells(queue)
                 /\ again' = again \union (shown \intersect AllCells(queue))
        <5> DEFINE out == AllCells(queue)
        <5>1. /\ shown' = shown \union out /\ again' = again \union (shown \intersect out)
              /\ out \union AllCells(queue') \subseteq AllCells(queue) \union done
              /\ out \subseteq AllCells(queue) /\ AllCells(queue') \subseteq done
          BY <3>4, <4>4
        <5> HIDE DEF out
        <5> QED
          BY <5>1
      <4>5. CASE queue' = <<piece>> /\ UNCHANGED <<shown, again>>
        <5> DEFINE out == {}
        <5>1. /\ shown' = shown \union out /\ again' = again \union (shown \intersect out)
              /\ out \union AllCells(queue') \subseteq AllCells(queue) \union done
              /\ out \intersect AllCells(queue') = {}
          BY <3>4, <4>5
        <5> QED
          BY <5>1
      <4> QED
        BY <3>2, <4>1, <4>2, <4>3, <4>4, <4>5
    <3> QED
      BY <1>1, <2>6, <3>2, <3>5, ReplacedOnce
  <2> QED
    BY <2>4, <2>5, <2>7, <2>8 DEF Encoding
<1> QED
  BY <1>2, <1>3

\* No step brings a pixel to a second place.
LEMMA NextOnce == IInv /\ Pixels /\ Once /\ [Next]_vars => Once'
<1> SUFFICES ASSUME IInv, Pixels, Once, [Next]_vars PROVE Once'
  OBVIOUS
<1>1. CASE CursorMoves
  BY <1>1, OnceStays DEF CursorMoves, settings, queueing, output
<1>2. CASE ForgetSettings
  BY <1>2, OnceStays DEF ForgetSettings, queueing, output
<1>3. CASE RestoreSettings
  BY <1>3, OnceStays DEF RestoreSettings, queueing, output
<1>4. CASE DisableCache
  BY <1>4, OnceStays DEF DisableCache, queueing, output
<1>5. CASE \E u \in Updates, shape \in BOOLEAN : Count(u, shape)
  <2>1. pc' = "counted" /\ again' = {} /\ UNCHANGED <<viewer, lastrect>>
    BY <1>5 DEF Count, settings
  <2> QED
    BY <2>1 DEF Once
<1>6. CASE SendHeader
  BY <1>6, SendHeaderOnce
<1>7. CASE Encoding
  BY <1>7, EncodingOnce
<1>8. CASE EndMessage
  <2>1. /\ pc = "rects" /\ pc' = "between"
        /\ UNCHANGED <<viewer, lastrect, update, disturbed>>
        /\ again' = again \/ Flush(queue, mustBeZipped)
    BY <1>8 DEF EndMessage, settings, LastRect, Unsent
  <2>2. ASSUME ~disturbed, ~Searching PROVE again' \subseteq GivenTwice(update)
    <3>1. /\ again \subseteq GivenTwice(update)
          /\ \A p : p \notin GivenTwice(update) => InOnePlace(p)
      BY <2>1, <2>2 DEF Once
    <3>2. \A p : p \in shown \intersect AllCells(queue) => p \in GivenTwice(update)
      BY <3>1 DEF InOnePlace
    <3>3. queue \in Seq(Rect) /\ stray = <<>>
      BY <2>1, <2>2 DEF IInv, Types, Covered
    <3>4. \/ again' = again
          \/ again' = again \union (shown \intersect AllCells(queue))
      BY <2>1, <3>3, FlushShows
    <3> QED
      BY <3>1, <3>2, <3>4
  <2> QED
    BY <2>1, <2>2 DEF Once, Searching
<1>9. CASE SetEncoding
  <2>1. pc # "rects" /\ UNCHANGED <<viewer, lastrect, pc, update, again, disturbed>>
    BY <1>9 DEF SetEncoding, output
  <2> QED
    BY <2>1 DEF Once, Searching
<1>10. CASE UNCHANGED vars
  BY <1>10, OnceStays DEF vars, settings, queueing, output
<1> QED
  BY <1>1, <1>2, <1>3, <1>4, <1>5, <1>6, <1>7, <1>8, <1>9, <1>10 DEF Next

-----------------------------------------------------------------------------
(***************************************************************************)
(* What follows for every message.                                         *)
(***************************************************************************)
Whole == IInv /\ Flags /\ Pixels /\ Numbers /\ Kept /\ Once

\* So all of it holds throughout.
LEMMA WholeInvariance == Spec => []Whole
<1>1. Init => Whole
  BY InitIInv, InitTypes, InitKept, InitOnce DEF Whole
<1>2. Whole /\ [Next]_vars => Whole'
  BY NextIInv, NextTypes, NextKept, NextOnce DEF Whole
<1> QED
  BY <1>1, <1>2, PTL DEF Spec

\* Whatever the encoder and its limits, every part that EncodeRect, the search
\* for solid areas and the queues make of a rectangle is a rectangle that is not
\* empty and lies inside the picture, CoRRE's adapted size stays in its bounds,
\* and the number in the header fits its 16 bits.
THEOREM TypesHold == Spec => []TypeOK
<1>1. Whole => TypeOK
  <2> SUFFICES ASSUME Whole PROVE TypeOK
    OBVIOUS
  <2>1. Types /\ Flags /\ Pixels /\ Numbers
    BY DEF Whole, IInv
  <2> QED
    BY <2>1 DEF Types, Flags, Pixels, Numbers, TypeOK
<1> QED
  BY <1>1, WholeInvariance, PTL

\* As many rectangles go out as GetNumCodedRects has announced, whatever divides
\* them, or LastRect marks the end: for every encoder, limit and update, unless
\* the picture is scaled, the number takes more than 16 bits, what was counted
\* on has changed before the header, or the limits of the pieces have changed
\* before the last is cut.
THEOREM CountStands == Spec => []CountIsKept
<1>1. Whole => CountIsKept
  <2> SUFFICES ASSUME Whole, pc = "between", ~disturbed, ~recut, viewer.scale = 1,
                      updates < MaxRects
               PROVE  KeepsCount
    BY DEF CountIsKept, Ended
  <2>1. /\ updates \in Nat /\ announced = updates % MaxRects /\ (marked <=> updates = Marked)
    BY DEF Whole, Numbers
  <2>2. announced = updates
    <3>1. MaxRects \in Nat \ {0}
      BY MessageAssumption
    <3> QED
      BY <2>1, <3>1
  <2>3. updates # Marked => sent = updates
    BY DEF Whole, Kept
  <2> QED
    BY <2>1, <2>2, <2>3 DEF KeepsCount
<1> QED
  BY <1>1, WholeInvariance, PTL

\* The pieces of a cut, the rectangles in a queue and the cached rectangles that
\* the header sends are apart: the viewer gets a pixel twice in one message only
\* if the trackers gave it twice, or if Tight's search falls back to a rectangle
\* of which it has sent the upper part.
THEOREM NothingTwice == Spec => []SentOnce
<1>1. Whole => SentOnce
  BY DEF Whole, Once, Searching, SentOnce
<1> QED
  BY <1>1, WholeInvariance, PTL
=============================================================================
