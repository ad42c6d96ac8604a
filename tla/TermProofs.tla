----------------------------- MODULE TermProofs -----------------------------
(***************************************************************************)
(* Proofs about VLinTermHost for every size of window and history, every   *)
(* byte the child writes and everything the user does: no access leaves    *)
(* the buffer, the picture forgets no change and shows one cursor, and     *)
(* plain text is kept.                                                     *)
(***************************************************************************)
EXTENDS VLinTermHost, TLAPS

-----------------------------------------------------------------------------
(* Terminals                                                               *)

Bytes == STRING \cup {""}
Cell == Bytes \X {0, 1}

\* Buffers of every shape
Arrays == UNION {[I -> Cell] : I \in SUBSET Int}

Terminal ==
  [cell : Arrays, dirty : SUBSET Int, wild : BOOLEAN, overrun : BOOLEAN, tainted : BOOLEAN,
   style : {0, 1}, curx : Int, cury : Int, savex : Int, savey : Int, charx : Int, chary : Int,
   scroll_top : Int, scroll_bottom : Int, top : Int, bottom : Int, escapestate : 0 .. 4,
   escapestart : Bytes, params : Seq(Int), whichcsi : Nat, dec_priv_csi : BOOLEAN,
   dec_private_mode : SUBSET (0 .. 31), dec_mode : SUBSET (0 .. 31), osc_command_place : Int,
   scrollback : Int]

\* The parameter that is being read exists, and so do the first two.
Params(t) == t.whichcsi < Len(t.params) /\ 2 <= Len(t.params)

\* The buffer has the shape that charx and chary say, and nothing has left it.
Sound(t) ==
  /\ t \in Terminal
  /\ t.charx > 0 /\ t.chary > 0 /\ t.chary <= historyy
  /\ t.cell \in [Indices(t.charx, t.chary) -> Cell]
  /\ t.dirty \subseteq Indices(t.charx, t.chary)
  /\ ~t.wild
  /\ t.bottom > 0 /\ Params(t)

\* What was written from t to r is tainted in r.
Tainted(t, r) ==
  /\ r.charx = t.charx /\ r.chary = t.chary
  /\ \A i \in Indices(t.charx, t.chary) : r.cell[i] = t.cell[i] \/ (i \in r.dirty /\ r.tainted)
  /\ t.dirty \subseteq r.dirty /\ (t.tainted => r.tainted)

Wrote(t, r) == Sound(r) /\ Tainted(t, r)

LEMMA WroteTwice ==
  ASSUME NEW t, NEW r, NEW s, Wrote(t, r), Wrote(r, s)
  PROVE  Wrote(t, s)
BY DEF Wrote, Tainted

\* A buffer is a function of its indices, of whatever shape.
LEMMA ArrayOf ==
  ASSUME NEW w \in Int, NEW h \in Int, NEW c \in [Indices(w, h) -> Cell]
  PROVE  c \in Arrays
<1>1. Indices(w, h) \in SUBSET Int
  BY DEF Indices
<1> QED
  BY <1>1 DEF Arrays

\* A step that leaves buffer and size alone
SameScreen(t, r) ==
  /\ r.cell = t.cell /\ r.dirty = t.dirty /\ r.wild = t.wild /\ r.tainted = t.tainted
  /\ r.charx = t.charx /\ r.chary = t.chary /\ r.bottom > 0 /\ Params(r)

LEMMA Moved ==
  ASSUME NEW t, NEW r, Sound(t), r \in Terminal, SameScreen(t, r)
  PROVE  Wrote(t, r)
<1>1. Sound(r)
  BY DEF Sound, SameScreen
<1>2. Tainted(t, r)
  BY Zenon DEF Tainted, SameScreen
<1> QED
  BY <1>1, <1>2 DEF Wrote

LEMMA Numbers ==
  ASSUME NEW t, Sound(t)
  PROVE  /\ t \in Terminal /\ t.curx \in Int /\ t.cury \in Int /\ t.charx \in Int /\ t.chary \in Int
         /\ t.scroll_top \in Int /\ t.scroll_bottom \in Int /\ t.top \in Int /\ t.bottom \in Int
         /\ t.savex \in Int /\ t.savey \in Int /\ t.scrollback \in Int
         /\ t.charx > 0 /\ t.chary > 0 /\ t.bottom > 0 /\ historyy \in Int
BY TermAssumption DEF Sound, Terminal

-----------------------------------------------------------------------------
(* Writing and copying                                                     *)

\* The screen is part of the buffer.
LEMMA ScreenInside ==
  ASSUME NEW w \in Int, NEW h \in Int, w > 0, h <= historyy,
         NEW a \in Int, NEW b \in Int, 0 <= a, b < w * h
  PROVE  a .. b \subseteq Indices(w, h)
<1>1. (h - historyy) * w <= 0 /\ w * h = h * w /\ (h - historyy) * w \in Int /\ h * w \in Int
  BY TermAssumption
<1> QED
  BY <1>1 DEF Indices

LEMMA BufferSetWrites ==
  ASSUME NEW t, Sound(t), NEW start \in Int, NEW length \in Int, NEW value \in Bytes
  PROVE  LET r == BufferSet(t, start, value, length)
         IN Wrote(t, r) /\ r.curx = t.curx /\ r.cury = t.cury
<1> DEFINE last == Lesser(start + length, t.charx * t.chary) - 1
           I == Greater(start, 0) .. last
           c == [i \in DOMAIN t.cell |-> IF i \in I THEN <<value, t.style>> ELSE t.cell[i]]
           d == t.dirty \cup (I \cap DOMAIN t.cell)
           r == [t EXCEPT !.cell = c, !.dirty = d, !.wild = FALSE, !.tainted = TRUE]
<1>1. /\ t \in Terminal /\ t.charx \in Int /\ t.chary \in Int /\ t.charx > 0 /\ t.chary <= historyy
      /\ DOMAIN t.cell = Indices(t.charx, t.chary) /\ t.style \in {0, 1}
      /\ t.cell \in [Indices(t.charx, t.chary) -> Cell]
  BY DEF Sound, Terminal
<1>2. I \subseteq DOMAIN t.cell
  <2>1. Greater(start, 0) \in Int /\ 0 <= Greater(start, 0)
    BY DEF Greater
  <2>2. t.charx * t.chary \in Int
    BY <1>1
  <2>3. last \in Int /\ last < t.charx * t.chary
    BY <2>2 DEF Lesser
  <2> HIDE DEF last
  <2> QED
    BY <1>1, <2>1, <2>3, ScreenInside
<1>3. BufferSet(t, start, value, length) = r
  BY <1>1, <1>2 DEF BufferSet, Sound
<1> HIDE DEF I
<1>4. c \in [Indices(t.charx, t.chary) -> Cell] /\ c \in Arrays
  <2>1. c \in [Indices(t.charx, t.chary) -> Cell]
    BY <1>1 DEF Cell
  <2> QED
    BY <1>1, <2>1, ArrayOf
<1>5. d \in SUBSET Int /\ d \subseteq Indices(t.charx, t.chary) /\ t.dirty \subseteq d
  BY <1>1 DEF Sound, Indices
<1>6. \A i \in Indices(t.charx, t.chary) : c[i] = t.cell[i] \/ i \in d
  BY <1>1
<1> HIDE DEF c, d
<1>7. /\ r \in Terminal /\ r.cell = c /\ r.dirty = d /\ ~r.wild /\ r.tainted
      /\ r.charx = t.charx /\ r.chary = t.chary /\ r.bottom = t.bottom
      /\ r.whichcsi = t.whichcsi /\ r.params = t.params /\ r.curx = t.curx /\ r.cury = t.cury
  BY <1>1, <1>4, <1>5 DEF Terminal
<1> HIDE DEF r
<1>8. Wrote(t, r)
  BY <1>1, <1>4, <1>5, <1>6, <1>7 DEF Wrote, Sound, Tainted, Params
<1> QED
  BY <1>3, <1>7, <1>8

\* The lines of the buffer lie between what BufferCopy calls minimum and end.
LEMMA CopyInside ==
  ASSUME NEW w \in Int, NEW h \in Int, NEW a \in Int, NEW n \in Int,
         (h - historyy) * w <= a, a + n <= w * h
  PROVE  a .. a + n - 1 \subseteq Indices(w, h)
<1>1. w * h = h * w /\ (h - historyy) * w \in Int /\ h * w \in Int
  BY TermAssumption
<1> QED
  BY <1>1 DEF Indices

LEMMA BufferCopyWrites ==
  ASSUME NEW t, Sound(t), NEW dest \in Int, NEW src \in Int, NEW length \in Int
  PROVE  LET r == BufferCopy(t, dest, src, length)
         IN Wrote(t, r) /\ r.curx = t.curx /\ r.cury = t.cury
<1> DEFINE minimum == (t.chary - historyy) * t.charx
           end == t.charx * t.chary
           I == dest .. dest + length - 1
           J == src .. src + length - 1
           refused == \/ src < minimum \/ dest < minimum
                      \/ src + length > end \/ dest + length > end
                      \/ length < 0
           c == [i \in DOMAIN t.cell |-> IF i \in I /\ i - dest + src \in DOMAIN t.cell
                                         THEN t.cell[i - dest + src] ELSE t.cell[i]]
           d == t.dirty \cup (I \cap DOMAIN t.cell)
           r == [t EXCEPT !.cell = c, !.dirty = d, !.wild = FALSE, !.tainted = TRUE]
<1>1. /\ t \in Terminal /\ t.charx \in Int /\ t.chary \in Int /\ t.bottom > 0
      /\ DOMAIN t.cell = Indices(t.charx, t.chary) /\ Params(t)
      /\ t.cell \in [Indices(t.charx, t.chary) -> Cell]
  BY DEF Sound, Terminal
<1>2. CASE refused
  <2>1. BufferCopy(t, dest, src, length) = t
    BY <1>2 DEF BufferCopy
  <2> QED
    BY <1>1, <2>1, Moved DEF SameScreen
<1>3. CASE ~refused
  <2>1. I \cup J \subseteq DOMAIN t.cell
    <3>1. minimum \in Int /\ end \in Int
      BY <1>1, TermAssumption
    <3>2. minimum <= dest /\ dest + length <= end /\ minimum <= src /\ src + length <= end
      BY <1>3, <3>1
    <3> QED
      BY <1>1, <3>2, CopyInside
  <2>2. BufferCopy(t, dest, src, length) = r
    BY <1>1, <1>3, <2>1 DEF BufferCopy, Sound
  <2> HIDE DEF I
  <2>3. c \in [Indices(t.charx, t.chary) -> Cell] /\ c \in Arrays
    <3>1. c \in [Indices(t.charx, t.chary) -> Cell]
      BY <1>1
    <3> QED
      BY <1>1, <3>1, ArrayOf
  <2>4. d \in SUBSET Int /\ d \subseteq Indices(t.charx, t.chary) /\ t.dirty \subseteq d
    BY <1>1 DEF Sound, Indices
  <2>5. \A i \in Indices(t.charx, t.chary) : c[i] = t.cell[i] \/ i \in d
    BY <1>1
  <2> HIDE DEF c, d
  <2>6. /\ r \in Terminal /\ r.cell = c /\ r.dirty = d /\ ~r.wild /\ r.tainted
        /\ r.charx = t.charx /\ r.chary = t.chary /\ r.bottom = t.bottom
        /\ r.whichcsi = t.whichcsi /\ r.params = t.params /\ r.curx = t.curx /\ r.cury = t.cury
    BY <1>1, <2>3, <2>4 DEF Terminal
  <2> HIDE DEF r
  <2>7. Wrote(t, r)
    BY <1>1, <2>3, <2>4, <2>5, <2>6 DEF Wrote, Sound, Tainted, Params
  <2> QED
    BY <2>2, <2>6, <2>7
<1> QED
  BY <1>2, <1>3

\* A step that writes cells only
SameModes(t, r) ==
  /\ r.curx = t.curx /\ r.cury = t.cury /\ r.charx = t.charx /\ r.chary = t.chary
  /\ r.style = t.style /\ r.escapestate = t.escapestate /\ r.scroll_top = t.scroll_top
  /\ r.scroll_bottom = t.scroll_bottom /\ r.top = t.top /\ r.bottom = t.bottom
  /\ r.dec_private_mode = t.dec_private_mode

LEMMA BufferSetCells ==
  ASSUME NEW t, Sound(t), NEW start \in Int, NEW length \in Int, NEW value \in Bytes,
         0 <= start, start + length <= t.charx * t.chary
  PROVE  LET r == BufferSet(t, start, value, length)
         IN /\ SameModes(t, r)
            /\ \A i \in Indices(t.charx, t.chary) :
                 r.cell[i] = IF i \in start .. start + length - 1
                             THEN <<value, t.style>> ELSE t.cell[i]
<1> DEFINE I == start .. start + length - 1
           c == [i \in DOMAIN t.cell |-> IF i \in I THEN <<value, t.style>> ELSE t.cell[i]]
           d == t.dirty \cup (I \cap DOMAIN t.cell)
           f == t.wild \/ ~(I \subseteq DOMAIN t.cell)
           r == [t EXCEPT !.cell = c, !.dirty = d, !.wild = f, !.tainted = TRUE]
<1>1. t \in Terminal /\ DOMAIN t.cell = Indices(t.charx, t.chary)
  BY DEF Sound
<1>2. Greater(start, 0) .. Lesser(start + length, t.charx * t.chary) - 1 = I
  <2>1. t.charx * t.chary \in Int
    BY Numbers
  <2> QED
    BY <2>1 DEF Greater, Lesser
<1>3. BufferSet(t, start, value, length) = r
  BY <1>2 DEF BufferSet
<1>4. \A i \in Indices(t.charx, t.chary) :
        c[i] = IF i \in I THEN <<value, t.style>> ELSE t.cell[i]
  BY <1>1
<1> HIDE DEF I, c, d, f
<1>5. r.cell = c /\ SameModes(t, r)
  BY <1>1 DEF Terminal, SameModes
<1> HIDE DEF r
<1> QED
  BY <1>3, <1>4, <1>5 DEF I

LEMMA BufferCopyCells ==
  ASSUME NEW t, Sound(t), NEW dest \in Int, NEW src \in Int, NEW length \in Int,
         (t.chary - historyy) * t.charx <= dest, (t.chary - historyy) * t.charx <= src,
         dest + length <= t.charx * t.chary, src + length <= t.charx * t.chary, length >= 0
  PROVE  LET r == BufferCopy(t, dest, src, length)
         IN /\ SameModes(t, r)
            /\ \A i \in Indices(t.charx, t.chary) :
                 r.cell[i] = IF i \in dest .. dest + length - 1
                             THEN t.cell[i - dest + src] ELSE t.cell[i]
<1> DEFINE minimum == (t.chary - historyy) * t.charx
           end == t.charx * t.chary
           I == dest .. dest + length - 1
           J == src .. src + length - 1
           c == [i \in DOMAIN t.cell |-> IF i \in I /\ i - dest + src \in DOMAIN t.cell
                                         THEN t.cell[i - dest + src] ELSE t.cell[i]]
           d == t.dirty \cup (I \cap DOMAIN t.cell)
           f == t.wild \/ ~(I \cup J \subseteq DOMAIN t.cell)
           r == [t EXCEPT !.cell = c, !.dirty = d, !.wild = f, !.tainted = TRUE]
<1>1. /\ t \in Terminal /\ DOMAIN t.cell = Indices(t.charx, t.chary)
      /\ t.charx \in Int /\ t.chary \in Int
  BY Numbers DEF Sound
<1>2. BufferCopy(t, dest, src, length) = r
  <2>1. minimum \in Int /\ end \in Int
    BY <1>1, TermAssumption
  <2>2. ~(\/ src < minimum \/ dest < minimum
          \/ src + length > end \/ dest + length > end
          \/ length < 0)
    BY <2>1
  <2> QED
    BY <2>2 DEF BufferCopy
<1>3. J \subseteq DOMAIN t.cell
  BY <1>1, CopyInside
<1>4. \A i \in I : i - dest + src \in DOMAIN t.cell
  <2> SUFFICES ASSUME NEW i \in I PROVE i - dest + src \in J
    BY <1>3
  <2> QED
    OBVIOUS
<1>5. \A i \in Indices(t.charx, t.chary) :
        c[i] = IF i \in I THEN t.cell[i - dest + src] ELSE t.cell[i]
  BY <1>1, <1>4
<1> HIDE DEF I, J, c, d, f
<1>6. r.cell = c /\ SameModes(t, r)
  BY <1>1 DEF Terminal, SameModes
<1> HIDE DEF r
<1> QED
  BY <1>2, <1>5, <1>6 DEF I

-----------------------------------------------------------------------------
(* Scrolling                                                               *)

\* The screen was written, the cursor stays.
Drew(t, r) == Wrote(t, r) /\ r.curx = t.curx /\ r.cury = t.cury

LEMMA DrewTwice ==
  ASSUME NEW t, NEW r, NEW s, Drew(t, r), Drew(r, s)
  PROVE  Drew(t, s)
BY WroteTwice DEF Drew

LEMMA DrewNothing ==
  ASSUME NEW t, Sound(t)
  PROVE  Drew(t, t)
<1>1. t \in Terminal /\ t.bottom > 0 /\ Params(t)
  BY DEF Sound
<1> QED
  BY <1>1, Moved DEF Drew, SameScreen

LEMMA BlankDraws ==
  ASSUME NEW t, Sound(t), NEW start \in Int, NEW length \in Int
  PROVE  Drew(t, BufferSet(t, start, "", length))
<1>1. "" \in Bytes
  BY DEF Bytes
<1> QED
  BY <1>1, BufferSetWrites DEF Drew

\* A copy and a blank after it, as all that scrolls does
LEMMA CopyAndBlank ==
  ASSUME NEW t, Sound(t), NEW dest \in Int, NEW src \in Int, NEW n \in Int,
         NEW start \in Int, NEW length \in Int
  PROVE  Drew(t, BufferSet(BufferCopy(t, dest, src, n), start, "", length))
<1> DEFINE c == BufferCopy(t, dest, src, n)
<1>1. Drew(t, c)
  BY BufferCopyWrites DEF Drew
<1> HIDE DEF c
<1>2. Sound(c)
  BY <1>1 DEF Drew, Wrote
<1>3. Drew(c, BufferSet(c, start, "", length))
  BY <1>2, BlankDraws
<1>4. Drew(t, BufferSet(c, start, "", length))
  BY <1>1, <1>3, DrewTwice
<1> QED
  BY <1>4 DEF c

LEMMA InsertBlankLinesDraws ==
  ASSUME NEW t, Sound(t), NEW lines \in Int
  PROVE  Drew(t, InsertBlankLines(t, lines))
<1> DEFINE l == Lesser(lines, t.scroll_bottom - t.cury)
           move == t.scroll_bottom - t.cury - l
           moved == IF move > 0
                    THEN BufferCopy(t, (l + t.cury) * t.charx, t.cury * t.charx, t.charx * move)
                    ELSE t
<1>1. l \in Int /\ move \in Int
  BY Numbers DEF Lesser
<1>2. /\ (l + t.cury) * t.charx \in Int /\ t.cury * t.charx \in Int
      /\ t.charx * move \in Int /\ t.charx * l \in Int
  BY <1>1, Numbers
<1> HIDE DEF l, move
<1>3. Drew(t, moved)
  BY <1>2, BufferCopyWrites, DrewNothing DEF Drew
<1> HIDE DEF moved
<1>4. Drew(moved, BufferSet(moved, t.cury * t.charx, "", t.charx * l))
  BY <1>2, <1>3, BlankDraws DEF Drew, Wrote
<1>5. Drew(t, BufferSet(moved, t.cury * t.charx, "", t.charx * l))
  BY <1>3, <1>4, DrewTwice
<1> QED
  BY <1>5, DrewNothing DEF InsertBlankLines, l, move, moved

LEMMA ScrollDownDraws ==
  ASSUME NEW t, Sound(t), NEW lines \in Int
  PROVE  Drew(t, ScrollDown(t, lines))
<1>1. /\ (t.top + lines) * t.charx \in Int /\ t.top * t.charx \in Int
      /\ (t.bottom - t.top - lines) * t.charx \in Int /\ t.charx * lines \in Int
  BY Numbers
<1> QED
  BY <1>1, CopyAndBlank DEF ScrollDown

LEMMA ScrollUpDraws ==
  ASSUME NEW t, Sound(t), NEW lines \in Int
  PROVE  Drew(t, ScrollUp(t, lines))
<1> DEFINE dest == (t.chary - historyy) * t.charx
<1>1. /\ (t.top + lines) * t.charx \in Int /\ t.top * t.charx \in Int
      /\ (t.bottom - t.top - lines) * t.charx \in Int /\ t.charx * lines \in Int
      /\ (t.bottom - lines) * t.charx \in Int /\ dest \in Int
      /\ dest + lines * t.charx \in Int /\ (historyy - lines) * t.charx \in Int
  BY Numbers
<1> HIDE DEF dest
<1>2. CASE Limited(t)
  BY <1>1, <1>2, CopyAndBlank DEF ScrollUp
<1>3. CASE ~Limited(t)
  BY <1>1, <1>3, CopyAndBlank DEF ScrollUp, dest
<1> QED
  BY <1>2, <1>3

-----------------------------------------------------------------------------
(* Moving the cursor                                                       *)

\* The cursor is right of the edge; shrinking windows may have left it above
\* the screen, but not above what the history of the largest window holds.
Placed(t) == t.curx >= 0 /\ 2 * t.chary <= historyy + 1 /\ 2 * (t.chary - t.cury) <= historyy + 1

\* The cursor is moved, or a sequence begins or ends.
LEMMA MovesX ==
  ASSUME NEW t, Sound(t), NEW x \in Int
  PROVE  LET r == [t EXCEPT !.curx = x] IN Wrote(t, r) /\ r.curx = x /\ r.cury = t.cury
<1> DEFINE r == [t EXCEPT !.curx = x]
<1>1. t \in Terminal /\ t.bottom > 0 /\ Params(t)
  BY DEF Sound
<1>2. /\ r \in Terminal /\ r.curx = x /\ r.cury = t.cury /\ SameScreen(t, r)
  BY <1>1 DEF Terminal, SameScreen, Params
<1> HIDE DEF r
<1>3. Wrote(t, r)
  BY <1>2, Moved
<1> QED
  BY <1>2, <1>3 DEF r

LEMMA MovesY ==
  ASSUME NEW t, Sound(t), NEW y \in Int
  PROVE  LET r == [t EXCEPT !.cury = y] IN Wrote(t, r) /\ r.curx = t.curx /\ r.cury = y
<1> DEFINE r == [t EXCEPT !.cury = y]
<1>1. t \in Terminal /\ t.bottom > 0 /\ Params(t)
  BY DEF Sound
<1>2. /\ r \in Terminal /\ r.curx = t.curx /\ r.cury = y /\ SameScreen(t, r)
  BY <1>1 DEF Terminal, SameScreen, Params
<1> HIDE DEF r
<1>3. Wrote(t, r)
  BY <1>2, Moved
<1> QED
  BY <1>2, <1>3 DEF r

LEMMA SetsState ==
  ASSUME NEW t, Sound(t), NEW e \in 0 .. 4
  PROVE  LET r == [t EXCEPT !.escapestate = e] IN Wrote(t, r) /\ r.curx = t.curx /\ r.cury = t.cury
<1> DEFINE r == [t EXCEPT !.escapestate = e]
<1>1. t \in Terminal /\ t.bottom > 0 /\ Params(t)
  BY DEF Sound
<1>2. /\ r \in Terminal /\ r.curx = t.curx /\ r.cury = t.cury /\ SameScreen(t, r)
  BY <1>1 DEF Terminal, SameScreen, Params
<1> HIDE DEF r
<1>3. Wrote(t, r)
  BY <1>2, Moved
<1> QED
  BY <1>2, <1>3 DEF r

\* A new line scrolls when the cursor is below the region, and is then moved up.
LEMMA HandleNewlineDraws ==
  ASSUME NEW t, Sound(t), Placed(t), NEW advance \in BOOLEAN
  PROVE  LET r == HandleNewline(t, advance) IN Wrote(t, r) /\ Placed(r) /\ r.curx = t.curx
<1> DEFINE i == IF advance /\ 12 \in t.dec_private_mode THEN InsertBlankLines(t, 1) ELSE t
           u == ScrollUp(i, 1)
           r == [u EXCEPT !.cury = u.cury - 1]
<1>0. HandleNewline(t, advance) = IF i.cury >= i.bottom THEN r ELSE i
  BY DEF HandleNewline
<1>1. Drew(t, i)
  BY InsertBlankLinesDraws, DrewNothing
<1> HIDE DEF i
<1>2. Sound(i) /\ i.charx = t.charx /\ i.chary = t.chary /\ i.curx = t.curx /\ i.cury = t.cury
  BY <1>1 DEF Drew, Wrote, Tainted
<1>3. CASE i.cury >= i.bottom
  <2>1. Drew(i, u)
    BY <1>2, ScrollUpDraws
  <2>2. Drew(t, u)
    BY <1>1, <2>1, DrewTwice
  <2> HIDE DEF u
  <2>3. Sound(u) /\ u.chary = t.chary /\ u.curx = t.curx /\ u.cury = t.cury /\ Wrote(t, u)
    BY <2>2 DEF Drew, Wrote, Tainted
  <2>4. Wrote(u, r) /\ r.curx = u.curx /\ r.cury = u.cury - 1
    <3>1. u.cury - 1 \in Int
      BY <2>3, Numbers
    <3> QED
      BY <2>3, <3>1, MovesY
  <2> HIDE DEF r
  <2>5. Wrote(t, r) /\ r.chary = t.chary
    BY <2>3, <2>4, WroteTwice DEF Wrote, Tainted
  <2>6. t.cury > 0 /\ t.cury \in Int /\ t.chary \in Int /\ t.chary > 0 /\ historyy \in Int
    BY <1>2, <1>3, Numbers
  <2>7. Placed(r)
    BY <2>3, <2>4, <2>5, <2>6 DEF Placed
  <2>8. HandleNewline(t, advance) = r
    BY <1>0, <1>3
  <2>9. r.curx = t.curx
    BY <2>3, <2>4
  <2> QED
    BY <2>5, <2>7, <2>8, <2>9
<1>4. CASE ~(i.cury >= i.bottom)
  BY <1>0, <1>1, <1>2, <1>4 DEF Drew, Placed
<1> QED
  BY <1>3, <1>4

\* What every byte does to a terminal that is in order
Stepped(t, r) == Wrote(t, r) /\ Placed(r)

\* The same number of lines, and a cursor that was not moved up
LEMMA StillPlaced ==
  ASSUME NEW t, NEW r, Sound(t), Placed(t), Wrote(t, r), r.curx >= 0, r.cury >= t.cury
  PROVE  Placed(r)
<1>1. Sound(r) /\ r.chary = t.chary
  BY DEF Wrote, Tainted
<1>2. r.cury \in Int /\ t.cury \in Int /\ t.chary \in Int /\ historyy \in Int
  BY <1>1, Numbers
<1> QED
  BY <1>1, <1>2 DEF Placed

LEMMA DrewSteps ==
  ASSUME NEW t, NEW r, Sound(t), Placed(t), Drew(t, r)
  PROVE  Stepped(t, r)
<1>1. Wrote(t, r) /\ r.curx >= 0 /\ r.cury >= t.cury
  BY Numbers DEF Drew, Placed
<1> QED
  BY <1>1, StillPlaced DEF Stepped

\* HandleNewline after a move of the cursor
LEMMA NewlineAfter ==
  ASSUME NEW t, NEW m, Sound(t), Placed(t), Wrote(t, m), m.curx >= 0, m.cury >= t.cury,
         NEW advance \in BOOLEAN
  PROVE  Stepped(t, HandleNewline(m, advance))
<1>1. Sound(m) /\ Placed(m)
  BY StillPlaced DEF Wrote
<1>2. Stepped(m, HandleNewline(m, advance))
  BY <1>1, HandleNewlineDraws DEF Stepped
<1> QED
  BY <1>2, WroteTwice DEF Stepped

LEMMA LinefeedSteps ==
  ASSUME NEW t, Sound(t), Placed(t)
  PROVE  Stepped(t, Linefeed(t))
<1> DEFINE m == [t EXCEPT !.curx = 0]
<1>1. Wrote(t, m) /\ m.curx = 0 /\ m.cury = t.cury
  BY MovesX
<1>2. Linefeed(t) = HandleNewline(m, FALSE)
  BY DEF Linefeed
<1> HIDE DEF m
<1>3. m.curx >= 0 /\ m.cury >= t.cury
  BY <1>1, Numbers
<1> QED
  BY <1>1, <1>2, <1>3, NewlineAfter

LEMMA NewlineSteps ==
  ASSUME NEW t, Sound(t), Placed(t)
  PROVE  Stepped(t, Newline(t))
<1> DEFINE x == IF 7 \in t.dec_private_mode THEN t.curx ELSE 0
           y == t.cury + 1
           m == [t EXCEPT !.cury = y, !.curx = x]
<1>1. x \in Int /\ x >= 0 /\ y \in Int /\ y >= t.cury
  BY Numbers DEF Placed
<1>2. Newline(t) = HandleNewline(m, TRUE)
  BY DEF Newline
<1> HIDE DEF x, y
<1>3. Wrote(t, m) /\ m.curx = x /\ m.cury = y
  <2>1. t \in Terminal /\ t.bottom > 0 /\ Params(t)
    BY DEF Sound
  <2>2. /\ m \in Terminal /\ m.curx = x /\ m.cury = y /\ SameScreen(t, m)
    BY <1>1, <2>1 DEF Terminal, SameScreen, Params
  <2> HIDE DEF m
  <2> QED
    BY <2>2, Moved
<1> HIDE DEF m
<1>4. m.curx >= 0 /\ m.cury >= t.cury
  BY <1>1, <1>3, Numbers
<1> QED
  BY <1>2, <1>3, <1>4, NewlineAfter

LEMMA CsiStartSteps ==
  ASSUME NEW t, Sound(t), NEW b \in Bytes
  PROVE  Drew(t, CsiStart(t, b))
<1> DEFINE p == <<-1, -1>>
           k == FALSE
           e == 2
           n == 0
           r == [t EXCEPT !.escapestart = b, !.escapestate = e, !.params = p,
                          !.dec_priv_csi = k, !.whichcsi = n]
<1>0. CsiStart(t, b) = r
  BY DEF CsiStart
<1>1. t \in Terminal /\ t.bottom > 0
  BY DEF Sound
<1>2. p \in Seq(Int) /\ Len(p) = 2 /\ k \in BOOLEAN /\ e \in 0 .. 4 /\ n \in Nat /\ n < 2
  OBVIOUS
<1> HIDE DEF p, k, e, n
<1>3. r \in Terminal
  BY <1>1, <1>2 DEF Terminal
<1>4. /\ r.params = p /\ r.whichcsi = n /\ r.bottom = t.bottom
      /\ r.cell = t.cell /\ r.dirty = t.dirty /\ r.wild = t.wild /\ r.tainted = t.tainted
      /\ r.charx = t.charx /\ r.chary = t.chary /\ r.curx = t.curx /\ r.cury = t.cury
  BY <1>1, <1>2 DEF Terminal
<1> HIDE DEF r
<1>5. Wrote(t, r)
  <2>1. r.bottom > 0 /\ Params(r)
    <3>1. Len(r.params) = 2
      BY <1>2, <1>4
    <3>2. r.whichcsi \in Nat /\ r.whichcsi < 2
      BY <1>2, <1>4
    <3>3. r.bottom > 0
      BY <1>1, <1>4
    <3> QED
      BY <3>1, <3>2, <3>3 DEF Params
  <2> QED
    BY <1>3, <1>4, <2>1, Moved DEF SameScreen
<1> QED
  BY <1>0, <1>4, <1>5 DEF Drew

LEMMA PutSteps ==
  ASSUME NEW t, Sound(t), Placed(t), NEW cx \in Int, NEW b \in Bytes
  PROVE  Stepped(t, Put(t, cx, b))
<1> DEFINE x == 0
           y == t.cury + 1
           m == [t EXCEPT !.curx = x, !.cury = y]
           n == IF t.curx >= cx THEN HandleNewline(m, FALSE) ELSE t
           w == BufferSet(n, n.curx + n.cury * cx, b, 1)
           r == [w EXCEPT !.curx = w.curx + 1]
<1>1. Put(t, cx, b) = r
  BY DEF Put
<1> HIDE DEF n, w, r
<1>2. Stepped(t, n)
  <2>0. x \in Int /\ x = 0 /\ y \in Int /\ y >= t.cury
    BY Numbers
  <2> HIDE DEF x, y
  <2>1. Wrote(t, m) /\ m.curx = x /\ m.cury = y
    <3>1. t \in Terminal /\ t.bottom > 0 /\ Params(t)
      BY DEF Sound
    <3>2. /\ m \in Terminal /\ m.curx = x /\ m.cury = y /\ SameScreen(t, m)
      BY <2>0, <3>1 DEF Terminal, SameScreen, Params
    <3> HIDE DEF m
    <3> QED
      BY <3>2, Moved
  <2> HIDE DEF m
  <2>2. m.curx >= 0 /\ m.cury >= t.cury
    BY <2>0, <2>1
  <2>3. Stepped(t, HandleNewline(m, FALSE))
    BY <2>1, <2>2, NewlineAfter
  <2>4. Stepped(t, t)
    BY DrewNothing DEF Drew, Stepped
  <2> QED
    BY <2>3, <2>4 DEF n
<1>3. Sound(n) /\ Placed(n)
  BY <1>2 DEF Stepped, Wrote
<1>4. Drew(n, w)
  <2>1. n.curx + n.cury * cx \in Int
    BY <1>3, Numbers
  <2> QED
    BY <1>3, <2>1, BufferSetWrites DEF Drew, w
<1>5. Sound(w) /\ w.curx \in Int /\ w.curx = n.curx /\ w.cury = n.cury
  BY <1>4, Numbers DEF Drew, Wrote
<1>6. Wrote(w, r) /\ r.curx = w.curx + 1 /\ r.cury = w.cury
  <2>1. w.curx + 1 \in Int
    BY <1>5
  <2> QED
    BY <1>5, <2>1, MovesX DEF r
<1>7. Wrote(n, r) /\ Wrote(t, r)
  BY <1>2, <1>4, <1>6, WroteTwice DEF Drew, Stepped
<1>8. r.curx >= 0 /\ r.cury >= n.cury
  <2>1. n.curx >= 0 /\ n.cury \in Int
    BY <1>3, Numbers DEF Placed
  <2> QED
    BY <1>5, <1>6, <2>1
<1>9. Placed(r)
  BY <1>3, <1>7, <1>8, StillPlaced
<1> QED
  BY <1>1, <1>7, <1>9 DEF Stepped

-----------------------------------------------------------------------------
(* Escape sequences                                                        *)

\* The sequences of one character; KeepCursor sees to the cursor.
LEMMA ResetWrites ==
  ASSUME NEW t, Sound(t)
  PROVE  LET r == ResetTerminal(t) IN Wrote(t, r) /\ r.curx = 0 /\ r.cury = 0
<1> DEFINE p == {25}
           q == {}
           z == 0
           m == -1
           r == [t EXCEPT !.dec_private_mode = p, !.dec_mode = q, !.scrollback = z,
                          !.curx = z, !.cury = z, !.escapestate = z, !.style = z,
                          !.scroll_top = m, !.scroll_bottom = m]
<1>1. t \in Terminal /\ t.bottom > 0 /\ Params(t)
  BY DEF Sound
<1>2. ResetTerminal(t) = BufferSet(r, 0, "", t.charx * t.chary)
  BY DEF ResetTerminal
<1>3. /\ p \in SUBSET (0 .. 31) /\ q \in SUBSET (0 .. 31) /\ m \in Int
      /\ z \in Int /\ z \in 0 .. 4 /\ z \in {0, 1}
  OBVIOUS
<1> HIDE DEF p, q, z, m
<1>4. r \in Terminal /\ SameScreen(t, r) /\ r.curx = z /\ r.cury = z
  BY <1>1, <1>3 DEF Terminal, SameScreen, Params
<1> HIDE DEF r
<1>5. Wrote(t, r)
  BY <1>4, Moved
<1>6. Drew(r, BufferSet(r, 0, "", t.charx * t.chary))
  <2>1. t.charx * t.chary \in Int /\ 0 \in Int /\ Sound(r)
    BY <1>5, Numbers DEF Wrote
  <2> QED
    BY <2>1, BlankDraws
<1>7. Wrote(t, ResetTerminal(t))
  BY <1>2, <1>5, <1>6, WroteTwice DEF Drew
<1> QED
  BY <1>2, <1>4, <1>6, <1>7, Zenon DEF Drew, z

\* Nothing has been written.
Clean(t) == \A i \in Indices(t.charx, t.chary) : t.cell[i] = Blank

\* What ResetTerminal leaves
FreshModes(t) ==
  /\ t.style = 0 /\ t.escapestate = 0 /\ t.scroll_top = -1 /\ t.scroll_bottom = -1
  /\ t.dec_private_mode = {25}

LEMMA ResetClears ==
  ASSUME NEW t, Sound(t), Clean(t)
  PROVE  FreshModes(ResetTerminal(t)) /\ Clean(ResetTerminal(t))
<1> DEFINE p == {25}
           q == {}
           z == 0
           m == -1
           v == ""
           n == t.charx * t.chary
           r == [t EXCEPT !.dec_private_mode = p, !.dec_mode = q, !.scrollback = z,
                          !.curx = z, !.cury = z, !.escapestate = z, !.style = z,
                          !.scroll_top = m, !.scroll_bottom = m]
           s == BufferSet(r, z, v, n)
<1>1. t \in Terminal /\ t.bottom > 0 /\ Params(t) /\ n \in Int
  BY Numbers DEF Sound
<1>2. ResetTerminal(t) = s
  BY DEF ResetTerminal
<1>3. /\ p \in SUBSET (0 .. 31) /\ q \in SUBSET (0 .. 31) /\ m \in Int
      /\ z \in Int /\ z \in 0 .. 4 /\ z \in {0, 1} /\ 0 <= z /\ z + n <= n
  BY <1>1
<1>4. v \in Bytes
  BY DEF Bytes
<1> HIDE DEF p, q, z, m, v
<1>5. /\ r \in Terminal /\ SameScreen(t, r) /\ r.style = z /\ r.escapestate = z
      /\ r.scroll_top = m /\ r.scroll_bottom = m /\ r.dec_private_mode = p
      /\ r.charx = t.charx /\ r.chary = t.chary /\ r.cell = t.cell
  BY <1>1, <1>3 DEF Terminal, SameScreen, Params
<1> HIDE DEF r
<1>6. Sound(r)
  BY <1>5, Moved DEF Wrote
<1>7. /\ SameModes(r, s)
      /\ \A i \in Indices(t.charx, t.chary) :
           s.cell[i] = IF i \in z .. z + n - 1 THEN <<v, r.style>> ELSE r.cell[i]
  <2> HIDE DEF s
  <2>1. n \in Int /\ z + n <= r.charx * r.chary
    BY <1>1, <1>3, <1>5
  <2> HIDE DEF n
  <2> QED
    BY <1>3, <1>4, <1>5, <1>6, <2>1, BufferSetCells DEF s
<1> HIDE DEF s
<1>8. FreshModes(s)
  BY <1>5, <1>7 DEF FreshModes, SameModes, z, m, p
<1>9. s.charx = t.charx /\ s.chary = t.chary
  BY <1>5, <1>7 DEF SameModes
<1>10. <<v, r.style>> = Blank
  BY <1>5 DEF Blank, v, z
<1>11. Clean(s)
  BY <1>5, <1>7, <1>9, <1>10 DEF Clean
<1> QED
  BY <1>2, <1>8, <1>11

LEMMA ReverseLinefeedWrites ==
  ASSUME NEW t, Sound(t), NEW cx \in Int
  PROVE  Wrote(t, ReverseLinefeed(t, cx))
<1> DEFINE y == t.cury - 1
           up == [t EXCEPT !.cury = y]
           c == BufferCopy(up, cx * (t.top + 1), cx * t.top, (t.bottom - t.top - 1) * cx)
           b == BufferSet(c, cx * t.top, "", cx)
           r == [b EXCEPT !.cury = t.top]
<1>1. ReverseLinefeed(t, cx) = IF up.cury < t.top THEN r ELSE up
  BY DEF ReverseLinefeed
<1>2. /\ y \in Int /\ t.top \in Int /\ cx * (t.top + 1) \in Int /\ cx * t.top \in Int
      /\ (t.bottom - t.top - 1) * cx \in Int
  BY Numbers
<1> HIDE DEF y
<1>3. Wrote(t, up)
  BY <1>2, MovesY
<1> HIDE DEF up
<1>4. Drew(up, b)
  BY <1>2, <1>3, CopyAndBlank DEF Wrote
<1> HIDE DEF b
<1>5. Wrote(b, r)
  BY <1>2, <1>4, MovesY DEF Drew, Wrote
<1> HIDE DEF r
<1>6. Wrote(t, r)
  BY <1>3, <1>4, <1>5, WroteTwice DEF Drew
<1> QED
  BY <1>1, <1>3, <1>6

LEMMA SaveWrites ==
  ASSUME NEW t, Sound(t)
  PROVE  Wrote(t, Save(t)) /\ Wrote(t, Restore(t))
<1>1. t \in Terminal /\ t.bottom > 0 /\ Params(t)
  BY DEF Sound
<1> DEFINE s == [t EXCEPT !.savex = t.curx, !.savey = t.cury]
           r == [t EXCEPT !.curx = t.savex, !.cury = t.savey]
<1>2. s \in Terminal /\ SameScreen(t, s)
  BY <1>1 DEF Terminal, SameScreen, Params
<1>3. r \in Terminal /\ SameScreen(t, r)
  BY <1>1 DEF Terminal, SameScreen, Params
<1>4. Save(t) = s /\ Restore(t) = r
  BY DEF Save, Restore
<1> HIDE DEF s, r
<1> QED
  BY <1>2, <1>3, <1>4, Moved

\* The end of a sequence, and the start of a kind that nothing handles
LEMMA StateChanges ==
  ASSUME NEW t, Sound(t)
  PROVE  Drew(t, [t EXCEPT !.escapestate = 0]) /\ Drew(t, [t EXCEPT !.escapestate = 4])
<1>1. \A e \in 0 .. 4 : Drew(t, [t EXCEPT !.escapestate = e])
  BY SetsState DEF Drew
<1>2. 0 \in 0 .. 4 /\ 4 \in 0 .. 4
  OBVIOUS
<1> QED
  BY <1>1, <1>2, Zenon

LEMMA EscapeWrites ==
  ASSUME NEW t, Sound(t), NEW cx \in Int, NEW b
  PROVE  Wrote(t, Escape(t, cx, b))
<1> DEFINE e == [t EXCEPT !.escapestate = 0]
<1>1. Wrote(t, e)
  BY StateChanges DEF Drew
<1>2. Escape(t, cx, b) = CASE b = "c" -> ResetTerminal(e)
                           [] b = "M" -> ReverseLinefeed(e, cx)
                           [] b = "7" -> Save(e)
                           [] b = "8" -> Restore(e)
                           [] b = "(" -> [e EXCEPT !.escapestate = 4]
                           [] OTHER   -> e
  BY DEF Escape
<1> HIDE DEF e
<1>3. Sound(e)
  BY <1>1 DEF Wrote
<1>4. /\ Wrote(e, ResetTerminal(e)) /\ Wrote(e, ReverseLinefeed(e, cx))
      /\ Wrote(e, Save(e)) /\ Wrote(e, Restore(e)) /\ Wrote(e, [e EXCEPT !.escapestate = 4])
      /\ Wrote(e, e)
  BY <1>3, ResetWrites, ReverseLinefeedWrites, SaveWrites, StateChanges, DrewNothing DEF Drew
<1>5. Wrote(e, Escape(t, cx, b))
  BY <1>2, <1>4
<1> QED
  BY <1>1, <1>5, WroteTwice

\* The CSI sequences, one by one
LEMMA CursorGoes ==
  ASSUME NEW t, Sound(t)
  PROVE  /\ \A x \in Int : Wrote(t, [t EXCEPT !.curx = x])
         /\ \A y \in Int : Wrote(t, [t EXCEPT !.cury = y])
         /\ \A x, y \in Int : Wrote(t, [t EXCEPT !.curx = x, !.cury = y])
<1>1. ASSUME NEW x \in Int, NEW y \in Int
      PROVE  Wrote(t, [t EXCEPT !.curx = x, !.cury = y])
  <2> DEFINE m == [t EXCEPT !.curx = x]
             r == [m EXCEPT !.cury = y]
  <2>1. Wrote(t, m)
    BY MovesX
  <2> HIDE DEF m
  <2>2. Wrote(m, r)
    BY <2>1, MovesY DEF Wrote
  <2> HIDE DEF r
  <2>3. Wrote(t, r)
    BY <2>1, <2>2, WroteTwice
  <2> QED
    BY <2>3 DEF r, m
<1> QED
  BY <1>1, MovesX, MovesY

LEMMA InsertCharsWrites ==
  ASSUME NEW t, Sound(t), NEW cx \in Int, NEW n \in Int
  PROVE  Wrote(t, InsertChars(t, cx, n))
<1>1. /\ cx * t.cury + t.curx \in Int /\ cx * t.cury + t.curx + n \in Int
      /\ cx - n - t.curx \in Int
  BY Numbers
<1> QED
  BY <1>1, CopyAndBlank DEF InsertChars, Drew

LEMMA EraseDisplayWrites ==
  ASSUME NEW t, Sound(t), NEW cx \in Int, NEW n
  PROVE  Wrote(t, EraseDisplay(t, cx, n))
<1> DEFINE pos == t.curx + t.cury * cx
           end == cx * t.chary
           e == CASE n = 0        -> BufferSet(t, pos, "", end - pos)
                  [] n = 1        -> BufferSet(t, 0, "", pos)
                  [] n \in {2, 3} -> BufferSet(t, 0, "", end)
                  [] OTHER        -> t
           r == [e EXCEPT !.curx = 0]
<1>1. EraseDisplay(t, cx, n) = r
  BY DEF EraseDisplay
<1>2. pos \in Int /\ end \in Int /\ end - pos \in Int /\ 0 \in Int
  BY Numbers
<1> HIDE DEF pos, end
<1>3. Drew(t, BufferSet(t, pos, "", end - pos)) /\ Drew(t, BufferSet(t, 0, "", pos))
      /\ Drew(t, BufferSet(t, 0, "", end)) /\ Drew(t, t)
  BY <1>2, BlankDraws, DrewNothing
<1>4. Drew(t, e)
  BY <1>3
<1> HIDE DEF e
<1>5. Wrote(e, r)
  BY <1>2, <1>4, CursorGoes, Zenon DEF Drew, Wrote
<1> QED
  BY <1>1, <1>4, <1>5, WroteTwice DEF Drew

LEMMA EraseLineWrites ==
  ASSUME NEW t, Sound(t), NEW cx \in Int, NEW n
  PROVE  Wrote(t, EraseLine(t, cx, n))
<1> DEFINE line == t.cury * cx
<1>1. line \in Int /\ t.curx \in Int /\ t.curx + line \in Int /\ cx - t.curx \in Int
  BY Numbers
<1>2. EraseLine(t, cx, n) = CASE n = 0 -> BufferSet(t, t.curx + line, "", cx - t.curx)
                              [] n = 1 -> BufferSet(t, line, "", t.curx)
                              [] n = 2 -> BufferSet(t, line, "", cx)
                              [] OTHER -> t
  BY DEF EraseLine
<1> HIDE DEF line
<1>3. Drew(t, BufferSet(t, t.curx + line, "", cx - t.curx)) /\ Drew(t, BufferSet(t, line, "", t.curx))
      /\ Drew(t, BufferSet(t, line, "", cx)) /\ Drew(t, t)
  BY <1>1, BlankDraws, DrewNothing
<1>4. Drew(t, EraseLine(t, cx, n))
  BY <1>2, <1>3
<1> QED
  BY <1>4 DEF Drew

LEMMA DeleteLinesWrites ==
  ASSUME NEW t, Sound(t), NEW cx \in Int, NEW n \in Int
  PROVE  Wrote(t, DeleteLines(t, cx, n))
<1> DEFINE start == Greater(t.cury, t.scroll_top)
           stop == t.scroll_bottom - n
           c == BufferCopy(t, start * cx, (n + start) * cx, cx * (stop - start))
           d == IF n > 0 /\ stop > start THEN BufferSet(c, stop * cx, "", cx * n) ELSE t
           r == [d EXCEPT !.curx = 0]
<1>1. DeleteLines(t, cx, n) = r
  BY DEF DeleteLines
<1>2. start \in Int /\ stop \in Int
  BY Numbers DEF Greater
<1> HIDE DEF start, stop
<1>3. /\ start * cx \in Int /\ (n + start) * cx \in Int /\ cx * (stop - start) \in Int
      /\ stop * cx \in Int /\ cx * n \in Int
  BY <1>2
<1>4. Drew(t, BufferSet(c, stop * cx, "", cx * n)) /\ Drew(t, t)
  BY <1>3, CopyAndBlank, DrewNothing
<1>5. Drew(t, d)
  BY <1>4
<1> HIDE DEF c, d
<1>6. Wrote(d, r)
  <2>1. 0 \in Int
    OBVIOUS
  <2> QED
    BY <1>5, <2>1, CursorGoes, Zenon DEF Drew, Wrote
<1> QED
  BY <1>1, <1>5, <1>6, WroteTwice DEF Drew

LEMMA DeleteCharsWrites ==
  ASSUME NEW t, Sound(t), NEW cx \in Int, NEW n \in Int
  PROVE  Wrote(t, DeleteChars(t, cx, n))
<1> DEFINE remain == cx - t.curx
           start == t.cury * cx + t.curx
           shift == remain - n - 1
           from == start + n
           length == shift + 1
           end == start + shift
           rest == remain - shift
<1>1. start \in Int /\ from \in Int /\ length \in Int /\ end \in Int /\ rest \in Int
  BY Numbers
<1> DEFINE r == BufferSet(BufferCopy(t, start, from, length), end, "", rest)
<1>2. DeleteChars(t, cx, n) = r
  BY DEF DeleteChars
<1> HIDE DEF start, from, length, end, rest
<1>3. Drew(t, r)
  BY <1>1, CopyAndBlank, ZenonT(60)
<1> HIDE DEF r
<1> QED
  BY <1>2, <1>3 DEF Drew

LEMMA EraseCharsWrites ==
  ASSUME NEW t, Sound(t), NEW cx \in Int, NEW n \in Int
  PROVE  Wrote(t, EraseChars(t, cx, n))
<1>1. t.cury * cx + t.curx \in Int /\ Lesser(Greater(n, 1), cx - t.curx) \in Int
  BY Numbers DEF Lesser, Greater
<1> QED
  BY <1>1, BlankDraws DEF EraseChars, Drew

\* The region that 'r' sets is not empty at the bottom.
LEMMA SetRegionWrites ==
  ASSUME NEW t, Sound(t), NEW cs0 \in Int, NEW cs1 \in Int
  PROVE  Wrote(t, SetRegion(t, cs0, cs1))
<1> DEFINE a == cs0 - 1
           b == cs1 - 1
           z == 0
           u == [t EXCEPT !.scroll_top = a, !.scroll_bottom = b, !.curx = z, !.cury = a]
           top == TopOf(u)
           bottom == BottomOf(u)
           r == [u EXCEPT !.top = top, !.bottom = bottom]
<1>1. SetRegion(t, cs0, cs1) = r
  BY DEF SetRegion, UpdateTopBottom
<1>2. a \in Int /\ b \in Int /\ z \in Int
  OBVIOUS
<1> HIDE DEF a, b, z
<1>3. t \in Terminal /\ t.bottom > 0 /\ Params(t)
  BY DEF Sound
<1>4. u \in Terminal /\ u.scroll_top = a /\ u.scroll_bottom = b /\ SameScreen(t, u)
  BY <1>2, <1>3 DEF Terminal, SameScreen, Params
<1> HIDE DEF u
<1>5. Wrote(t, u)
  BY <1>3, <1>4, Moved
<1>6. top \in Int /\ bottom \in Int /\ bottom > 0
  BY <1>2, <1>4, <1>5, Numbers DEF Wrote, TopOf, BottomOf
<1> HIDE DEF top, bottom
<1>7. r \in Terminal /\ SameScreen(u, r)
  BY <1>4, <1>6 DEF Terminal, SameScreen, Params
<1> HIDE DEF r
<1>8. Wrote(u, r)
  BY <1>5, <1>7, Moved DEF Wrote
<1> QED
  BY <1>1, <1>5, <1>8, WroteTwice

LEMMA SgrWrites ==
  ASSUME NEW t, Sound(t), NEW default
  PROVE  Wrote(t, Sgr(t, default))
<1>1. t \in Terminal /\ t.bottom > 0 /\ Params(t)
  BY DEF Sound
<1>2. ASSUME NEW s \in {0, 1}
      PROVE  Wrote(t, [t EXCEPT !.style = s])
  <2> DEFINE r == [t EXCEPT !.style = s]
  <2>1. r \in Terminal /\ SameScreen(t, r)
    BY <1>1 DEF Terminal, SameScreen, Params
  <2> HIDE DEF r
  <2>2. Wrote(t, r)
    BY <2>1, Moved
  <2> QED
    BY <2>2 DEF r
<1>3. 0 \in {0, 1} /\ 1 \in {0, 1}
  OBVIOUS
<1>4. Wrote(t, [t EXCEPT !.style = 0]) /\ Wrote(t, [t EXCEPT !.style = 1]) /\ Wrote(t, t)
  BY <1>2, <1>3, DrewNothing, Zenon DEF Drew
<1>5. Sgr(t, default) \in {[t EXCEPT !.style = 0], [t EXCEPT !.style = 1], t}
  BY Zenon DEF Sgr
<1> QED
  BY <1>4, <1>5, Zenon

LEMMA SetModesWrites ==
  ASSUME NEW t, Sound(t), NEW set
  PROVE  Wrote(t, SetModes(t, set))
<1> DEFINE bits == {ModeBit(t, k) : k \in 1 .. t.whichcsi + 1} \cap 0 .. 31
           p == IF set THEN t.dec_private_mode \cup bits ELSE t.dec_private_mode \ bits
           q == IF set THEN t.dec_mode \cup bits ELSE t.dec_mode \ bits
           r == [t EXCEPT !.dec_private_mode = p]
           s == [t EXCEPT !.dec_mode = q]
<1>1. t \in Terminal /\ t.bottom > 0 /\ Params(t)
  BY DEF Sound
<1>2. SetModes(t, set) = IF t.dec_priv_csi THEN r ELSE s
  BY DEF SetModes
<1>3. bits \in SUBSET (0 .. 31)
  OBVIOUS
<1> HIDE DEF bits
<1>4. p \in SUBSET (0 .. 31) /\ q \in SUBSET (0 .. 31)
  BY <1>1, <1>3 DEF Terminal
<1> HIDE DEF p, q
<1>5. r \in Terminal /\ SameScreen(t, r) /\ s \in Terminal /\ SameScreen(t, s)
  BY <1>1, <1>4 DEF Terminal, SameScreen, Params
<1> HIDE DEF r, s
<1>6. Wrote(t, r) /\ Wrote(t, s)
  BY <1>5, Moved
<1> QED
  BY <1>2, <1>6

LEMMA OverrunWrites ==
  ASSUME NEW t, Sound(t)
  PROVE  Wrote(t, [t EXCEPT !.overrun = TRUE])
<1> DEFINE b == TRUE
           r == [t EXCEPT !.overrun = b]
<1>1. t \in Terminal /\ t.bottom > 0 /\ Params(t) /\ b \in BOOLEAN
  BY DEF Sound
<1> HIDE DEF b
<1>2. r \in Terminal /\ SameScreen(t, r)
  BY <1>1 DEF Terminal, SameScreen, Params
<1> HIDE DEF r
<1>3. Wrote(t, r)
  BY <1>2, Moved
<1> QED
  BY <1>3 DEF r, b

\* The value that a sequence begins to read
LEMMA NextParameterWrites ==
  ASSUME NEW t, Sound(t)
  PROVE  Wrote(t, NextParameter(t))
<1> DEFINE k == t.whichcsi + 1
           m == -1
           p == IF k < Len(t.params) THEN [t.params EXCEPT ![k + 1] = m] ELSE Append(t.params, m)
           e == 2
           r == [t EXCEPT !.escapestate = e, !.whichcsi = k, !.params = p]
           o == [t EXCEPT !.overrun = TRUE]
<1>0. NextParameter(t) = IF k < MAX_CSI_PARAMS THEN r ELSE o
  BY DEF NextParameter
<1>o. Wrote(t, o)
  BY OverrunWrites
<1> HIDE DEF o
<1>1. /\ t \in Terminal /\ t.bottom > 0 /\ Params(t) /\ t.params \in Seq(Int)
      /\ t.whichcsi \in Nat /\ t.whichcsi < Len(t.params) /\ 2 <= Len(t.params)
  BY DEF Sound, Terminal, Params
<1>2. k \in Nat /\ e \in 0 .. 4 /\ m \in Int
  BY <1>1
<1>3. p \in Seq(Int) /\ k < Len(p) /\ 2 <= Len(p)
  <2> HIDE DEF m
  <2>1. CASE k < Len(t.params)
    <3>1. p = [t.params EXCEPT ![k + 1] = m]
      BY <2>1
    <3>2. p \in Seq(Int) /\ Len(p) = Len(t.params)
      BY <1>1, <1>2, <3>1
    <3> QED
      BY <1>1, <2>1, <3>2
  <2>2. CASE ~(k < Len(t.params))
    <3>1. p = Append(t.params, m)
      BY <2>2
    <3>2. p \in Seq(Int) /\ Len(p) = Len(t.params) + 1
      BY <1>1, <1>2, <3>1
    <3>3. Len(t.params) \in Nat
      BY <1>1
    <3> HIDE DEF p
    <3> QED
      BY <1>1, <3>2, <3>3
  <2> QED
    BY <2>1, <2>2
<1> HIDE DEF p, k, e
<1>4. /\ r \in Terminal /\ r.params = p /\ r.whichcsi = k /\ r.bottom = t.bottom
      /\ r.cell = t.cell /\ r.dirty = t.dirty /\ r.wild = t.wild /\ r.tainted = t.tainted
      /\ r.charx = t.charx /\ r.chary = t.chary
  BY <1>1, <1>2, <1>3 DEF Terminal
<1> HIDE DEF r
<1>5. SameScreen(t, r)
  BY <1>1, <1>3, <1>4 DEF SameScreen, Params
<1>6. Wrote(t, r)
  BY <1>4, <1>5, Moved
<1> QED
  BY <1>0, <1>6, <1>o

\* Whatever ends a parameter, and with whatever parameters
LEMMA EndParameterWrites ==
  ASSUME NEW t, Sound(t), NEW cx \in Int, NEW b, NEW default
  PROVE  Wrote(t, EndParameter(t, cx, b, default))
<1> DEFINE cs0 == t.params[1]
           cs1 == t.params[2]
           E == EndParameter(t, cx, b, default)
<1>1. cs0 \in Int /\ cs1 \in Int
  <2>1. t.params \in Seq(Int) /\ 2 <= Len(t.params)
    BY Numbers DEF Sound, Terminal, Params
  <2>2. 1 \in 1 .. Len(t.params) /\ 2 \in 1 .. Len(t.params)
    BY <2>1
  <2> QED
    BY <2>1, <2>2
<1>2. t.curx \in Int /\ t.cury \in Int
  BY Numbers
<1>3. CASE b = "F"
  <2> DEFINE x == 0
             y == t.cury - cs0
  <2>1. E = [t EXCEPT !.curx = x, !.cury = y]
    BY <1>3 DEF EndParameter
  <2>2. x \in Int /\ y \in Int
    BY <1>1, <1>2 DEF Greater
  <2> HIDE DEF x, y
  <2>3. Wrote(t, [t EXCEPT !.curx = x, !.cury = y])
    BY <2>2, CursorGoes, Zenon
  <2> QED
    BY <2>1, <2>3
<1>4. CASE b = "A"
  <2> DEFINE y == t.cury - cs0
  <2>1. E = [t EXCEPT !.cury = y]
    BY <1>4 DEF EndParameter
  <2>2. y \in Int
    BY <1>1, <1>2 DEF Greater
  <2> HIDE DEF y
  <2>3. Wrote(t, [t EXCEPT !.cury = y])
    BY <2>2, CursorGoes, Zenon
  <2> QED
    BY <2>1, <2>3
<1>5. CASE b = "E"
  <2> DEFINE x == 0
             y == t.cury + cs0
  <2>1. E = [t EXCEPT !.curx = x, !.cury = y]
    BY <1>5 DEF EndParameter
  <2>2. x \in Int /\ y \in Int
    BY <1>1, <1>2 DEF Greater
  <2> HIDE DEF x, y
  <2>3. Wrote(t, [t EXCEPT !.curx = x, !.cury = y])
    BY <2>2, CursorGoes, Zenon
  <2> QED
    BY <2>1, <2>3
<1>6. CASE b = "B"
  <2> DEFINE y == t.cury + cs0
  <2>1. E = [t EXCEPT !.cury = y]
    BY <1>6 DEF EndParameter
  <2>2. y \in Int
    BY <1>1, <1>2 DEF Greater
  <2> HIDE DEF y
  <2>3. Wrote(t, [t EXCEPT !.cury = y])
    BY <2>2, CursorGoes, Zenon
  <2> QED
    BY <2>1, <2>3
<1>7. CASE b = "C"
  <2> DEFINE x == t.curx + cs0
  <2>1. E = [t EXCEPT !.curx = x]
    BY <1>7 DEF EndParameter
  <2>2. x \in Int
    BY <1>1, <1>2 DEF Greater
  <2> HIDE DEF x
  <2>3. Wrote(t, [t EXCEPT !.curx = x])
    BY <2>2, CursorGoes, Zenon
  <2> QED
    BY <2>1, <2>3
<1>8. CASE b = "D"
  <2> DEFINE x == 0
  <2>1. E = [t EXCEPT !.curx = x]
    BY <1>8 DEF EndParameter
  <2>2. x \in Int
    BY <1>1, <1>2 DEF Greater
  <2> HIDE DEF x
  <2>3. Wrote(t, [t EXCEPT !.curx = x])
    BY <2>2, CursorGoes, Zenon
  <2> QED
    BY <2>1, <2>3
<1>9. CASE b = "G"
  <2> DEFINE x == cs0 - 1
  <2>1. E = [t EXCEPT !.curx = x]
    BY <1>9 DEF EndParameter
  <2>2. x \in Int
    BY <1>1, <1>2 DEF Greater
  <2> HIDE DEF x
  <2>3. Wrote(t, [t EXCEPT !.curx = x])
    BY <2>2, CursorGoes, Zenon
  <2> QED
    BY <2>1, <2>3
<1>10. CASE b = "d"
  <2> DEFINE y == cs0 - 1
  <2>1. E = [t EXCEPT !.cury = y]
    BY <1>10 DEF EndParameter
  <2>2. y \in Int
    BY <1>1, <1>2 DEF Greater
  <2> HIDE DEF y
  <2>3. Wrote(t, [t EXCEPT !.cury = y])
    BY <2>2, CursorGoes, Zenon
  <2> QED
    BY <2>1, <2>3
<1>11. CASE b \in {"f", "H"}
  <2> DEFINE x == Greater(cs1, 1) - 1
             y == Greater(cs0, 1) - 1
  <2>1. E = [t EXCEPT !.curx = x, !.cury = y]
    BY <1>11 DEF EndParameter
  <2>2. x \in Int /\ y \in Int
    BY <1>1, <1>2 DEF Greater
  <2> HIDE DEF x, y
  <2>3. Wrote(t, [t EXCEPT !.curx = x, !.cury = y])
    BY <2>2, CursorGoes, Zenon
  <2> QED
    BY <2>1, <2>3
<1>12. CASE b = "@"
  <2>1. E = InsertChars(t, cx, cs0)
    BY <1>12 DEF EndParameter
  <2> HIDE DEF cs0, cs1
  <2> QED
    BY <1>1, <2>1, InsertCharsWrites
<1>13. CASE b = "h"
  <2>1. E = SetModes(t, TRUE)
    BY <1>13 DEF EndParameter
  <2> HIDE DEF cs0, cs1
  <2> QED
    BY <1>1, <2>1, SetModesWrites
<1>14. CASE b = "l"
  <2>1. E = SetModes(t, FALSE)
    BY <1>14 DEF EndParameter
  <2> HIDE DEF cs0, cs1
  <2> QED
    BY <1>1, <2>1, SetModesWrites
<1>15. CASE b = "s"
  <2>1. E = Save(t)
    BY <1>15 DEF EndParameter
  <2> HIDE DEF cs0, cs1
  <2> QED
    BY <1>1, <2>1, SaveWrites
<1>16. CASE b = "u"
  <2>1. E = Restore(t)
    BY <1>16 DEF EndParameter
  <2> HIDE DEF cs0, cs1
  <2> QED
    BY <1>1, <2>1, SaveWrites
<1>17. CASE b = "S"
  <2>1. E = ScrollUp(t, cs0)
    BY <1>17 DEF EndParameter
  <2> HIDE DEF cs0, cs1
  <2> QED
    BY <1>1, <2>1, ScrollUpDraws DEF Drew
<1>18. CASE b = "T"
  <2>1. E = ScrollDown(t, cs0)
    BY <1>18 DEF EndParameter
  <2> HIDE DEF cs0, cs1
  <2> QED
    BY <1>1, <2>1, ScrollDownDraws DEF Drew
<1>19. CASE b = "J"
  <2>1. E = EraseDisplay(t, cx, IF default THEN 0 ELSE cs0)
    BY <1>19 DEF EndParameter
  <2> HIDE DEF cs0, cs1
  <2> QED
    BY <1>1, <2>1, EraseDisplayWrites
<1>20. CASE b = "K"
  <2>1. E = EraseLine(t, cx, IF default THEN 0 ELSE cs0)
    BY <1>20 DEF EndParameter
  <2> HIDE DEF cs0, cs1
  <2> QED
    BY <1>1, <2>1, EraseLineWrites
<1>21. CASE b = "L"
  <2>1. E = InsertBlankLines(t, cs0)
    BY <1>21 DEF EndParameter
  <2> HIDE DEF cs0, cs1
  <2> QED
    BY <1>1, <2>1, InsertBlankLinesDraws DEF Drew
<1>22. CASE b = "M"
  <2>1. E = DeleteLines(t, cx, cs0)
    BY <1>22 DEF EndParameter
  <2> HIDE DEF cs0, cs1
  <2> QED
    BY <1>1, <2>1, DeleteLinesWrites
<1>23. CASE b = "P"
  <2> DEFINE n == IF cs0 < 0 THEN 1 ELSE cs0
  <2>1. E = DeleteChars(t, cx, n)
    BY <1>23 DEF EndParameter
  <2>2. n \in Int
    BY <1>1
  <2> HIDE DEF n
  <2> QED
    BY <2>1, <2>2, DeleteCharsWrites
<1>24. CASE b = "X"
  <2>1. E = EraseChars(t, cx, cs0)
    BY <1>24 DEF EndParameter
  <2> HIDE DEF cs0, cs1
  <2> QED
    BY <1>1, <2>1, EraseCharsWrites
<1>25. CASE b = "r"
  <2>1. E = SetRegion(t, cs0, cs1)
    BY <1>25 DEF EndParameter
  <2> HIDE DEF cs0, cs1
  <2> QED
    BY <1>1, <2>1, SetRegionWrites
<1>26. CASE b = "m"
  <2>1. E = Sgr(t, default)
    BY <1>26 DEF EndParameter
  <2> HIDE DEF cs0, cs1
  <2> QED
    BY <1>1, <2>1, SgrWrites
<1>27. CASE b = ";"
  <2>1. E = NextParameter(t)
    BY <1>27 DEF EndParameter
  <2> QED
    BY <2>1, NextParameterWrites
<1>28. CASE b \notin {"F", "A", "E", "B", "C", "D", "G", "d", "f", "H", "@", "h", "l", "s", "u", "S", "T",
                         "J", "K", "L", "M", "P", "X", "r", "m", ";"}
  <2>1. E = t
    BY <1>28 DEF EndParameter
  <2> QED
    BY <2>1, DrewNothing DEF Drew
<1> QED
  BY <1>3, <1>4, <1>5, <1>6, <1>7, <1>8, <1>9, <1>10, <1>11, <1>12, <1>13, <1>14, <1>15, <1>16, <1>17, <1>18, <1>19, <1>20, <1>21, <1>22, <1>23, <1>24, <1>25, <1>26, <1>27, <1>28

LEMMA CurrentParameter ==
  ASSUME NEW t, Sound(t)
  PROVE  t.params[t.whichcsi + 1] \in Int
<1>1. t.params \in Seq(Int) /\ t.whichcsi \in Nat /\ t.whichcsi < Len(t.params)
  BY DEF Sound, Params, Terminal
<1>2. t.whichcsi + 1 \in 1 .. Len(t.params)
  BY <1>1
<1> QED
  BY <1>1, <1>2

LEMMA SetsParameter ==
  ASSUME NEW t, Sound(t), NEW v \in Int
  PROVE  Wrote(t, [t EXCEPT !.params[t.whichcsi + 1] = v])
<1> DEFINE k == t.whichcsi + 1
           p == [t.params EXCEPT ![k] = v]
           r == [t EXCEPT !.params = p]
<1>1. t \in Terminal /\ t.bottom > 0 /\ Params(t) /\ t.params \in Seq(Int) /\ t.whichcsi \in Nat
  BY DEF Sound, Terminal
<1>2. p \in Seq(Int) /\ Len(p) = Len(t.params)
  BY <1>1 DEF Params
<1>3. [t EXCEPT !.params[t.whichcsi + 1] = v] = r
  OBVIOUS
<1> HIDE DEF p
<1>4. /\ r \in Terminal /\ r.params = p /\ r.whichcsi = t.whichcsi /\ r.bottom = t.bottom
      /\ r.cell = t.cell /\ r.dirty = t.dirty /\ r.wild = t.wild /\ r.tainted = t.tainted
      /\ r.charx = t.charx /\ r.chary = t.chary
  BY <1>1, <1>2 DEF Terminal
<1> HIDE DEF r
<1>5. SameScreen(t, r)
  BY <1>1, <1>2, <1>4 DEF SameScreen, Params
<1>6. Wrote(t, r)
  BY <1>4, <1>5, Moved
<1> QED
  BY <1>3, <1>6, Zenon

LEMMA CsiWrites ==
  ASSUME NEW t, Sound(t), NEW cx \in Int, NEW b
  PROVE  Wrote(t, Csi(t, cx, b))
<1> DEFINE default == t.params[t.whichcsi + 1] < 0
           v == IF default THEN 1 ELSE t.params[t.whichcsi + 1]
           m == [t EXCEPT !.escapestate = 0]
           e == [m EXCEPT !.params[m.whichcsi + 1] = v]
<1>1. v \in Int /\ t \in Terminal
  BY CurrentParameter DEF Sound
<1>2. m.whichcsi = t.whichcsi
  BY <1>1 DEF Terminal
<1>3. Csi(t, cx, b) = EndParameter(e, cx, b, default)
  <2>1. e = [t EXCEPT !.escapestate = 0, !.params[t.whichcsi + 1] = IF default THEN 1 ELSE @]
    BY <1>1, <1>2 DEF Terminal
  <2> QED
    BY <2>1, Zenon DEF Csi
<1>4. Wrote(t, m)
  BY StateChanges DEF Drew
<1> HIDE DEF m, v
<1>5. Wrote(m, e)
  BY <1>1, <1>4, SetsParameter DEF Wrote
<1> HIDE DEF e, default
<1>6. Wrote(e, EndParameter(e, cx, b, default))
  BY <1>5, EndParameterWrites DEF Wrote
<1>7. Wrote(t, EndParameter(e, cx, b, default))
  BY <1>4, <1>5, <1>6, WroteTwice
<1> QED
  BY <1>3, <1>7

LEMMA DigitsCount == \A b \in DOMAIN DigitValue : DigitValue[b] \in Int
<1> SUFFICES ASSUME NEW b \in DOMAIN DigitValue PROVE DigitValue[b] \in Int
  OBVIOUS
<1> DEFINE place == CHOOSE i \in 1 .. 10 : Digits[i] = b
<1>1. b \in ToSet(Digits) /\ DigitValue[b] = place - 1
  BY DEF DigitValue
<1>2. \E i \in 1 .. 10 : Digits[i] = b
  <2>1. DOMAIN Digits = 1 .. 10
    BY DEF Digits
  <2> QED
    BY <1>1, <2>1 DEF ToSet
<1>3. place \in 1 .. 10
  BY <1>2
<1> HIDE DEF place
<1>4. place - 1 \in Int
  BY <1>3
<1> QED
  BY <1>1, <1>4

LEMMA DigitBytes ==
  DOMAIN DigitValue = {"0", "1", "2", "3", "4", "5", "6", "7", "8", "9"}
<1>1. DOMAIN Digits = 1 .. 10
  BY DEF Digits
<1>2. 1 .. 10 = {1, 2, 3, 4, 5, 6, 7, 8, 9, 10}
  OBVIOUS
<1>3. ToSet(Digits) = {Digits[i] : i \in {1, 2, 3, 4, 5, 6, 7, 8, 9, 10}}
  BY <1>1, <1>2 DEF ToSet
<1>4. /\ Digits[1] = "0" /\ Digits[2] = "1" /\ Digits[3] = "2" /\ Digits[4] = "3"
      /\ Digits[5] = "4" /\ Digits[6] = "5" /\ Digits[7] = "6" /\ Digits[8] = "7"
      /\ Digits[9] = "8" /\ Digits[10] = "9"
  BY DEF Digits
<1>5. {Digits[i] : i \in {1, 2, 3, 4, 5, 6, 7, 8, 9, 10}}
        = {"0", "1", "2", "3", "4", "5", "6", "7", "8", "9"}
  BY <1>4
<1> QED
  BY <1>3, <1>5 DEF DigitValue

LEMMA AddDigitWrites ==
  ASSUME NEW t, Sound(t), NEW d \in Int
  PROVE  Wrote(t, AddDigit(t, d))
<1>1. t.params[t.whichcsi + 1] \in Int
  BY CurrentParameter
<1> DEFINE g == Greater(t.params[t.whichcsi + 1], 0)
<1>2. g \in Int
  BY <1>1 DEF Greater
<1> HIDE DEF g
<1> DEFINE v == 10 * g + d
<1>3. v \in Int
  BY <1>2
<1> HIDE DEF v
<1>4. Wrote(t, [t EXCEPT !.params[t.whichcsi + 1] = v])
  BY <1>3, SetsParameter
<1>5. AddDigit(t, d) = [t EXCEPT !.params[t.whichcsi + 1] = v]
  <2>1. t.params \in Seq(Int) /\ t.whichcsi \in Nat /\ t.whichcsi < Len(t.params) /\ t \in Terminal
    BY DEF Sound, Params, Terminal
  <2> QED
    BY <2>1 DEF AddDigit, v, g, Terminal
<1> QED
  BY <1>4, <1>5

LEMMA ParameterWrites ==
  ASSUME NEW t, Sound(t), NEW cx \in Int, NEW b
  PROVE  Wrote(t, Parameter(t, cx, b))
<1>1. t \in Terminal /\ t.bottom > 0 /\ Params(t)
  BY DEF Sound
<1>2. CASE b = ";" /\ t.escapestart = "]"
  <2> DEFINE e == 3
             z == 0
             r == [t EXCEPT !.escapestate = e, !.osc_command_place = z]
  <2>1. Parameter(t, cx, b) = r
    BY <1>2, DigitBytes DEF Parameter
  <2>2. e \in 0 .. 4 /\ z \in Int
    OBVIOUS
  <2> HIDE DEF e, z
  <2>3. r \in Terminal /\ SameScreen(t, r)
    BY <1>1, <2>2 DEF Terminal, SameScreen, Params
  <2> HIDE DEF r
  <2> QED
    BY <2>1, <2>3, Moved
<1>3. CASE b = "?" /\ t.whichcsi = 0
  <2> DEFINE k == TRUE
             r == [t EXCEPT !.dec_priv_csi = k]
  <2>1. Parameter(t, cx, b) = r
    BY <1>3, DigitBytes DEF Parameter
  <2>2. k \in BOOLEAN
    OBVIOUS
  <2> HIDE DEF k
  <2>3. r \in Terminal /\ SameScreen(t, r)
    BY <1>1, <2>2 DEF Terminal, SameScreen, Params
  <2> HIDE DEF r
  <2> QED
    BY <2>1, <2>3, Moved
<1>4. CASE /\ b \in DOMAIN DigitValue /\ ~(b = ";" /\ t.escapestart = "]")
           /\ ~(b = "?" /\ t.whichcsi = 0)
  <2>1. Parameter(t, cx, b) = AddDigit(t, DigitValue[b])
    BY <1>4 DEF Parameter
  <2> QED
    BY <1>4, <2>1, DigitsCount, AddDigitWrites
<1>5. CASE /\ b \notin DOMAIN DigitValue /\ ~(b = ";" /\ t.escapestart = "]")
           /\ ~(b = "?" /\ t.whichcsi = 0)
  <2>1. Parameter(t, cx, b) = Csi(t, cx, b)
    BY <1>5 DEF Parameter
  <2> QED
    BY <2>1, CsiWrites
<1> QED
  BY <1>2, <1>3, <1>4, <1>5

LEMMA OscByteWrites ==
  ASSUME NEW t, Sound(t), NEW b
  PROVE  Wrote(t, OscByte(t, b))
<1> DEFINE o == Lesser(t.osc_command_place + 1, OSC_SIZE)
           r == [t EXCEPT !.osc_command_place = o]
<1>1. t \in Terminal /\ t.bottom > 0 /\ Params(t)
  BY DEF Sound
<1>2. OscByte(t, b) = IF b = "BEL" THEN [t EXCEPT !.escapestate = 0] ELSE r
  BY DEF OscByte
<1>3. o \in Int
  BY <1>1, TermAssumption DEF Lesser, Terminal
<1> HIDE DEF o
<1>4. r \in Terminal /\ SameScreen(t, r)
  BY <1>1, <1>3 DEF Terminal, SameScreen, Params
<1> HIDE DEF r
<1> QED
  BY <1>2, <1>4, Moved, StateChanges DEF Drew

LEMMA SequenceWrites ==
  ASSUME NEW t, Sound(t), t.escapestate # 0, NEW cx \in Int, NEW b
  PROVE  Wrote(t, Sequence(t, cx, b))
<1>1. t.escapestate \in 1 .. 4
  BY DEF Sound, Terminal
<1> QED
  BY <1>1, EscapeWrites, ParameterWrites, OscByteWrites, DrewNothing DEF Sequence, Drew

\* KeepCursor puts the cursor on the screen, or at least below its top.
LEMMA KeepCursorSteps ==
  ASSUME NEW t, Sound(t), 2 * t.chary <= historyy + 1, NEW cx \in Int, cx > 0
  PROVE  Stepped(t, KeepCursor(t, cx))
<1> DEFINE low == Greater(t.cury, TopOf(t))
           y == IF low >= BottomOf(t) THEN BottomOf(t) - 1 ELSE low
           x == Lesser(Greater(t.curx, 0), cx - 1)
           r == [t EXCEPT !.cury = y, !.curx = x]
<1>1. KeepCursor(t, cx) = r
  BY DEF KeepCursor
<1>2. x \in Int /\ x >= 0 /\ y \in Int /\ y >= 0
  BY Numbers DEF TopOf, BottomOf, Lesser, Greater
<1> HIDE DEF x, y
<1>3. t \in Terminal /\ t.bottom > 0 /\ Params(t)
  BY DEF Sound
<1>4. r \in Terminal /\ r.curx = x /\ r.cury = y /\ r.chary = t.chary /\ SameScreen(t, r)
  BY <1>2, <1>3 DEF Terminal, SameScreen, Params
<1> HIDE DEF r
<1>5. Wrote(t, r)
  BY <1>4, Moved
<1>6. Placed(r)
  BY <1>2, <1>4, Numbers DEF Placed
<1> QED
  BY <1>1, <1>5, <1>6 DEF Stepped

LEMMA CharacterSteps ==
  ASSUME NEW t, Sound(t), Placed(t), NEW cx \in Int, cx > 0, NEW b \in STRING
  PROVE  Stepped(t, Character(t, cx, b))
<1> DEFINE e == [t EXCEPT !.escapestate = 0]
<1>1. b \in Bytes
  BY Zenon DEF Bytes
<1>2. Drew(t, e)
  BY StateChanges
<1> HIDE DEF e
<1>3. CASE t.escapestate = 0
  <2>1. Character(t, cx, b) = Put(t, cx, b)
    BY <1>3 DEF Character
  <2> QED
    BY <1>1, <2>1, PutSteps
<1>4. Sound(e) /\ Placed(e) /\ Wrote(t, e)
  <2>1. Sound(e) /\ Wrote(t, e) /\ e.curx >= 0 /\ e.cury >= t.cury
    BY <1>2, Numbers DEF Drew, Wrote, Placed
  <2> QED
    BY <2>1, StillPlaced
<1>5. Stepped(t, Linefeed(e)) /\ Stepped(t, Newline(e))
  BY <1>4, LinefeedSteps, NewlineSteps, WroteTwice DEF Stepped
<1>6. CASE t.escapestate = 1 /\ b = "D"
  <2>1. Character(t, cx, b) = Linefeed(e)
    BY <1>6 DEF Character, e
  <2> QED
    BY <1>5, <2>1
<1>7. CASE t.escapestate = 1 /\ b = "E"
  <2>1. Character(t, cx, b) = Newline(e)
    BY <1>7 DEF Character, e
  <2> QED
    BY <1>5, <2>1
<1>8. CASE t.escapestate = 1 /\ b \in {"[", "]"}
  <2>1. Character(t, cx, b) = CsiStart(t, b)
    BY <1>8 DEF Character
  <2>2. Drew(t, CsiStart(t, b))
    BY <1>1, CsiStartSteps
  <2> QED
    BY <2>1, <2>2, DrewSteps
<1>9. CASE t.escapestate # 0 /\ ~(t.escapestate = 1 /\ b \in {"D", "E", "[", "]"})
  <2> DEFINE s == Sequence(t, cx, b)
  <2>1. Character(t, cx, b) = KeepCursor(s, cx)
    BY <1>9 DEF Character
  <2>2. Wrote(t, s)
    BY <1>9, SequenceWrites
  <2> HIDE DEF s
  <2>3. Sound(s) /\ 2 * s.chary <= historyy + 1
    BY <2>2 DEF Wrote, Tainted, Placed
  <2>4. Stepped(s, KeepCursor(s, cx))
    BY <2>3, KeepCursorSteps
  <2> QED
    BY <2>1, <2>2, <2>4, WroteTwice DEF Stepped
<1> QED
  BY <1>3, <1>6, <1>7, <1>8, <1>9

\* Whatever EmitChar is given, and with whatever width it read before.
LEMMA EmitCharSteps ==
  ASSUME NEW t, Sound(t), Placed(t), NEW cx \in Int, cx > 0, NEW b \in STRING
  PROVE  Stepped(t, EmitChar(t, cx, b))
<1>1. b \in Bytes
  BY Zenon DEF Bytes
<1>2. Stepped(t, t)
  BY DrewNothing, DrewSteps
<1>3. CASE b = "CR"
  <2>1. EmitChar(t, cx, b) = Linefeed(t)
    BY <1>3 DEF EmitChar
  <2> QED
    BY <2>1, LinefeedSteps
<1>4. CASE b = "LF"
  <2>1. EmitChar(t, cx, b) = Newline(t)
    BY <1>4 DEF EmitChar
  <2> QED
    BY <2>1, NewlineSteps
<1>5. CASE (b = "BEL" /\ t.escapestate # 3) \/ b = "SO"
  <2>1. EmitChar(t, cx, b) = t
    BY <1>5 DEF EmitChar
  <2> QED
    BY <1>2, <2>1
<1>6. ASSUME NEW x \in Int, x >= 0
      PROVE  Stepped(t, [t EXCEPT !.curx = x])
  <2> DEFINE r == [t EXCEPT !.curx = x]
  <2>1. Wrote(t, r) /\ r.curx = x /\ r.cury = t.cury
    BY MovesX
  <2> HIDE DEF r
  <2>2. Placed(r)
    BY <1>6, <2>1, StillPlaced, Numbers
  <2>3. Stepped(t, r)
    BY <2>1, <2>2 DEF Stepped
  <2> QED
    BY <2>3 DEF r
<1>7. CASE b = "BS"
  <2> DEFINE x == IF t.curx # 0 THEN t.curx - 1 ELSE t.curx
  <2>1. EmitChar(t, cx, b) = [t EXCEPT !.curx = x]
    BY <1>7 DEF EmitChar
  <2>2. x \in Int /\ x >= 0
    BY Numbers DEF Placed
  <2> HIDE DEF x
  <2>3. Stepped(t, [t EXCEPT !.curx = x])
    BY <1>6, <2>2
  <2> QED
    BY <2>1, <2>3
<1>8. CASE b = "TAB"
  <2> DEFINE x == Lesser((t.curx \div 8) * 8 + 8, cx - 1)
  <2>1. EmitChar(t, cx, b) = [t EXCEPT !.curx = x]
    BY <1>8 DEF EmitChar
  <2>2. x \in Int /\ x >= 0
    BY Numbers DEF Placed, Lesser
  <2> HIDE DEF x
  <2>3. Stepped(t, [t EXCEPT !.curx = x])
    BY <1>6, <2>2
  <2> QED
    BY <2>1, <2>3
<1>9. CASE b = "CAN" \/ b = "ESC"
  <2>1. EmitChar(t, cx, b) \in {[t EXCEPT !.escapestate = 0], [t EXCEPT !.escapestate = 1]}
    BY <1>9 DEF EmitChar
  <2>2. \A e \in 0 .. 4 : Drew(t, [t EXCEPT !.escapestate = e])
    BY SetsState DEF Drew
  <2>3. 0 \in 0 .. 4 /\ 1 \in 0 .. 4
    OBVIOUS
  <2>4. Drew(t, EmitChar(t, cx, b))
    BY <2>1, <2>2, <2>3, Zenon
  <2> QED
    BY <2>4, DrewSteps
<1>10. CASE b = "CSI"
  <2>1. EmitChar(t, cx, b) = CsiStart(t, b)
    BY <1>10 DEF EmitChar
  <2> QED
    BY <1>1, <2>1, CsiStartSteps, DrewSteps
<1>11. CASE b \notin {"CR", "LF", "BS", "TAB", "SO", "CAN", "ESC", "CSI"}
            /\ ~(b = "BEL" /\ t.escapestate # 3)
  <2>1. EmitChar(t, cx, b) = Character(t, cx, b)
    BY <1>11 DEF EmitChar
  <2> QED
    BY <2>1, CharacterSteps
<1> QED
  BY <1>3, <1>4, <1>5, <1>7, <1>8, <1>9, <1>10, <1>11

-----------------------------------------------------------------------------
(* The window                                                              *)

LEMMA SetsScrollback ==
  ASSUME NEW t, Sound(t), NEW n \in Int
  PROVE  Drew(t, [t EXCEPT !.scrollback = n])
<1> DEFINE r == [t EXCEPT !.scrollback = n]
<1>1. t \in Terminal /\ t.bottom > 0 /\ Params(t)
  BY DEF Sound
<1>2. r \in Terminal /\ SameScreen(t, r) /\ r.curx = t.curx /\ r.cury = t.cury
  BY <1>1 DEF Terminal, SameScreen, Params
<1> HIDE DEF r
<1>3. Drew(t, r)
  BY <1>2, Moved DEF Drew
<1> QED
  BY <1>3 DEF r

LEMMA TermScrollDraws ==
  ASSUME NEW t, Sound(t), NEW amount \in Int
  PROVE  Drew(t, TermScroll(t, amount))
<1> DEFINE sb == Greater(t.scrollback + amount, 0)
           n == IF sb >= historyy - t.chary THEN historyy - t.chary - 1 ELSE sb
<1>1. TermScroll(t, amount) = [t EXCEPT !.scrollback = n]
  BY DEF TermScroll
<1>2. n \in Int
  BY Numbers DEF Greater
<1> HIDE DEF n
<1> QED
  BY <1>1, <1>2, SetsScrollback

\* A line of the old buffer has its place in it, whatever the new width.
LEMMA OldLine ==
  ASSUME NEW raw \in Nat, NEW w \in Nat \ {0}, NEW c \in Nat \ {0}, NEW n \in Nat,
         raw < n * w, raw % w < c
  PROVE  /\ (raw \div w) * c + (raw % w) \in Nat
         /\ (raw \div w) * c + (raw % w) < n * c
<1> DEFINE line == raw \div w
           ch == raw % w
<1>1. line \in Nat /\ ch \in Nat /\ raw = line * w + ch
  OBVIOUS
<1> HIDE DEF line, ch
<1>2. line < n
  <2> SUFFICES ASSUME n <= line PROVE FALSE
    BY <1>1
  <2>1. n * w <= line * w
    BY <1>1
  <2> QED
    BY <1>1, <2>1
<1>3. (line + 1) * c <= n * c
  BY <1>1, <1>2
<1>4. line * c + ch \in Nat /\ line * c + ch < (line + 1) * c
  BY <1>1 DEF ch
<1>5. n * c \in Nat /\ (line + 1) * c \in Nat
  BY <1>1
<1>6. line * c + ch < n * c
  BY <1>3, <1>4, <1>5
<1> QED
  BY <1>4, <1>6 DEF line, ch

\* A terminal of any shape, also the one that Init starts from, which has no
\* region yet
Shaped(t) ==
  /\ t \in Terminal
  /\ t.charx > 0 /\ t.chary > 0 /\ t.chary <= historyy
  /\ t.cell \in [Indices(t.charx, t.chary) -> Cell]
  /\ ~t.wild /\ Params(t)

LEMMA ResizeScreenWrites ==
  ASSUME NEW t, Shaped(t), NEW w \in Int, NEW h \in Int, w > 0, h > 0, FitsHistory(h)
  PROVE  LET r == ResizeScreen(t, w, h)
         IN /\ Sound(r) /\ r.charx = w /\ r.chary = h /\ r.curx = t.curx
            /\ r.cury = t.cury + h - t.chary /\ r.dirty = Indices(w, h) /\ r.tainted
            /\ Clean(t) => Clean(r)
            /\ FreshModes(t) => FreshModes(r) /\ r.top = 0 /\ r.bottom = h
<1> DEFINE I == Indices(w, h)
           c == [i \in I |->
                   LET raw == i + (historyy - h) * w
                       ch == raw % w
                       line == raw \div w
                   IN IF ch < t.charx
                      THEN t.cell[line * t.charx + ch - (historyy - t.chary) * t.charx]
                      ELSE Blank]
           y == t.cury + h - t.chary
           b == TRUE
           r == [t EXCEPT !.cell = c, !.dirty = I, !.tainted = b, !.cury = y,
                          !.charx = w, !.chary = h]
           top == TopOf(r)
           bottom == BottomOf(r)
           s == [r EXCEPT !.top = top, !.bottom = bottom]
<1>1. /\ t \in Terminal /\ t.charx \in Int /\ t.chary \in Int /\ t.cury \in Int
      /\ t.charx > 0 /\ t.chary > 0 /\ t.chary <= historyy /\ historyy \in Nat
      /\ t.cell \in [Indices(t.charx, t.chary) -> Cell]
  BY TermAssumption DEF Shaped, Terminal
<1>2. ResizeScreen(t, w, h) = s
  BY DEF ResizeScreen, UpdateTopBottom
<1>3. h \in Int /\ h <= historyy
  BY <1>1 DEF FitsHistory
<1>4. c \in [I -> Cell] /\ (Clean(t) => \A i \in I : c[i] = Blank)
  <2> SUFFICES ASSUME NEW i \in I PROVE c[i] \in Cell /\ (Clean(t) => c[i] = Blank)
    OBVIOUS
  <2> DEFINE raw == i + (historyy - h) * w
             ch == raw % w
             line == raw \div w
             old == line * t.charx + ch - (historyy - t.chary) * t.charx
  <2>1. raw \in Nat /\ raw < historyy * w
    <3> DEFINE a == (historyy - h) * w
               z == h * w
               n == historyy * w
    <3>1. a \in Int /\ z \in Int /\ n \in Int /\ a + z = n /\ (h - historyy) * w = -a
      BY <1>1
    <3>2. i \in (h - historyy) * w .. h * w - 1
      BY DEF Indices
    <3> HIDE DEF a, z, n
    <3>3. i \in Int /\ -a <= i /\ i <= z - 1
      BY <3>1, <3>2 DEF z
    <3>4. raw = i + a
      BY DEF a
    <3>5. raw \in Nat /\ raw < n
      BY <3>1, <3>3, <3>4
    <3> QED
      BY <3>5 DEF n
  <2>2. c[i] = IF ch < t.charx THEN t.cell[old] ELSE Blank
    BY Zenon
  <2> HIDE DEF c
  <2>3. ASSUME ch < t.charx
        PROVE  old \in Indices(t.charx, t.chary)
    <3> DEFINE m == line * t.charx + ch
               a == (historyy - t.chary) * t.charx
               z == t.chary * t.charx
    <3>1. m \in Nat /\ m < historyy * t.charx
      <4> HIDE DEF raw
      <4>1. w \in Nat \ {0} /\ t.charx \in Nat \ {0} /\ raw % w < t.charx
        BY <1>1, <2>3
      <4> QED
        BY <1>1, <2>1, <4>1, OldLine
    <3>2. /\ a \in Int /\ z \in Int /\ a + z = historyy * t.charx
          /\ (t.chary - historyy) * t.charx = -a
      BY <1>1
    <3>3. old = m - a
      <4> DEFINE q == line * t.charx
      <4>1. line \in Int /\ ch \in Int /\ old = q + (ch - a) /\ m = q + ch
        <5>1. raw % w \in Int /\ raw \div w \in Int
          BY <2>1
        <5> QED
          BY <5>1, Zenon
      <4>2. q \in Int
        BY <1>1, <4>1
      <4> HIDE DEF old, m, a, q, ch
      <4> QED
        BY <3>2, <4>1, <4>2
    <3>4. Indices(t.charx, t.chary) = -a .. z - 1
      BY <3>2 DEF Indices
    <3> HIDE DEF m, a, z, old
    <3> QED
      BY <3>1, <3>2, <3>3, <3>4
  <2>4. Blank \in Cell
    <3>1. "" \in Bytes
      BY DEF Bytes
    <3> QED
      BY <3>1 DEF Blank, Cell
  <2> HIDE DEF old, ch
  <2> QED
    BY <1>1, <2>2, <2>3, <2>4 DEF Clean
<1>5. c \in Arrays /\ I \subseteq Int
  <2>1. I \subseteq Int
    BY <1>1 DEF Indices
  <2> QED
    BY <1>3, <1>4, <2>1, ArrayOf
<1>6. y \in Int /\ b \in BOOLEAN /\ b
  BY <1>1
<1> HIDE DEF c, I, y, b
<1>7. /\ r \in Terminal /\ r.cell = c /\ r.dirty = I /\ r.wild = t.wild /\ r.tainted = b
      /\ r.charx = w /\ r.chary = h /\ r.curx = t.curx /\ r.cury = y
      /\ r.whichcsi = t.whichcsi /\ r.params = t.params
      /\ r.style = t.style /\ r.escapestate = t.escapestate /\ r.scroll_top = t.scroll_top
      /\ r.scroll_bottom = t.scroll_bottom /\ r.dec_private_mode = t.dec_private_mode
  BY <1>1, <1>4, <1>5, <1>6 DEF Terminal
<1> HIDE DEF r
<1>8. r.scroll_top \in Int /\ r.scroll_bottom \in Int
  BY <1>7 DEF Terminal
<1>9. top \in Int /\ bottom \in Int /\ bottom > 0
  BY <1>7, <1>8 DEF TopOf, BottomOf
<1> HIDE DEF top, bottom
<1>10. /\ s \in Terminal /\ s.bottom = bottom /\ s.cell = r.cell /\ s.dirty = r.dirty
       /\ s.wild = r.wild /\ s.tainted = r.tainted /\ s.charx = r.charx /\ s.chary = r.chary
       /\ s.curx = r.curx /\ s.cury = r.cury /\ s.whichcsi = r.whichcsi /\ s.params = r.params
       /\ s.style = r.style /\ s.escapestate = r.escapestate /\ s.scroll_top = r.scroll_top
       /\ s.scroll_bottom = r.scroll_bottom /\ s.dec_private_mode = r.dec_private_mode
       /\ s.top = top
  BY <1>7, <1>9 DEF Terminal
<1> HIDE DEF s
<1>11. Sound(s)
  BY <1>3, <1>4, <1>6, <1>7, <1>9, <1>10 DEF Sound, Shaped, Params, I
<1>12. s.dirty = Indices(w, h) /\ s.cury = t.cury + h - t.chary
  BY <1>7, <1>10 DEF I, y
<1>13. Clean(t) => Clean(s)
  BY <1>4, <1>7, <1>10 DEF Clean, I
<1>14. FreshModes(t) => FreshModes(s) /\ s.top = 0 /\ s.bottom = h
  <2> SUFFICES ASSUME FreshModes(t) PROVE FreshModes(s) /\ s.top = 0 /\ s.bottom = h
    OBVIOUS
  <2>1. top = 0 /\ bottom = h
    BY <1>7 DEF FreshModes, TopOf, BottomOf, top, bottom
  <2> QED
    BY <1>7, <1>10, <2>1 DEF FreshModes
<1> QED
  BY <1>2, <1>6, <1>7, <1>10, <1>11, <1>12, <1>13, <1>14

\* The terminal that main() creates
LEMMA NewTerminalSound ==
  ASSUME NEW w \in Int, NEW h \in Int, w > 0, h > 0, FitsHistory(h)
  PROVE  LET r == NewTerminal(w, h)
         IN /\ Sound(r) /\ r.charx = w /\ r.chary = h /\ r.curx = 0 /\ r.cury = 0
            /\ FreshModes(r) /\ Clean(r)
<1> DEFINE c == [i \in Indices(w, h) |-> Blank]
           d == {}
           f == FALSE
           z == 0
           m == -1
           x == ""
           p == <<0, 0>>
           zero == [cell |-> c, dirty |-> d, wild |-> f,
               overrun |-> f, tainted |-> f, style |-> z, curx |-> z, cury |-> z,
               savex |-> z, savey |-> z, charx |-> w, chary |-> h,
               scroll_top |-> m, scroll_bottom |-> m, top |-> z, bottom |-> z,
               escapestate |-> z, escapestart |-> x, params |-> p,
               whichcsi |-> z, dec_priv_csi |-> f, dec_private_mode |-> d,
               dec_mode |-> d, osc_command_place |-> z, scrollback |-> z]
           r == ResizeScreen(zero, w, h)
<1>1. NewTerminal(w, h) = ResetTerminal(r)
  BY Zenon DEF NewTerminal
<1>2. /\ d \in SUBSET Int /\ d \in SUBSET (0 .. 31) /\ f \in BOOLEAN /\ ~f
      /\ z \in {0, 1} /\ z \in Int /\ z \in 0 .. 4 /\ z \in Nat /\ m \in Int /\ z < 2
  OBVIOUS
<1>3. x \in Bytes
  BY Zenon DEF Bytes
<1>4. p \in Seq(Int) /\ Len(p) = 2
  OBVIOUS
<1>5. c \in [Indices(w, h) -> Cell]
  <2>1. Blank \in Cell
    <3>1. "" \in Bytes
      BY DEF Bytes
    <3> QED
      BY <3>1 DEF Blank, Cell
  <2> QED
    BY <2>1
<1>6. c \in Arrays
  BY <1>5, ArrayOf
<1> HIDE DEF c, d, f, z, m, x, p
<1>7. zero \in Terminal
  BY <1>2, <1>3, <1>4, <1>6 DEF Terminal
<1>8. /\ zero.charx = w /\ zero.chary = h /\ zero.cell = c /\ zero.wild = f
      /\ zero.whichcsi = z /\ zero.params = p
  OBVIOUS
<1> HIDE DEF zero
<1>9. Shaped(zero)
  <2>1. h <= historyy
    BY TermAssumption DEF FitsHistory
  <2>2. Params(zero)
    <3>1. Len(zero.params) = 2 /\ zero.whichcsi = z
      BY <1>4, <1>8
    <3> QED
      BY <1>2, <3>1 DEF Params
  <2>3. zero.cell \in [Indices(zero.charx, zero.chary) -> Cell] /\ ~zero.wild
    BY <1>2, <1>5, <1>8
  <2>4. zero.charx > 0 /\ zero.chary > 0 /\ zero.chary <= historyy
    BY <1>8, <2>1
  <2> QED
    BY <1>7, <2>2, <2>3, <2>4 DEF Shaped
<1>10. Sound(r) /\ r.charx = w /\ r.chary = h /\ Clean(r)
  <2>1. Clean(zero)
    BY <1>8 DEF Clean, c
  <2> QED
    BY <1>9, <2>1, ResizeScreenWrites
<1> HIDE DEF r
<1>11. Wrote(r, ResetTerminal(r)) /\ ResetTerminal(r).curx = 0 /\ ResetTerminal(r).cury = 0
  BY <1>10, ResetWrites
<1>12. FreshModes(ResetTerminal(r)) /\ Clean(ResetTerminal(r))
  BY <1>10, ResetClears
<1> QED
  BY <1>1, <1>10, <1>11, <1>12 DEF Wrote, Tainted

-----------------------------------------------------------------------------
(* The invariant of both threads                                           *)

\* What is still to be written and done, and the width that EmitChar has read.
InputsHeld ==
  /\ output \in Seq(STRING) /\ events \in Seq(Events)
  /\ rx = "locking" => output # <<>> /\ rxwidth \in Int /\ rxwidth > 0

\* The cursor that was drawn last is in the buffer of any window there may be.
LastHeld ==
  /\ last_curx \in Int /\ last_curx >= 0
  /\ last_cury \in Int /\ 1 - historyy <= 2 * last_cury

\* The place in the history that main() is about to draw, and whether the
\* picture shows it already.
DrawHeld ==
  /\ last_scrollback \in Nat /\ scrollback \in Nat
  /\ main = "draw" => /\ scrollback < historyy - ts.chary
                       /\ taint_all = (scrollback # last_scrollback)

HostInv ==
  /\ Sound(ts) /\ Placed(ts) /\ FitsHistory(ts.chary)
  /\ InputsHeld /\ LastHeld /\ DrawHeld
  /\ DOMAIN picture = Places(ts.charx, ts.chary)
  /\ NothingForgotten /\ OneCursor

LEMMA Wider ==
  ASSUME NEW a \in Int, NEW b \in Int, a <= b, NEW w \in Nat
  PROVE  a * w <= b * w
<1>1. (b - a) * w >= 0 /\ (b - a) * w = (b * w) - (a * w)
  OBVIOUS
<1> QED
  BY <1>1

\* A cell of the picture shows one of the buffer.
LEMMA PictureInside ==
  ASSUME NEW w \in Nat \ {0}, NEW h \in Nat \ {0}, NEW x \in 0 .. w - 1, NEW y \in Int,
         h - historyy <= y, y < h
  PROVE  x + (y * w) \in Indices(w, h)
<1> DEFINE a == (h - historyy) * w
           b == y * w
           c == h * w
<1>1. h - historyy \in Int /\ y + 1 \in Int /\ y + 1 <= h /\ (y + 1) * w = b + w
  BY TermAssumption
<1>2. a <= b
  BY <1>1, Wider
<1>3. b + w <= c
  <2>1. (y + 1) * w <= h * w
    <3> HIDE DEF b
    <3> DEFINE z == y + 1
    <3>1. z \in Int /\ z <= h
      BY <1>1
    <3> HIDE DEF z
    <3>2. z * w <= h * w
      BY <3>1, Wider
    <3> QED
      BY <3>2 DEF z
  <2> QED
    BY <1>1, <2>1
<1>4. a \in Int /\ b \in Int /\ c \in Int
  BY <1>1
<1>5. Indices(w, h) = a .. c - 1
  BY DEF Indices
<1> HIDE DEF a, b, c
<1>6. x + b \in a .. c - 1
  BY <1>2, <1>3, <1>4
<1> QED
  BY <1>5, <1>6 DEF b

LEMMA InitHolds == Init => HostInv
<1> SUFFICES ASSUME Init PROVE HostInv
  OBVIOUS
<1> DEFINE w == INIT_CHARX
           h == INIT_CHARY
           n == NewTerminal(w, h)
<1>1. w \in Int /\ h \in Int /\ w > 0 /\ h > 0 /\ FitsHistory(h) /\ historyy \in Nat
  BY HostAssumption, TermAssumption
<1>2. Sound(n) /\ n.charx = w /\ n.chary = h /\ n.curx = 0 /\ n.cury = 0
  BY <1>1, NewTerminalSound
<1>3. ts = ResizeScreen(n, w, h)
  BY DEF Init
<1> HIDE DEF n
<1>4. Shaped(n)
  BY <1>2 DEF Sound, Shaped
<1>5. /\ Sound(ts) /\ ts.charx = w /\ ts.chary = h /\ ts.curx = n.curx
      /\ ts.cury = n.cury + h - n.chary /\ ts.dirty = Indices(w, h) /\ ts.tainted
  BY <1>1, <1>3, <1>4, ResizeScreenWrites
<1>6. ts.curx = 0 /\ ts.cury = 0
  BY <1>1, <1>2, <1>5
<1>7. Placed(ts) /\ FitsHistory(ts.chary)
  BY <1>1, <1>5, <1>6 DEF Placed, FitsHistory
<1>8. InputsHeld
  <2>1. PICK s \in Scripts : output = s[1] /\ events = s[2]
    BY DEF Init
  <2>2. output \in Seq(STRING) /\ events \in Seq(Events)
    BY <2>1, ScriptAssumption, Zenon
  <2>3. rx # "locking"
    BY DEF Init
  <2> QED
    BY <2>2, <2>3 DEF InputsHeld
<1>9. LastHeld
  BY <1>1, TermAssumption DEF Init, LastHeld
<1>10. DrawHeld
  BY DEF Init, DrawHeld
<1>11. picture = [p \in Places(w, h) |-> <<Blank, FALSE>>]
  BY DEF Init
<1>12. NothingForgotten
  <2> SUFFICES ASSUME NEW p \in Places(w, h) PROVE Visible(p) \in ts.dirty /\ ts.tainted
    BY <1>11 DEF NothingForgotten
  <2>1. p[1] \in 0 .. w - 1 /\ p[2] \in 0 .. h - 1
    BY DEF Places
  <2>2. Visible(p) = p[1] + (p[2] * w)
    BY <1>1, <1>5, <2>1 DEF Init, Visible
  <2>3. w \in Nat \ {0} /\ h \in Nat \ {0} /\ p[2] \in Int /\ h - historyy <= p[2] /\ p[2] < h
    BY <1>1, <2>1 DEF FitsHistory
  <2>4. p[1] + (p[2] * w) \in Indices(w, h)
    BY <2>1, <2>3, PictureInside
  <2> QED
    BY <1>5, <2>2, <2>4
<1>13. OneCursor
  BY <1>11 DEF OneCursor
<1> QED
  BY <1>5, <1>7, <1>8, <1>9, <1>10, <1>11, <1>12, <1>13 DEF HostInv

\* Where the picture shows the buffer, the buffer is.
LEMMA VisibleInside ==
  ASSUME HostInv, last_scrollback < historyy - ts.chary, NEW p \in DOMAIN picture
  PROVE  Visible(p) \in Indices(ts.charx, ts.chary)
<1>1. /\ ts.charx \in Nat \ {0} /\ ts.chary \in Nat \ {0} /\ historyy \in Nat
      /\ last_scrollback \in Nat /\ p \in Places(ts.charx, ts.chary)
  BY Numbers DEF HostInv, DrawHeld
<1>2. p[1] \in 0 .. ts.charx - 1 /\ p[2] \in 0 .. ts.chary - 1
  BY <1>1 DEF Places
<1> DEFINE y == p[2] - last_scrollback
<1>3. y \in Int /\ ts.chary - historyy <= y /\ y < ts.chary
  BY <1>1, <1>2
<1>4. Visible(p) = p[1] + (y * ts.charx)
  BY DEF Visible
<1> HIDE DEF y
<1> QED
  BY <1>1, <1>2, <1>3, <1>4, PictureInside

\* What changes the buffer and taints it leaves nothing forgotten.
LEMMA StillUnforgotten ==
  ASSUME HostInv, Tainted(ts, ts'), UNCHANGED <<picture, last_scrollback>>
  PROVE  NothingForgotten'
<1> SUFFICES ASSUME last_scrollback < historyy - ts.chary, NEW p \in DOMAIN picture
             PROVE  \/ picture[p][1] = ts'.cell[Visible(p)]
                    \/ Visible(p) \in ts'.dirty /\ ts'.tainted
  BY DEF NothingForgotten, Tainted, Visible
<1>1. picture[p][1] = ts.cell[Visible(p)] \/ (Visible(p) \in ts.dirty /\ ts.tainted)
  BY DEF HostInv, NothingForgotten
<1>2. Visible(p) \in Indices(ts.charx, ts.chary)
  BY VisibleInside
<1> QED
  BY <1>1, <1>2 DEF Tainted

\* The same for the rest: the picture is where it was, and the cursor too.
LEMMA StillHeld ==
  ASSUME HostInv, Stepped(ts, ts'), InputsHeld',
         UNCHANGED <<main, scrollback, taint_all, last_scrollback, last_curx, last_cury, picture>>
  PROVE  HostInv'
<1>1. Sound(ts') /\ Placed(ts') /\ ts'.charx = ts.charx /\ ts'.chary = ts.chary /\ Tainted(ts, ts')
  BY DEF Stepped, Wrote, Tainted
<1>2. NothingForgotten'
  BY <1>1, StillUnforgotten
<1>3. OneCursor'
  BY DEF HostInv, OneCursor
<1>4. LastHeld' /\ DrawHeld'
  BY <1>1 DEF HostInv, LastHeld, DrawHeld
<1>5. FitsHistory(ts'.chary) /\ (DOMAIN picture = Places(ts.charx, ts.chary))'
  BY <1>1 DEF HostInv
<1> QED
  BY <1>1, <1>2, <1>3, <1>4, <1>5 DEF HostInv

LEMMA NothingSteps ==
  ASSUME HostInv
  PROVE  Stepped(ts, ts)
BY DrewNothing, DrewSteps DEF HostInv

LEMMA ReadByteHolds ==
  ASSUME HostInv, ReadByte
  PROVE  HostInv'
<1>1. Stepped(ts, ts')
  BY NothingSteps DEF ReadByte
<1>2. InputsHeld'
  <2>1. ts.charx \in Int /\ ts.charx > 0
    BY Numbers DEF HostInv
  <2> QED
    BY <2>1 DEF HostInv, InputsHeld, ReadByte
<1>3. UNCHANGED <<main, scrollback, taint_all, last_scrollback, last_curx, last_cury, picture>>
  BY DEF ReadByte, windowVars
<1> QED
  BY <1>1, <1>2, <1>3, StillHeld

LEMMA EmitHolds ==
  ASSUME HostInv, Emit
  PROVE  HostInv'
<1>1. /\ Sound(ts) /\ Placed(ts) /\ rx = "locking" /\ rxwidth \in Int /\ rxwidth > 0
      /\ output \in Seq(STRING) /\ output # <<>> /\ ts' = EmitChar(ts, rxwidth, Crx(Head(output)))
      /\ output' = Tail(output) /\ rx' = "read" /\ events' = events /\ events \in Seq(Events)
  BY DEF HostInv, InputsHeld, Emit
<1>2. Crx(Head(output)) \in STRING /\ output' \in Seq(STRING)
  <2>1. CRX_CSI \in STRING
    BY HostAssumption
  <2>2. Head(output) \in STRING /\ Tail(output) \in Seq(STRING)
    BY <1>1
  <2>3. Crx(Head(output)) \in STRING
    BY <2>1, <2>2, Zenon DEF Crx
  <2> QED
    BY <1>1, <2>2, <2>3
<1>3. Stepped(ts, ts')
  BY <1>1, <1>2, EmitCharSteps
<1>4. InputsHeld'
  BY <1>1, <1>2 DEF InputsHeld
<1>5. UNCHANGED <<main, scrollback, taint_all, last_scrollback, last_curx, last_cury, picture>>
  BY DEF Emit, windowVars
<1> QED
  BY <1>3, <1>4, <1>5, StillHeld

\* What the user may do, and what it does to the terminal.
LEMMA UserEvent ==
  ASSUME HostInv, UserActs
  PROVE  Head(events) \in Events /\ InputsHeld'
<1>1. /\ events \in Seq(Events) /\ events # <<>> /\ events' = Tail(events)
      /\ UNCHANGED <<output, rx, rxwidth>> /\ InputsHeld
  BY DEF HostInv, InputsHeld, UserActs
<1>2. Head(events) \in Events /\ events' \in Seq(Events)
  BY <1>1
<1> QED
  BY <1>1, <1>2 DEF InputsHeld

LEMMA Scrolls ==
  ASSUME NEW t, Sound(t), NEW e \in Events
  PROVE  /\ e.kind = "wheel" => Drew(t, HandleButton(t, e))
         /\ e.kind \in {"pages", "enter"} => Drew(t, HandleKey(t, e))
<1>1. CASE e \in [kind : {"wheel", "pages"}, by : Int]
  <2>1. e.by \in Int /\ e.kind \in {"wheel", "pages"}
    BY <1>1
  <2>2. t.chary \div 2 \in Int
    BY Numbers
  <2> DEFINE half == t.chary \div 2
             n == e.by * half
  <2>3. n \in Int
    <3> HIDE DEF half
    <3> QED
      BY <2>1, <2>2 DEF half
  <2>4. HandleKey(t, e) = TermScroll(t, n)
    BY <2>1 DEF HandleKey
  <2> HIDE DEF n
  <2>5. Drew(t, TermScroll(t, n)) /\ Drew(t, TermScroll(t, e.by)) /\ Drew(t, t)
    BY <2>1, <2>3, TermScrollDraws, DrewNothing
  <2>6. Drew(t, HandleButton(t, e))
    BY <2>5 DEF HandleButton
  <2> QED
    BY <2>4, <2>5, <2>6
<1>2. CASE e \in [kind : {"enter"}]
  <2>1. e.kind = "enter"
    BY <1>2
  <2>2. HandleKey(t, e) = [t EXCEPT !.scrollback = 0]
    BY <2>1 DEF HandleKey
  <2>3. \A n \in Int : Drew(t, [t EXCEPT !.scrollback = n])
    BY SetsScrollback
  <2>4. 0 \in Int
    OBVIOUS
  <2>5. Drew(t, [t EXCEPT !.scrollback = 0])
    BY <2>3, <2>4, Zenon
  <2> QED
    BY <2>1, <2>2, <2>5
<1>3. CASE e \in [kind : {"size"}, w : Int, h : {h \in Int : FitsHistory(h)}]
  <2>1. e.kind = "size"
    BY <1>3
  <2> QED
    BY <2>1
<1> QED
  BY <1>1, <1>2, <1>3 DEF Events

LEMMA UserActsHolds ==
  ASSUME HostInv, UserActs
  PROVE  HostInv'
<1> DEFINE e == Head(events)
<1>1. e \in Events /\ InputsHeld' /\ Sound(ts) /\ Placed(ts)
  BY UserEvent DEF HostInv
<1>2. CASE ~Resizes(e)
  <2>1. UNCHANGED <<scrollback, taint_all, last_scrollback, last_curx, picture, last_cury, main>>
    BY <1>2 DEF UserActs
  <2>2. ts' = CASE e.kind = "wheel" -> HandleButton(ts, e)
                [] e.kind \in {"pages", "enter"} -> HandleKey(ts, e)
                [] OTHER -> ts
    BY <1>2 DEF UserActs
  <2> HIDE DEF e
  <2>3. Drew(ts, ts')
    BY <1>1, <2>2, Scrolls, DrewNothing
  <2>4. Stepped(ts, ts')
    BY <1>1, <2>3, DrewSteps
  <2> QED
    BY <1>1, <2>1, <2>4, StillHeld
<1>3. CASE Resizes(e)
  <2>1. e.kind = "size" /\ e.w > 0 /\ e.h > 0
    BY <1>3 DEF Resizes
  <2>2. e.w \in Int /\ e.h \in Int /\ FitsHistory(e.h)
    <3>1. CASE e \in [kind : {"wheel", "pages"}, by : Int]
      BY <2>1, <3>1
    <3>2. CASE e \in [kind : {"enter"}]
      BY <2>1, <3>2
    <3>3. CASE e \in [kind : {"size"}, w : Int, h : {h \in Int : FitsHistory(h)}]
      BY <3>3
    <3> QED
      BY <1>1, <3>1, <3>2, <3>3 DEF Events
  <2>3. ts' = ResizeScreen(ts, e.w, e.h)
    BY <1>3, <2>1 DEF UserActs
  <2>4. /\ picture' = [p \in Places(ts'.charx, ts'.chary) |-> <<Blank, FALSE>>]
        /\ last_cury' = Lesser(last_cury, ts'.chary - 1)
        /\ main' = "test" /\ UNCHANGED <<scrollback, last_scrollback, last_curx>>
    BY <1>3 DEF UserActs
  <2>5. Shaped(ts)
    BY <1>1 DEF Sound, Shaped
  <2> HIDE DEF e
  <2> DEFINE w == e.w
             h == e.h
  <2>6. /\ Sound(ts') /\ ts'.charx = w /\ ts'.chary = h /\ ts'.curx = ts.curx
        /\ ts'.cury = ts.cury + h - ts.chary /\ ts'.dirty = Indices(w, h) /\ ts'.tainted
    BY <2>1, <2>2, <2>3, <2>5, ResizeScreenWrites
  <2>7. w \in Int /\ h \in Int /\ w > 0 /\ h > 0 /\ FitsHistory(h) /\ historyy \in Nat
    BY <2>1, <2>2, TermAssumption
  <2> HIDE DEF w, h
  <2>8. Placed(ts')
    <3>1. ts.curx \in Int /\ ts.cury \in Int /\ ts.chary \in Int
      BY <1>1, Numbers
    <3>2. ts'.chary - ts'.cury = ts.chary - ts.cury /\ ts'.chary = h /\ ts'.curx = ts.curx
      BY <2>6, <2>7, <3>1
    <3>3. 2 * h <= historyy + 1
      BY <2>7 DEF FitsHistory
    <3>4. ts.curx >= 0 /\ 2 * (ts.chary - ts.cury) <= historyy + 1
      BY <1>1 DEF Placed
    <3> QED
      BY <3>2, <3>3, <3>4 DEF Placed
  <2>9. LastHeld'
    <3>1. last_cury' = Lesser(last_cury, h - 1) /\ last_curx' = last_curx /\ LastHeld
      BY <2>4, <2>6 DEF HostInv
    <3>2. last_cury' \in Int /\ 1 - historyy <= 2 * last_cury'
      BY <2>7, <3>1, TermAssumption DEF LastHeld, Lesser
    <3> QED
      BY <3>1, <3>2 DEF LastHeld
  <2>10. DrawHeld'
    BY <2>4 DEF HostInv, DrawHeld
  <2>11. NothingForgotten'
    <3> SUFFICES ASSUME last_scrollback < historyy - h, NEW p \in Places(w, h)
                 PROVE  Visible(p)' \in ts'.dirty
      BY <2>4, <2>6 DEF NothingForgotten
    <3>1. p[1] \in 0 .. w - 1 /\ p[2] \in 0 .. h - 1 /\ last_scrollback \in Nat
      BY DEF Places, HostInv, DrawHeld
    <3> DEFINE y == p[2] - last_scrollback
    <3>2. y \in Int /\ h - historyy <= y /\ y < h /\ w \in Nat \ {0} /\ h \in Nat \ {0}
      BY <2>7, <3>1
    <3>3. Visible(p)' = p[1] + (y * w)
      BY <2>4, <2>6 DEF Visible
    <3> HIDE DEF y
    <3>4. p[1] + (y * w) \in Indices(w, h)
      BY <3>1, <3>2, PictureInside
    <3> QED
      BY <2>6, <3>3, <3>4
  <2>12. OneCursor'
    BY <2>4 DEF OneCursor
  <2>13. (DOMAIN picture = Places(ts.charx, ts.chary))' /\ FitsHistory(ts'.chary)
    BY <2>4, <2>6, <2>7
  <2> QED
    BY <1>1, <2>6, <2>8, <2>9, <2>10, <2>11, <2>12, <2>13 DEF HostInv
<1> QED
  BY <1>2, <1>3

LEMMA InputDoneHolds ==
  ASSUME HostInv, InputDone
  PROVE  HostInv'
<1>1. /\ main' # "draw"
      /\ UNCHANGED <<ts, output, rx, rxwidth, events, scrollback, taint_all, last_scrollback,
                     last_curx, last_cury, picture>>
  BY DEF InputDone
<1>2. NothingForgotten' /\ OneCursor'
  BY <1>1 DEF HostInv, NothingForgotten, OneCursor, Visible
<1>3. InputsHeld' /\ LastHeld' /\ DrawHeld'
  BY <1>1 DEF HostInv, InputsHeld, LastHeld, DrawHeld
<1> QED
  BY <1>1, <1>2, <1>3 DEF HostInv

LEMMA TestHolds ==
  ASSUME HostInv, Test
  PROVE  HostInv'
<1> DEFINE sb == InHistory(ts)
<1>1. ts.scrollback \in Int /\ ts.chary \in Int /\ historyy \in Nat /\ ts.chary < historyy
  BY Numbers, TermAssumption DEF HostInv, FitsHistory
<1>2. sb \in Nat /\ sb < historyy - ts.chary
  BY <1>1 DEF InHistory, Lesser, Greater
<1> HIDE DEF sb
<1>3. /\ scrollback' = sb /\ taint_all' = (sb # last_scrollback)
      /\ UNCHANGED <<ts, output, rx, rxwidth, events, last_curx, last_cury, picture>>
      /\ \/ main' = "draw" /\ last_scrollback' = last_scrollback
         \/ main' = "input" /\ last_scrollback' = sb /\ ~taint_all'
  BY DEF Test, sb
<1>4. last_scrollback' = last_scrollback
  BY <1>3
<1>5. NothingForgotten' /\ OneCursor'
  BY <1>3, <1>4 DEF HostInv, NothingForgotten, OneCursor, Visible
<1>6. InputsHeld' /\ LastHeld'
  BY <1>3 DEF HostInv, InputsHeld, LastHeld
<1>7. DrawHeld'
  BY <1>2, <1>3, <1>4 DEF HostInv, DrawHeld
<1> QED
  BY <1>3, <1>5, <1>6, <1>7 DEF HostInv

LEMMA CursorInside ==
  ASSUME Sound(ts), FitsHistory(ts.chary), NEW x \in Int, NEW y \in Int,
         x >= 0, 1 - historyy <= 2 * y
  PROVE  CursorCell(x, y) \subseteq Indices(ts.charx, ts.chary)
<1>1. CASE x < ts.charx /\ y < ts.chary
  <2>1. /\ ts.charx \in Nat \ {0} /\ ts.chary \in Nat \ {0} /\ historyy \in Nat
        /\ x \in 0 .. ts.charx - 1
    BY <1>1, Numbers, TermAssumption
  <2>2. ts.chary - historyy <= y
    BY <2>1 DEF FitsHistory
  <2>3. x + (y * ts.charx) \in Indices(ts.charx, ts.chary)
    BY <1>1, <2>1, <2>2, PictureInside
  <2> QED
    BY <1>1, <2>3 DEF CursorCell
<1>2. CASE ~(x < ts.charx /\ y < ts.chary)
  BY <1>2 DEF CursorCell
<1> QED
  BY <1>1, <1>2

LEMMA DrawHolds ==
  ASSUME HostInv, Draw
  PROVE  HostInv'
<1> DEFINE dirty == ts.dirty \cup CursorCell(last_curx, last_cury) \cup CursorCell(ts.curx, ts.cury)
           At(p) == p[1] + (p[2] - scrollback) * ts.charx
           drawn == {p \in Places(ts.charx, ts.chary) : taint_all \/ At(p) \in dirty}
           left == dirty \ {At(p) : p \in drawn}
           f == FALSE
           r == [ts EXCEPT !.tainted = f, !.dirty = left, !.wild = f]
<1>1. /\ Sound(ts) /\ Placed(ts) /\ FitsHistory(ts.chary) /\ ts \in Terminal
      /\ DOMAIN ts.cell = Indices(ts.charx, ts.chary)
      /\ InputsHeld /\ LastHeld /\ DrawHeld /\ NothingForgotten /\ OneCursor
      /\ DOMAIN picture = Places(ts.charx, ts.chary)
      /\ scrollback \in Nat /\ last_scrollback \in Nat /\ scrollback < historyy - ts.chary
      /\ taint_all = (scrollback # last_scrollback)
  BY DEF HostInv, Sound, DrawHeld, Draw
<1>2. /\ ts.curx \in Int /\ ts.cury \in Int /\ ts.charx \in Nat \ {0} /\ ts.chary \in Nat \ {0}
      /\ historyy \in Nat /\ ts.curx >= 0 /\ 1 - historyy <= 2 * ts.cury
  BY <1>1, Numbers DEF Placed
<1>3. dirty \subseteq Indices(ts.charx, ts.chary)
  <2>1. CursorCell(ts.curx, ts.cury) \subseteq Indices(ts.charx, ts.chary)
    BY <1>1, <1>2, CursorInside
  <2>2. CursorCell(last_curx, last_cury) \subseteq Indices(ts.charx, ts.chary)
    BY <1>1, CursorInside DEF LastHeld
  <2>3. ts.dirty \subseteq Indices(ts.charx, ts.chary)
    BY <1>1 DEF Sound
  <2> QED
    BY <2>1, <2>2, <2>3
<1>4. /\ picture' = [p \in DOMAIN picture |->
                       IF p \in drawn
                       THEN <<ts.cell[At(p)], IsCursor(ts, p[1], p[2] - scrollback)>>
                       ELSE picture[p]]
      /\ last_curx' = ts.curx /\ last_cury' = ts.cury /\ last_scrollback' = scrollback
      /\ main' = "input" /\ UNCHANGED <<output, rx, rxwidth, events, scrollback, taint_all>>
  BY Zenon DEF Draw
<1>5. ts' = r
  <2>1. ts' = [ts EXCEPT !.tainted = FALSE, !.dirty = left,
                         !.wild = @ \/ ~(dirty \subseteq DOMAIN ts.cell)]
    BY Zenon DEF Draw
  <2>2. ts.wild = FALSE /\ dirty \subseteq DOMAIN ts.cell
    BY <1>1, <1>3 DEF Sound, Terminal
  <2> HIDE DEF dirty, left
  <2> QED
    BY <1>1, <2>1, <2>2 DEF Terminal
<1>6. left \subseteq Indices(ts.charx, ts.chary) /\ left \in SUBSET Int
  <2>1. Indices(ts.charx, ts.chary) \subseteq Int
    BY DEF Indices
  <2> HIDE DEF dirty, drawn, At
  <2> QED
    BY <1>3, <2>1
<1>7. f \in BOOLEAN /\ ~f
  OBVIOUS
<1>8. /\ r \in Terminal /\ r.cell = ts.cell /\ r.dirty = left /\ r.wild = f
      /\ r.charx = ts.charx /\ r.chary = ts.chary /\ r.curx = ts.curx /\ r.cury = ts.cury
      /\ r.bottom = ts.bottom /\ r.whichcsi = ts.whichcsi /\ r.params = ts.params
  <2> HIDE DEF left, f
  <2> QED
    BY <1>1, <1>6, <1>7 DEF Terminal
<1> HIDE DEF r, f
<1>9. Sound(ts') /\ Placed(ts') /\ FitsHistory(ts'.chary)
  <2> HIDE DEF left
  <2>1. Sound(r)
    BY <1>1, <1>6, <1>7, <1>8 DEF Sound, Params
  <2> QED
    BY <1>1, <1>5, <1>8, <2>1 DEF Placed
<1> HIDE DEF left
<1>10. InputsHeld' /\ LastHeld' /\ DrawHeld'
  BY <1>1, <1>2, <1>4 DEF InputsHeld, LastHeld, DrawHeld
<1>11. DOMAIN picture' = DOMAIN picture /\ (DOMAIN picture = Places(ts.charx, ts.chary))'
  BY <1>1, <1>4, <1>5, <1>8
\* What is not drawn was seen at the same place before.
<1>12. ASSUME NEW p \in DOMAIN picture, p \notin drawn
       PROVE  /\ scrollback = last_scrollback /\ At(p) \notin dirty /\ Visible(p) = At(p)
              /\ picture'[p] = picture[p]
  <2>1. ~taint_all /\ At(p) \notin dirty
    BY <1>1, <1>12
  <2>2. scrollback = last_scrollback
    BY <1>1, <2>1
  <2>3. Visible(p) = At(p)
    BY <2>2 DEF Visible
  <2>4. picture'[p] = picture[p]
    BY <1>4, <1>12, Zenon
  <2> QED
    BY <2>1, <2>2, <2>3, <2>4
<1>13. NothingForgotten'
  <2> SUFFICES ASSUME NEW p \in DOMAIN picture
               PROVE  picture'[p][1] = ts.cell[At(p)]
    <3>1. \A p \in DOMAIN picture : picture'[p][1] = ts.cell[At(p)]
      OBVIOUS
    <3>2. \A p \in DOMAIN picture : Visible(p)' = At(p)
      BY <1>4, <1>5, <1>8 DEF Visible
    <3> QED
      BY <1>5, <1>8, <1>11, <3>1, <3>2, Zenon DEF NothingForgotten
  <2>1. CASE p \in drawn
    BY <1>4, <2>1
  <2>2. CASE p \notin drawn
    <3>1. picture[p][1] = ts.cell[Visible(p)] \/ Visible(p) \in ts.dirty
      BY <1>1, <1>12, <2>2 DEF NothingForgotten
    <3>2. At(p) \notin ts.dirty
      BY <1>12, <2>2
    <3> QED
      BY <1>12, <2>2, <3>1, <3>2
  <2> QED
    BY <2>1, <2>2
<1>14. OneCursor'
  <2> SUFFICES ASSUME NEW p \in DOMAIN picture, picture'[p][2]
               PROVE  p = <<ts.curx, ts.cury + scrollback>>
    BY <1>4, <1>11 DEF OneCursor
  <2>0. p = <<p[1], p[2]>> /\ p[1] \in 0 .. ts.charx - 1 /\ p[2] \in 0 .. ts.chary - 1
    BY <1>1 DEF Places
  <2>1. CASE p \in drawn
    <3>1. IsCursor(ts, p[1], p[2] - scrollback)
      BY <1>4, <2>1
    <3>2. p[1] = ts.curx /\ p[2] - scrollback = ts.cury
      BY <3>1 DEF IsCursor
    <3>3. p[2] = ts.cury + scrollback
      BY <1>1, <1>2, <2>0, <3>2
    <3> QED
      BY <2>0, <3>2, <3>3
  <2>2. CASE p \notin drawn
    <3>1. p = <<last_curx, last_cury + last_scrollback>>
      BY <1>1, <1>12, <2>2 DEF OneCursor
    <3>2. last_curx = p[1] /\ last_cury = p[2] - scrollback
      <4>1. p[1] = last_curx /\ p[2] = last_cury + last_scrollback
        BY <3>1
      <4> QED
        BY <1>1, <1>12, <2>0, <2>2, <4>1 DEF LastHeld
    <3>3. last_curx < ts.charx /\ last_cury < ts.chary
      BY <1>1, <1>2, <2>0, <3>2
    <3>4. At(p) \in CursorCell(last_curx, last_cury)
      BY <3>2, <3>3 DEF CursorCell
    <3> QED
      BY <1>12, <2>2, <3>4
  <2> QED
    BY <2>1, <2>2
<1> QED
  BY <1>9, <1>10, <1>11, <1>13, <1>14 DEF HostInv

(* What the proofs of all four properties have in common: the terminal, the
   window and what main() has drawn fit each other at every step of both
   threads (vlintermtest.c:330-470). *)
THEOREM HostAlwaysHolds == Spec => []HostInv
<1>1. HostInv /\ [Next]_vars => HostInv'
  <2> SUFFICES ASSUME HostInv, [Next]_vars PROVE HostInv'
    OBVIOUS
  <2>1. CASE UNCHANGED vars
    BY <2>1 DEF vars, windowVars, HostInv, InputsHeld, LastHeld, DrawHeld, NothingForgotten,
                OneCursor, Visible
  <2> QED
    BY <2>1, ReadByteHolds, EmitHolds, UserActsHolds, InputDoneHolds, TestHolds, DrawHolds DEF Next
<1> QED
  BY InitHolds, <1>1, PTL DEF Spec

(* No byte the child writes, no size of the window and no stale width makes
   the terminal leave its buffer, for windows of any size: the clamps of
   BufferSet and the refusals of BufferCopy (vlinterm.c:22-107) are enough
   for every caller. *)
THEOREM BufferAlwaysHeld == Spec => []BufferHeld
<1>1. HostInv => BufferHeld
  BY DEF HostInv, BufferHeld, Sound
<1> QED
  BY HostAlwaysHolds, <1>1, PTL

(* A cell that changed since it was drawn keeps its taint bit until main()
   draws it, whatever rxthread does between the unlocked test and the draw
   (vlintermtest.c:371-387). *)
THEOREM NothingEverForgotten == Spec => []NothingForgotten
<1>1. HostInv => NothingForgotten
  BY DEF HostInv
<1> QED
  BY HostAlwaysHolds, <1>1, PTL

(* The picture never shows a second cursor: the place of the last one is
   tainted in the draw that shows the next (vlintermtest.c:381-386, 466). *)
THEOREM CursorDrawnOnce == Spec => []OneCursor
<1>1. HostInv => OneCursor
  BY DEF HostInv
<1> QED
  BY HostAlwaysHolds, <1>1, PTL

-----------------------------------------------------------------------------
(* Plain text on the screen                                                *)

Line(p, k) == IF k \in DOMAIN p.rows THEN p.rows[k] ELSE EmptyRow

\* Line r of the buffer shows the row of the sheet that is as far above the
\* last one as line r is above the cursor.
Shows(t, p) ==
  \A r \in t.chary - historyy .. t.chary - 1 : \A x \in 0 .. t.charx - 1 :
    t.cell[x + (r * t.charx)] = Line(p, Len(p.rows) - t.cury + r)[x]

\* No sequence has set anything.
PlainModes(t) ==
  /\ t.charx = INIT_CHARX /\ t.chary = INIT_CHARY /\ t.style = 0 /\ t.escapestate = 0
  /\ t.scroll_top = -1 /\ t.scroll_bottom = -1 /\ t.top = 0 /\ t.bottom = t.chary
  /\ t.dec_private_mode = {25}

Row == [0 .. INIT_CHARX - 1 -> Cell]
Sheet == [rows : Seq(Row), x : 0 .. INIT_CHARX, plain : BOOLEAN]

Typed(t, p) ==
  /\ PlainModes(t)
  /\ p \in Sheet /\ Len(p.rows) > 0
  /\ t.curx = p.x /\ 0 <= t.cury /\ t.cury < t.chary
  /\ Shows(t, p)

\* Lines do not overlap.
LEMMA OneLine ==
  ASSUME NEW w \in Nat \ {0}, NEW r \in Int, NEW s \in Int, NEW x \in 0 .. w - 1,
         NEW y \in 0 .. w - 1, r < s
  PROVE  x + (r * w) < y + (s * w)
<1> DEFINE z == r + 1
           a == r * w
           b == s * w
<1>1. z \in Int /\ z <= s /\ z * w = a + w /\ a \in Int /\ b \in Int
  OBVIOUS
<1> HIDE DEF z
<1>2. z * w <= s * w
  BY <1>1, Wider
<1> HIDE DEF a, b
<1>3. a + w <= b
  BY <1>1, <1>2 DEF b
<1>4. x + a < y + b
  BY <1>1, <1>3
<1> QED
  BY <1>4 DEF a, b

LEMMA OneCell ==
  ASSUME NEW w \in Nat \ {0}, NEW r \in Int, NEW s \in Int, NEW x \in 0 .. w - 1,
         NEW y \in 0 .. w - 1, x + (r * w) = y + (s * w)
  PROVE  r = s /\ x = y
<1>1. ~(r < s)
  <2> SUFFICES ASSUME r < s PROVE FALSE
    OBVIOUS
  <2>1. x + (r * w) < y + (s * w)
    BY OneLine
  <2> DEFINE a == r * w
             b == s * w
  <2>2. a \in Int /\ b \in Int
    OBVIOUS
  <2> HIDE DEF a, b
  <2>3. x + a < y + b /\ x + a = y + b
    BY <2>1 DEF a, b
  <2> QED
    BY <2>2, <2>3
<1>2. ~(s < r)
  <2> SUFFICES ASSUME s < r PROVE FALSE
    OBVIOUS
  <2>1. y + (s * w) < x + (r * w)
    BY OneLine
  <2> DEFINE a == r * w
             b == s * w
  <2>2. a \in Int /\ b \in Int
    OBVIOUS
  <2> HIDE DEF a, b
  <2>3. y + b < x + a /\ x + a = y + b
    BY <2>1 DEF a, b
  <2> QED
    BY <2>2, <2>3
<1>3. r = s
  BY <1>1, <1>2
<1> DEFINE a == r * w
<1>4. a \in Int /\ x + a = y + a
  BY <1>3
<1> HIDE DEF a
<1>5. x = y
  BY <1>4
<1> QED
  BY <1>3, <1>5

\* The cells of n lines from line a on
LEMMA LineWithin ==
  ASSUME NEW w \in Nat \ {0}, NEW r \in Int, NEW a \in Int, NEW n \in Int, NEW x \in 0 .. w - 1
  PROVE  x + (r * w) \in a * w .. (a * w) + (n * w) - 1 <=> a <= r /\ r < a + n
<1> DEFINE i == x + (r * w)
           k == a * w
           e == a + n
           l == e * w
<1>1. i \in Int /\ k \in Int /\ l \in Int /\ e \in Int /\ (a * w) + (n * w) = l /\ 0 \in 0 .. w - 1
  OBVIOUS
<1>2. 0 + (a * w) = k /\ 0 + (e * w) = l
  OBVIOUS
<1>3. a <= r => k <= i
  <2>1. a < r => 0 + (a * w) < x + (r * w)
    BY <1>1, OneLine
  <2>2. a = r => k <= i
    BY <1>1
  <2> QED
    BY <1>1, <1>2, <2>1, <2>2
<1>4. r < a => i < k
  <2>1. r < a => x + (r * w) < 0 + (a * w)
    BY <1>1, OneLine
  <2> QED
    BY <1>2, <2>1
<1>5. r < e => i < l
  <2>1. r < e => x + (r * w) < 0 + (e * w)
    BY <1>1, OneLine
  <2> QED
    BY <1>2, <2>1
<1>6. e <= r => l <= i
  <2>1. e < r => 0 + (e * w) < x + (r * w)
    BY <1>1, OneLine
  <2>2. e = r => l <= i
    BY <1>1
  <2> QED
    BY <1>1, <1>2, <2>1, <2>2
<1>7. (a * w) + (n * w) = l
  BY <1>1
<1> HIDE DEF i, k, l, e
<1>8. i \in k .. l - 1 <=> a <= r /\ r < e
  BY <1>1, <1>3, <1>4, <1>5, <1>6
<1> QED
  BY <1>7, <1>8 DEF i, k, l, e

\* A terminal in which scrolling moves the top line into the history
LEMMA ScrollUpLines ==
  ASSUME NEW t, Sound(t), ~Limited(t), t.bottom = t.chary, t.style = 0
  PROVE  LET u == ScrollUp(t, 1)
         IN /\ SameModes(t, u) /\ Sound(u)
            /\ \A r \in t.chary - historyy .. t.chary - 1 : \A x \in 0 .. t.charx - 1 :
                 u.cell[x + (r * t.charx)] =
                   IF r = t.chary - 1 THEN Blank ELSE t.cell[x + ((r + 1) * t.charx)]
<1> DEFINE w == t.charx
           h == t.chary
           dest == (h - historyy) * w
           src == dest + 1 * w
           n == (historyy - 1) * w
           c == BufferCopy(t, dest, src, n)
           last == (t.bottom - 1) * w
           v == ""
           u == BufferSet(c, last, v, w)
<1>1. ScrollUp(t, 1) = BufferSet(c, (t.bottom - 1) * t.charx, "", t.charx * 1)
  BY DEF ScrollUp
<1>2. w \in Nat \ {0} /\ h \in Nat \ {0} /\ historyy \in Nat \ {0} /\ h <= historyy
  BY Numbers, TermAssumption DEF Sound
<1>3. /\ dest \in Int /\ src \in Int /\ n \in Int /\ n >= 0 /\ last \in Int /\ last >= 0
      /\ src = dest + w /\ src + n = w * h /\ dest + n <= w * h /\ last + w = w * h
      /\ last = (h - 1) * w /\ w * 1 = w
  <2>1. n \in Int /\ n >= 0 /\ dest \in Int /\ 1 * w = w /\ w * 1 = w
    BY <1>2
  <2>2. dest + n = (h - 1) * w /\ (h - 1) * w + w = w * h /\ (h - 1) * w \in Int
    BY <1>2
  <2>3. (h - 1) * w >= 0
    BY <1>2
  <2> HIDE DEF n, dest
  <2> QED
    BY <1>2, <2>1, <2>2, <2>3
<1> HIDE DEF src, n, last
<1>4. /\ SameModes(t, c) /\ Sound(c)
      /\ \A i \in Indices(w, h) :
           c.cell[i] = IF i \in dest .. dest + n - 1 THEN t.cell[i - dest + src] ELSE t.cell[i]
  <2>1. Sound(c)
    BY <1>3, BufferCopyWrites DEF Wrote
  <2>2. dest <= src
    BY <1>2, <1>3
  <2> QED
    BY <1>2, <1>3, <2>1, <2>2, BufferCopyCells
<1>5. v \in Bytes
  BY DEF Bytes
<1> HIDE DEF c, v
<1>6. c.charx = w /\ c.chary = h /\ c.style = 0
  BY <1>4 DEF SameModes
<1>7. /\ SameModes(c, u) /\ Sound(u)
      /\ \A i \in Indices(w, h) :
           u.cell[i] = IF i \in last .. last + w - 1 THEN <<v, c.style>> ELSE c.cell[i]
  <2>1. Sound(u)
    <3>1. Sound(c) /\ last \in Int /\ w \in Int
      BY <1>2, <1>3, <1>4
    <3> QED
      BY <1>5, <3>1, BufferSetWrites DEF Wrote
  <2>2. last + w <= c.charx * c.chary
    BY <1>3, <1>6
  <2> QED
    BY <1>2, <1>3, <1>4, <1>5, <1>6, <2>1, <2>2, BufferSetCells
<1> HIDE DEF u
<1>8. ScrollUp(t, 1) = u
  <2>1. ScrollUp(t, 1) = BufferSet(c, last, "", w * 1)
    BY <1>1 DEF last
  <2> QED
    BY <1>3, <2>1 DEF u, v
<1>9. SameModes(t, u)
  BY <1>4, <1>7 DEF SameModes
<1>10. ASSUME NEW r \in h - historyy .. h - 1, NEW x \in 0 .. w - 1
       PROVE  u.cell[x + (r * w)] = IF r = h - 1 THEN Blank ELSE t.cell[x + ((r + 1) * w)]
  <2> DEFINE i == x + (r * w)
  <2>1. r \in Int /\ i \in Int /\ i \in Indices(w, h)
    <3>1. r \in Int /\ h - historyy <= r /\ r < h
      BY <1>2
    <3>2. i \in Indices(w, h)
      BY <1>2, <3>1, PictureInside
    <3> QED
      BY <1>2, <3>1, <3>2
  <2>2. i \in last .. last + w - 1 <=> r = h - 1
    <3> DEFINE a == h - 1
    <3>1. a \in Int
      BY <1>2
    <3>2. i \in a * w .. (a * w) + (1 * w) - 1 <=> a <= r /\ r < a + 1
      <4> HIDE DEF a
      <4> QED
        BY <1>2, <2>1, <3>1, LineWithin
    <3>3. a * w = last /\ 1 * w = w
      BY <1>2, <1>3
    <3>4. a <= r /\ r < a + 1 <=> r = h - 1
      BY <1>2, <2>1
    <3> HIDE DEF a, i
    <3> QED
      BY <3>2, <3>3, <3>4
  <2>3. i \in dest .. dest + n - 1 <=> r # h - 1
    <3> DEFINE a == h - historyy
               m == historyy - 1
    <3>1. a \in Int /\ m \in Int
      BY <1>2
    <3>2. i \in a * w .. (a * w) + (m * w) - 1 <=> a <= r /\ r < a + m
      <4> HIDE DEF a, m
      <4> QED
        BY <1>2, <2>1, <3>1, LineWithin
    <3>3. a * w = dest /\ m * w = n
      BY DEF n
    <3>4. a <= r /\ r < a + m <=> r # h - 1
      BY <1>2, <2>1
    <3> HIDE DEF a, m, i, dest, n
    <3> QED
      BY <3>2, <3>3, <3>4
  <2>4. i - dest + src = x + ((r + 1) * w)
    <3>1. (r + 1) * w = (r * w) + w /\ r * w \in Int
      BY <1>2, <2>1
    <3> HIDE DEF dest
    <3> QED
      BY <1>2, <1>3, <2>1, <3>1
  <2>5. CASE r = h - 1
    BY <1>6, <1>7, <2>1, <2>2, <2>5 DEF Blank, v
  <2>6. CASE r # h - 1
    <3>1. u.cell[i] = c.cell[i]
      BY <1>7, <2>1, <2>2, <2>6
    <3>2. c.cell[i] = t.cell[i - dest + src]
      BY <1>4, <2>1, <2>3, <2>6
    <3> QED
      BY <2>4, <2>6, <3>1, <3>2
  <2> QED
    BY <2>5, <2>6
<1> QED
  BY <1>7, <1>8, <1>9, <1>10

-----------------------------------------------------------------------------
(* The sheet                                                               *)

LEMMA EmptyRowIs == EmptyRow \in Row
<1>1. "" \in Bytes
  BY DEF Bytes
<1>2. Blank \in Cell
  BY <1>1 DEF Blank, Cell
<1> QED
  BY <1>2 DEF EmptyRow, Row

LEMMA NewRowIs ==
  ASSUME NEW p \in Sheet
  PROVE  LET q == NewRow(p)
         IN /\ q \in Sheet /\ Len(q.rows) = Len(p.rows) + 1 /\ q.x = 0 /\ q.plain = p.plain
            /\ \A k \in Int : Line(q, k) = Line(p, k)
            /\ q.rows[Len(q.rows)] = EmptyRow
<1> DEFINE s == Append(p.rows, EmptyRow)
           q == [p EXCEPT !.rows = s, !.x = 0]
<1>1. p.rows \in Seq(Row) /\ EmptyRow \in Row /\ 0 \in 0 .. INIT_CHARX
  BY EmptyRowIs, HostAssumption DEF Sheet
<1> HIDE DEF Row
<1>2. s \in Seq(Row) /\ Len(s) = Len(p.rows) + 1 /\ s[Len(s)] = EmptyRow /\ Len(p.rows) \in Nat
  <2> HIDE DEF EmptyRow
  <2> QED
    BY <1>1
<1>3. \A k \in 1 .. Len(p.rows) : s[k] = p.rows[k]
  <2> HIDE DEF EmptyRow
  <2> QED
    BY <1>1
<1>4. DOMAIN s = 1 .. Len(p.rows) + 1 /\ DOMAIN p.rows = 1 .. Len(p.rows)
  BY <1>1, <1>2
<1>5. NewRow(p) = q
  BY DEF NewRow
<1> HIDE DEF s
<1>6. q \in Sheet /\ q.rows = s /\ q.x = 0 /\ q.plain = p.plain
  BY <1>1, <1>2 DEF Sheet
<1> HIDE DEF q
<1>7. \A k \in Int : Line(q, k) = Line(p, k)
  <2> SUFFICES ASSUME NEW k \in Int PROVE Line(q, k) = Line(p, k)
    OBVIOUS
  <2>1. CASE k \in 1 .. Len(p.rows)
    BY <1>2, <1>3, <1>4, <1>6, <2>1 DEF Line
  <2>2. CASE k = Len(p.rows) + 1
    BY <1>2, <1>4, <1>6, <2>2 DEF Line
  <2>3. CASE k \notin 1 .. Len(p.rows) + 1
    BY <1>2, <1>4, <1>6, <2>3 DEF Line
  <2> QED
    BY <1>2, <2>1, <2>2, <2>3
<1> QED
  BY <1>2, <1>5, <1>6, <1>7

\* The cell under the pen is written, and the pen moves on.
LEMMA CellWritten ==
  ASSUME NEW p \in Sheet, Len(p.rows) > 0, p.x < INIT_CHARX, NEW b \in Bytes
  PROVE  LET q == [p EXCEPT !.rows[Len(p.rows)][p.x] = <<b, 0>>, !.x = @ + 1]
         IN /\ q \in Sheet /\ Len(q.rows) = Len(p.rows) /\ q.x = p.x + 1 /\ q.plain = p.plain
            /\ \A k \in Int : \A x \in 0 .. INIT_CHARX - 1 :
                 Line(q, k)[x] = IF k = Len(p.rows) /\ x = p.x THEN <<b, 0>> ELSE Line(p, k)[x]
<1> DEFINE n == Len(p.rows)
           v == <<b, 0>>
           row == [p.rows[n] EXCEPT ![p.x] = v]
           s == [p.rows EXCEPT ![n] = row]
           x1 == p.x + 1
           q == [p EXCEPT !.rows = s, !.x = x1]
<1>1. p.rows \in Seq(Row) /\ n \in Nat /\ n \in 1 .. n /\ p.x \in 0 .. INIT_CHARX - 1
      /\ x1 \in 0 .. INIT_CHARX /\ INIT_CHARX \in Nat
  BY HostAssumption DEF Sheet
<1>2. [p EXCEPT !.rows[Len(p.rows)][p.x] = <<b, 0>>, !.x = @ + 1] = q
  OBVIOUS
<1>3. v \in Cell
  BY DEF Cell
<1> HIDE DEF v, x1, n
<1>4. p.rows[n] \in Row
  BY <1>1 DEF n
<1>5. /\ row \in Row
      /\ \A x \in 0 .. INIT_CHARX - 1 : row[x] = IF x = p.x THEN v ELSE p.rows[n][x]
  BY <1>1, <1>3, <1>4 DEF Row
<1> HIDE DEF row
<1>6. /\ s \in Seq(Row) /\ Len(s) = n /\ DOMAIN s = 1 .. n /\ DOMAIN p.rows = 1 .. n
      /\ s[n] = row /\ \A k \in 1 .. n : k # n => s[k] = p.rows[k]
  <2> HIDE DEF Row
  <2> QED
    BY <1>1, <1>5 DEF n
<1> HIDE DEF s
<1>7. q \in Sheet /\ q.rows = s /\ q.x = x1 /\ q.plain = p.plain
  BY <1>1, <1>6 DEF Sheet
<1> HIDE DEF q
<1>8. ASSUME NEW k \in Int, NEW x \in 0 .. INIT_CHARX - 1
      PROVE  Line(q, k)[x] = IF k = n /\ x = p.x THEN v ELSE Line(p, k)[x]
  <2>1. CASE k = n
    <3>1. Line(q, k) = row /\ Line(p, k) = p.rows[n]
      BY <1>1, <1>6, <1>7, <2>1 DEF Line
    <3> QED
      BY <1>5, <2>1, <3>1
  <2>2. CASE k # n
    BY <1>1, <1>6, <1>7, <2>2 DEF Line
  <2> QED
    BY <2>1, <2>2
<1> QED
  BY <1>2, <1>6, <1>7, <1>8 DEF n, v, x1

-----------------------------------------------------------------------------
(* Text that is written                                                    *)

\* The row of the sheet that a line shows, when both or the cursor go on by one
LEMMA SameRow ==
  ASSUME NEW n \in Int, NEW c \in Int, NEW l \in Int
  PROVE  /\ n - c + (l + 1) = n - (c - 1) + l
         /\ (n + 1) - (c + 1) + l = n - c + l
         /\ n - c + l \in Int
OBVIOUS

\* The cursor may be one line below the screen, on an empty row of the sheet:
\* scrolling takes it back.
LEMMA NewlineShows ==
  ASSUME NEW t, Sound(t), PlainModes(t), NEW p \in Sheet, Len(p.rows) > 0,
         t.curx = p.x, 0 <= t.cury, t.cury <= t.chary,
         t.cury = t.chary => p.rows[Len(p.rows)] = EmptyRow,
         Shows(t, p), NEW advance \in BOOLEAN
  PROVE  Typed(HandleNewline(t, advance), p)
<1>1. 12 \notin t.dec_private_mode /\ t.bottom = t.chary /\ t.style = 0 /\ ~Limited(t)
  BY Numbers DEF PlainModes, Limited
<1>2. HandleNewline(t, advance) =
        IF t.cury >= t.bottom THEN [ScrollUp(t, 1) EXCEPT !.cury = @ - 1] ELSE t
  BY <1>1 DEF HandleNewline
<1>3. /\ t.charx \in Nat \ {0} /\ t.chary \in Nat \ {0} /\ t.cury \in Int
      /\ t.chary <= historyy /\ historyy \in Nat
  BY Numbers, TermAssumption DEF Sound
<1>4. CASE ~(t.cury >= t.bottom)
  <2>1. t.cury < t.chary
    BY <1>1, <1>3, <1>4
  <2> QED
    BY <1>2, <1>4, <2>1 DEF Typed
<1>5. CASE t.cury >= t.bottom
  <2> DEFINE u == ScrollUp(t, 1)
             y == u.cury - 1
             r == [u EXCEPT !.cury = y]
             n == Len(p.rows)
  <2>1. t.cury = t.chary /\ p.rows[n] = EmptyRow
    BY <1>1, <1>3, <1>5
  <2>2. /\ SameModes(t, u) /\ Sound(u)
        /\ \A l \in t.chary - historyy .. t.chary - 1 : \A x \in 0 .. t.charx - 1 :
             u.cell[x + (l * t.charx)] =
               IF l = t.chary - 1 THEN Blank ELSE t.cell[x + ((l + 1) * t.charx)]
    BY <1>1, ScrollUpLines
  <2>3. HandleNewline(t, advance) = r
    BY <1>2, <1>5
  <2> HIDE DEF u
  <2>4. u.cury = t.cury /\ y \in Int
    BY <1>3, <2>2 DEF SameModes
  <2>5. /\ r.cell = u.cell /\ r.cury = t.cury - 1
        /\ r.curx = t.curx /\ r.charx = t.charx /\ r.chary = t.chary
        /\ r.style = t.style /\ r.escapestate = t.escapestate /\ r.scroll_top = t.scroll_top
        /\ r.scroll_bottom = t.scroll_bottom /\ r.top = t.top /\ r.bottom = t.bottom
        /\ r.dec_private_mode = t.dec_private_mode
    <3>1. u \in Terminal
      BY <2>2 DEF Sound
    <3>2. r.cury = y /\ y = t.cury - 1
      BY <2>4, <3>1 DEF Terminal
    <3> HIDE DEF y
    <3> QED
      BY <2>2, <3>1, <3>2 DEF SameModes, Terminal
  <2> HIDE DEF r, y
  <2>6. PlainModes(r)
    BY <2>5 DEF PlainModes
  <2>7. n \in Nat /\ DOMAIN p.rows = 1 .. n /\ n \in 1 .. n
    BY DEF Sheet
  <2>8. Shows(r, p)
    <3> SUFFICES ASSUME NEW l \in t.chary - historyy .. t.chary - 1, NEW x \in 0 .. t.charx - 1
                 PROVE  u.cell[x + (l * t.charx)] = Line(p, n - (t.cury - 1) + l)[x]
      BY <2>5 DEF Shows
    <3>1. CASE l = t.chary - 1
      <4>1. n - (t.cury - 1) + l = n
        BY <1>3, <2>1, <2>7, <3>1
      <4>2. Line(p, n) = EmptyRow
        BY <2>1, <2>7 DEF Line
      <4>3. EmptyRow[x] = Blank
        BY DEF EmptyRow, PlainModes
      <4> QED
        BY <2>2, <3>1, <4>1, <4>2, <4>3
    <3>2. CASE l # t.chary - 1
      <4>1. l + 1 \in t.chary - historyy .. t.chary - 1
        BY <1>3, <3>2
      <4>2. t.cell[x + ((l + 1) * t.charx)] = Line(p, n - t.cury + (l + 1))[x]
        BY <4>1 DEF Shows
      <4>3. n - t.cury + (l + 1) = n - (t.cury - 1) + l
        <5>1. l \in Int /\ n \in Int
          BY <1>3, <2>7
        <5> QED
          BY <1>3, <5>1, SameRow
      <4> QED
        BY <2>2, <3>2, <4>2, <4>3
    <3> QED
      BY <3>1, <3>2
  <2>9. 0 <= r.cury /\ r.cury < r.chary
    BY <1>3, <2>1, <2>5
  <2> QED
    BY <2>3, <2>5, <2>6, <2>8, <2>9 DEF Typed
<1> QED
  BY <1>4, <1>5

LEMMA RowsCount ==
  ASSUME NEW p \in Sheet
  PROVE  Len(p.rows) \in Nat /\ DOMAIN p.rows = 1 .. Len(p.rows) /\ p.x \in Int
BY HostAssumption DEF Sheet

LEMMA HandleNewlineSound ==
  ASSUME NEW t, Sound(t), NEW advance \in BOOLEAN
  PROVE  Sound(HandleNewline(t, advance))
<1> DEFINE i == IF advance /\ 12 \in t.dec_private_mode THEN InsertBlankLines(t, 1) ELSE t
           u == ScrollUp(i, 1)
           y == u.cury - 1
           r == [u EXCEPT !.cury = y]
<1>1. HandleNewline(t, advance) = IF i.cury >= i.bottom THEN r ELSE i
  BY DEF HandleNewline
<1>2. Sound(i)
  BY InsertBlankLinesDraws DEF Drew, Wrote
<1> HIDE DEF i
<1>3. Sound(u)
  BY <1>2, ScrollUpDraws DEF Drew, Wrote
<1> HIDE DEF u
<1>4. y \in Int
  BY <1>3, Numbers
<1> HIDE DEF y
<1>5. Sound(r)
  BY <1>3, <1>4, MovesY DEF Wrote
<1> QED
  BY <1>1, <1>2, <1>5

\* A new line, by LF or by a word that goes on
LEMMA NextLineTyped ==
  ASSUME NEW t, Sound(t), NEW p, Typed(t, p), NEW advance \in BOOLEAN
  PROVE  LET m == [t EXCEPT !.curx = 0, !.cury = @ + 1]
         IN Sound(HandleNewline(m, advance)) /\ Typed(HandleNewline(m, advance), NewRow(p))
<1> DEFINE q == NewRow(p)
           z == 0
           y == t.cury + 1
           m == [t EXCEPT !.curx = z, !.cury = y]
<1>1. /\ PlainModes(t) /\ p \in Sheet /\ 0 <= t.cury /\ t.cury < t.chary /\ Shows(t, p)
      /\ Len(p.rows) > 0
  BY DEF Typed
<1>2. /\ t \in Terminal /\ t.cury \in Int /\ t.chary \in Int /\ z \in Int /\ y \in Int
      /\ t.bottom > 0 /\ Params(t)
  BY Numbers DEF Sound
<1>3. m = [t EXCEPT !.curx = 0, !.cury = @ + 1] /\ z = 0 /\ y = t.cury + 1
  OBVIOUS
<1> HIDE DEF y, z
<1>4. /\ m \in Terminal /\ m.curx = z /\ m.cury = y /\ m.charx = t.charx /\ m.chary = t.chary
      /\ m.style = t.style /\ m.escapestate = t.escapestate /\ m.scroll_top = t.scroll_top
      /\ m.scroll_bottom = t.scroll_bottom /\ m.top = t.top /\ m.bottom = t.bottom
      /\ m.dec_private_mode = t.dec_private_mode /\ m.cell = t.cell /\ SameScreen(t, m)
  BY <1>2 DEF Terminal, SameScreen, Params
<1> HIDE DEF m
<1>5. Sound(m) /\ m.curx = 0 /\ m.cury = t.cury + 1
  BY <1>3, <1>4, Moved DEF Wrote
<1>6. PlainModes(m)
  BY <1>1, <1>4 DEF PlainModes
<1>7. /\ q \in Sheet /\ Len(q.rows) = Len(p.rows) + 1 /\ q.x = 0
      /\ \A k \in Int : Line(q, k) = Line(p, k)
      /\ q.rows[Len(q.rows)] = EmptyRow
  BY <1>1, NewRowIs
<1> HIDE DEF q
<1>8. Shows(m, q)
  <2> SUFFICES ASSUME NEW r \in t.chary - historyy .. t.chary - 1, NEW x \in 0 .. t.charx - 1
               PROVE  t.cell[x + (r * t.charx)] = Line(q, Len(q.rows) - m.cury + r)[x]
    BY <1>4 DEF Shows
  <2> DEFINE n == Len(p.rows)
  <2>1. n \in Int /\ r \in Int
    BY <1>1, <1>2, RowsCount, TermAssumption
  <2>2. Len(q.rows) - m.cury + r = n - t.cury + r /\ n - t.cury + r \in Int
    <3>1. Len(q.rows) = n + 1
      BY <1>7
    <3> HIDE DEF n
    <3>2. (n + 1) - (t.cury + 1) + r = n - t.cury + r /\ n - t.cury + r \in Int
      BY <1>2, <2>1, SameRow
    <3> QED
      BY <1>5, <3>1, <3>2
  <2>3. t.cell[x + (r * t.charx)] = Line(p, n - t.cury + r)[x]
    BY <1>1 DEF Shows
  <2> HIDE DEF n
  <2> QED
    BY <1>7, <2>2, <2>3
<1>9. 0 <= m.cury /\ m.cury <= m.chary
  BY <1>1, <1>2, <1>4, <1>5
<1>10. Len(q.rows) > 0
  BY <1>1, <1>7, RowsCount
<1>11. Typed(HandleNewline(m, advance), q)
  BY <1>5, <1>6, <1>7, <1>8, <1>9, <1>10, NewlineShows
<1>12. Sound(HandleNewline(m, advance))
  BY <1>5, HandleNewlineSound
<1> QED
  BY <1>3, <1>11, <1>12 DEF q

LEMMA NewlineTyped ==
  ASSUME NEW t, Sound(t), NEW p, Typed(t, p)
  PROVE  Typed(Newline(t), NewRow(p))
<1> DEFINE m == [t EXCEPT !.curx = 0, !.cury = @ + 1]
<1>1. 7 \notin t.dec_private_mode
  BY DEF Typed, PlainModes
<1>2. t \in Terminal
  BY DEF Sound
<1>3. m = [t EXCEPT !.cury = @ + 1, !.curx = IF 7 \in t.dec_private_mode THEN @ ELSE 0]
  BY <1>1, <1>2 DEF Terminal
<1>4. Newline(t) = HandleNewline(m, TRUE)
  BY <1>3 DEF Newline
<1> QED
  BY <1>4, NextLineTyped

\* The cursor moves within its line.
LEMMA MoveTyped ==
  ASSUME NEW t, Sound(t), NEW p, Typed(t, p), NEW x \in 0 .. INIT_CHARX
  PROVE  Typed([t EXCEPT !.curx = x], [p EXCEPT !.x = x])
<1> DEFINE r == [t EXCEPT !.curx = x]
           q == [p EXCEPT !.x = x]
<1>1. t \in Terminal /\ p \in Sheet
  BY DEF Sound, Typed
<1>2. /\ r.curx = x /\ r.cury = t.cury /\ r.charx = t.charx /\ r.chary = t.chary
      /\ r.style = t.style /\ r.escapestate = t.escapestate /\ r.scroll_top = t.scroll_top
      /\ r.scroll_bottom = t.scroll_bottom /\ r.top = t.top /\ r.bottom = t.bottom
      /\ r.dec_private_mode = t.dec_private_mode /\ r.cell = t.cell
  BY <1>1 DEF Terminal
<1>3. q \in Sheet /\ q.rows = p.rows /\ q.x = x
  BY <1>1 DEF Sheet
<1> HIDE DEF r, q
<1>4. PlainModes(r)
  BY <1>2 DEF Typed, PlainModes
<1>5. Shows(r, q)
  BY <1>2, <1>3 DEF Typed, Shows, Line
<1> QED
  BY <1>2, <1>3, <1>4, <1>5 DEF Typed, r, q

LEMMA LinefeedTyped ==
  ASSUME NEW t, Sound(t), NEW p, Typed(t, p)
  PROVE  Typed(Linefeed(t), [p EXCEPT !.x = 0])
<1> DEFINE z == 0
           m == [t EXCEPT !.curx = z]
           q == [p EXCEPT !.x = z]
<1>1. z \in 0 .. INIT_CHARX /\ z \in Int
  BY HostAssumption
<1>2. Linefeed(t) = HandleNewline(m, FALSE)
  BY DEF Linefeed
<1> HIDE DEF z
<1>3. Typed(m, q) /\ Sound(m)
  BY <1>1, MoveTyped, MovesX DEF Wrote
<1> HIDE DEF m, q
<1>4. Typed(HandleNewline(m, FALSE), q)
  <2>1. /\ PlainModes(m) /\ q \in Sheet /\ Len(q.rows) > 0 /\ m.curx = q.x
        /\ 0 <= m.cury /\ m.cury < m.chary /\ Shows(m, q)
    BY <1>3 DEF Typed
  <2>2. m.cury <= m.chary /\ m.cury # m.chary
    BY <1>3, <2>1, Numbers
  <2> QED
    BY <1>3, <2>1, <2>2, NewlineShows
<1> QED
  BY <1>2, <1>4 DEF q, z

\* A character, where there is room in the line
LEMMA CharacterTyped ==
  ASSUME NEW t, Sound(t), NEW p, Typed(t, p), p.x < INIT_CHARX, NEW b \in Bytes
  PROVE  Typed([BufferSet(t, t.curx + t.cury * t.charx, b, 1) EXCEPT !.curx = @ + 1],
               [p EXCEPT !.rows[Len(p.rows)][p.x] = <<b, 0>>, !.x = @ + 1])
<1> DEFINE start == t.curx + t.cury * t.charx
           u == BufferSet(t, start, b, 1)
           x1 == u.curx + 1
           r == [u EXCEPT !.curx = x1]
           q == [p EXCEPT !.rows[Len(p.rows)][p.x] = <<b, 0>>, !.x = @ + 1]
           w == t.charx
           h == t.chary
           n == Len(p.rows)
           v == <<b, 0>>
<1>1. /\ p \in Sheet /\ n > 0 /\ PlainModes(t) /\ t.curx = p.x
      /\ 0 <= t.cury /\ t.cury < h /\ Shows(t, p) /\ t.style = 0 /\ w = INIT_CHARX
  BY DEF Typed, PlainModes
<1>2. /\ w \in Nat \ {0} /\ h \in Nat \ {0} /\ t.cury \in Int /\ historyy \in Nat
      /\ t.curx \in 0 .. w - 1 /\ p.x \in 0 .. w - 1 /\ INIT_CHARX \in Nat
  BY <1>1, Numbers, TermAssumption, HostAssumption DEF Sheet
<1>3. start \in Int /\ 0 <= start /\ start + 1 <= w * h
  <2>1. start \in 0 * w .. (0 * w) + (h * w) - 1 <=> 0 <= t.cury /\ t.cury < 0 + h
    <3>1. 0 \in Int /\ h \in Int
      BY <1>2
    <3> QED
      BY <1>2, <3>1, LineWithin, Zenon
  <2>2. start \in Int /\ 0 * w = 0 /\ h * w = w * h /\ w * h \in Int
    BY <1>2
  <2> HIDE DEF start
  <2> QED
    BY <1>1, <1>2, <2>1, <2>2
<1>4. /\ SameModes(t, u) /\ Sound(u)
      /\ \A i \in Indices(w, h) : u.cell[i] = IF i = start THEN v ELSE t.cell[i]
  <2>1. Sound(u)
    BY <1>3, BufferSetWrites DEF Wrote
  <2>2. /\ SameModes(t, u)
        /\ \A i \in Indices(w, h) :
             u.cell[i] = IF i \in start .. start + 1 - 1 THEN <<b, t.style>> ELSE t.cell[i]
    <3> HIDE DEF start
    <3> QED
      BY <1>3, BufferSetCells
  <2>3. start .. start + 1 - 1 = {start}
    <3> HIDE DEF start
    <3> QED
      BY <1>3
  <2> HIDE DEF u, start
  <2> QED
    BY <1>1, <2>1, <2>2, <2>3
<1> HIDE DEF u
<1>5. /\ q \in Sheet /\ Len(q.rows) = n /\ q.x = p.x + 1
      /\ \A k \in Int : \A x \in 0 .. INIT_CHARX - 1 :
           Line(q, k)[x] = IF k = n /\ x = p.x THEN v ELSE Line(p, k)[x]
  BY <1>1, CellWritten
<1> HIDE DEF q, v
<1>6. x1 \in Int /\ x1 = p.x + 1 /\ u \in Terminal
  BY <1>1, <1>2, <1>4 DEF SameModes, Sound
<1> HIDE DEF x1
<1>7. /\ r.curx = x1 /\ r.cury = t.cury /\ r.charx = t.charx /\ r.chary = t.chary
      /\ r.style = t.style /\ r.escapestate = t.escapestate /\ r.scroll_top = t.scroll_top
      /\ r.scroll_bottom = t.scroll_bottom /\ r.top = t.top /\ r.bottom = t.bottom
      /\ r.dec_private_mode = t.dec_private_mode /\ r.cell = u.cell
  BY <1>4, <1>6 DEF Terminal, SameModes
<1>8. r = [u EXCEPT !.curx = @ + 1]
  BY <1>6 DEF x1
<1> HIDE DEF r
<1>9. PlainModes(r)
  BY <1>1, <1>7 DEF PlainModes
<1>10. Shows(r, q)
  <2> SUFFICES ASSUME NEW l \in h - historyy .. h - 1, NEW x \in 0 .. w - 1
               PROVE  u.cell[x + (l * w)] = Line(q, n - t.cury + l)[x]
    BY <1>5, <1>7 DEF Shows
  <2>1. l \in Int /\ n \in Int /\ h - historyy <= l /\ l < h
    BY <1>1, <1>2, RowsCount
  <2>2. x + (l * w) \in Indices(w, h)
    BY <1>2, <2>1, PictureInside
  <2>3. x + (l * w) = start <=> l = t.cury /\ x = p.x
    <3>1. x + (l * w) = t.curx + (t.cury * w) => l = t.cury /\ x = t.curx
      BY <1>2, <2>1, OneCell
    <3> QED
      BY <1>1, <3>1
  <2>4. t.cell[x + (l * w)] = Line(p, n - t.cury + l)[x]
    BY <1>1 DEF Shows
  <2> DEFINE k == n - t.cury + l
  <2>5. k \in Int /\ (k = n <=> l = t.cury)
    <3> HIDE DEF n
    <3> QED
      BY <1>2, <2>1
  <2>6. Line(q, k)[x] = IF k = n /\ x = p.x THEN v ELSE Line(p, k)[x]
    <3> HIDE DEF k, n
    <3> QED
      BY <1>1, <1>5, <2>5
  <2>7. u.cell[x + (l * w)] = IF x + (l * w) = start THEN v ELSE t.cell[x + (l * w)]
    BY <1>4, <2>2
  <2> HIDE DEF k, start
  <2>8. t.cell[x + (l * w)] = Line(p, k)[x]
    BY <2>4 DEF k
  <2>9. u.cell[x + (l * w)] = Line(q, k)[x]
    BY <2>3, <2>5, <2>6, <2>7, <2>8
  <2> QED
    BY <2>9 DEF k
<1>11. Typed(r, q)
  BY <1>1, <1>5, <1>6, <1>7, <1>9, <1>10 DEF Typed
<1> QED
  BY <1>8, <1>11 DEF u, q, v

LEMMA PutTyped ==
  ASSUME NEW t, Sound(t), NEW p, Typed(t, p), NEW b \in Bytes
  PROVE  Typed(Put(t, t.charx, b), Write(p, b))
<1> DEFINE m == [t EXCEPT !.curx = 0, !.cury = @ + 1]
           k == HandleNewline(m, FALSE)
           n == IF t.curx >= t.charx THEN k ELSE t
           q == IF p.x = INIT_CHARX THEN NewRow(p) ELSE p
<1>1. /\ t.curx = p.x /\ t.charx = INIT_CHARX /\ p \in Sheet /\ p.x \in 0 .. INIT_CHARX
      /\ INIT_CHARX \in Nat \ {0}
  BY HostAssumption DEF Typed, PlainModes, Sheet
<1>2. t.curx >= t.charx <=> p.x = INIT_CHARX
  BY <1>1
<1>3. Sound(k) /\ Typed(k, NewRow(p))
  BY NextLineTyped
<1>4. NewRow(p).x = 0
  BY <1>1, NewRowIs
<1>5. Sound(n) /\ Typed(n, q) /\ q.x < INIT_CHARX
  <2>1. CASE p.x = INIT_CHARX
    <3>1. n = k /\ q = NewRow(p)
      BY <1>2, <2>1
    <3> HIDE DEF k, n, q
    <3> QED
      BY <1>1, <1>3, <1>4, <3>1
  <2>2. CASE p.x # INIT_CHARX
    <3>1. n = t /\ q = p
      BY <1>2, <2>2
    <3> HIDE DEF n, q
    <3> QED
      BY <1>1, <2>2, <3>1
  <2> QED
    BY <2>1, <2>2
<1>6. n.charx = t.charx
  BY <1>1, <1>5 DEF Typed, PlainModes
<1>7. Put(t, t.charx, b) = [BufferSet(n, n.curx + n.cury * t.charx, b, 1) EXCEPT !.curx = @ + 1]
  BY DEF Put
<1>8. Write(p, b) = [q EXCEPT !.rows[Len(q.rows)][q.x] = <<b, 0>>, !.x = @ + 1]
  BY DEF Write
<1> HIDE DEF n, q
<1>9. Typed([BufferSet(n, n.curx + n.cury * n.charx, b, 1) EXCEPT !.curx = @ + 1],
            [q EXCEPT !.rows[Len(q.rows)][q.x] = <<b, 0>>, !.x = @ + 1])
  BY <1>5, CharacterTyped
<1> QED
  BY <1>6, <1>7, <1>8, <1>9

\* A byte of plain text
LEMMA EmitCharTyped ==
  ASSUME NEW t, Sound(t), NEW p, Typed(t, p), p.plain, NEW b \in STRING,
         b \notin {"TAB", "ESC", "CSI"}
  PROVE  Typed(EmitChar(t, t.charx, b), OnPaper(p, b))
<1> DEFINE s == EmitChar(t, t.charx, b)
           q == OnPaper(p, b)
<1>1. t.escapestate = 0 /\ t \in Terminal /\ p \in Sheet /\ t.curx = p.x
  BY DEF Typed, PlainModes, Sound
<1>2. q = CASE b = "LF" -> NewRow(p)
            [] b = "CR" -> [p EXCEPT !.x = 0]
            [] b = "BS" -> [p EXCEPT !.x = IF @ > 0 THEN @ - 1 ELSE 0]
            [] b \in {"BEL", "SO", "CAN"} -> p
            [] OTHER -> Write(p, b)
  BY DEF OnPaper
<1>3. CASE b = "LF"
  <2>1. s = Newline(t) /\ q = NewRow(p)
    BY <1>2, <1>3 DEF EmitChar
  <2> QED
    BY <2>1, NewlineTyped
<1>4. CASE b = "CR"
  <2>1. s = Linefeed(t) /\ q = [p EXCEPT !.x = 0]
    BY <1>2, <1>4 DEF EmitChar
  <2> QED
    BY <2>1, LinefeedTyped
<1>5. CASE b = "BS"
  <2> DEFINE x == IF p.x > 0 THEN p.x - 1 ELSE 0
  <2>1. x \in 0 .. INIT_CHARX /\ p.x \in Nat
    BY <1>1, HostAssumption DEF Sheet
  <2>2. (IF t.curx # 0 THEN t.curx - 1 ELSE t.curx) = x
    BY <1>1, <2>1
  <2>3. s = [t EXCEPT !.curx = x]
    <3>1. s = [t EXCEPT !.curx = IF t.curx # 0 THEN t.curx - 1 ELSE t.curx]
      BY <1>5 DEF EmitChar
    <3> HIDE DEF x
    <3> QED
      BY <2>2, <3>1
  <2>4. q = [p EXCEPT !.x = x]
    BY <1>2, <1>5
  <2> HIDE DEF x
  <2> QED
    BY <2>1, <2>3, <2>4, MoveTyped
<1>6. CASE b \in {"BEL", "SO"}
  <2>1. s = t /\ q = p
    BY <1>1, <1>2, <1>6 DEF EmitChar
  <2> QED
    BY <2>1
<1>7. CASE b = "CAN"
  <2>1. s = [t EXCEPT !.escapestate = 0] /\ q = p
    BY <1>2, <1>7 DEF EmitChar
  <2>2. [t EXCEPT !.escapestate = 0] = t
    BY <1>1 DEF Terminal
  <2> QED
    BY <2>1, <2>2
<1>8. CASE b \notin {"LF", "CR", "BS", "BEL", "SO", "CAN"}
  <2>1. s = Put(t, t.charx, b) /\ q = Write(p, b)
    <3>1. s = Character(t, t.charx, b)
      BY <1>8 DEF EmitChar
    <3>2. Character(t, t.charx, b) = Put(t, t.charx, b)
      BY <1>1 DEF Character
    <3>3. q = Write(p, b)
      BY <1>2, <1>8
    <3> QED
      BY <3>1, <3>2, <3>3
  <2>2. b \in Bytes
    BY Zenon DEF Bytes
  <2> QED
    BY <2>1, <2>2, PutTyped
<1> QED
  BY <1>3, <1>4, <1>5, <1>6, <1>7, <1>8

-----------------------------------------------------------------------------
(* The sheet and both threads                                              *)

\* EmitChar has the width of the screen, unless a resize came between.
TextInv == paper.plain => Typed(ts, paper) /\ (rx = "locking" => rxwidth = ts.charx)

LEMMA StillTyped ==
  ASSUME NEW t, NEW p, Typed(t, p), NEW r, SameModes(t, r), r.cell = t.cell
  PROVE  Typed(r, p)
<1>1. PlainModes(r)
  BY DEF Typed, SameModes, PlainModes
<1>2. Shows(r, p)
  BY DEF Typed, SameModes, Shows
<1> QED
  BY <1>1, <1>2 DEF Typed, SameModes

LEMMA InitTypes == Init => TextInv
<1> SUFFICES ASSUME Init PROVE Typed(ts, paper) /\ rx # "locking"
  BY DEF TextInv
<1> DEFINE w == INIT_CHARX
           h == INIT_CHARY
           n == NewTerminal(w, h)
<1>1. w \in Int /\ h \in Int /\ w > 0 /\ h > 0 /\ FitsHistory(h) /\ historyy \in Nat
  BY HostAssumption, TermAssumption
<1>2. /\ Sound(n) /\ n.charx = w /\ n.chary = h /\ n.curx = 0 /\ n.cury = 0
      /\ FreshModes(n) /\ Clean(n)
  BY <1>1, NewTerminalSound
<1>3. ts = ResizeScreen(n, w, h) /\ paper = EmptyPaper /\ rx = "read"
  BY DEF Init
<1> HIDE DEF n
<1>4. Shaped(n)
  BY <1>2 DEF Sound, Shaped
<1>5. /\ ts.charx = w /\ ts.chary = h /\ ts.curx = n.curx
      /\ ts.cury = n.cury + h - n.chary
      /\ Clean(ts) /\ FreshModes(ts) /\ ts.top = 0 /\ ts.bottom = h
  BY <1>1, <1>2, <1>3, <1>4, ResizeScreenWrites
<1>6. ts.curx = 0 /\ ts.cury = 0
  BY <1>1, <1>2, <1>5
<1>7. PlainModes(ts)
  BY <1>5 DEF PlainModes, FreshModes
<1>8. paper \in Sheet /\ paper.rows = <<EmptyRow>> /\ paper.x = 0
  <2>1. <<EmptyRow>> \in Seq(Row) /\ 0 \in 0 .. INIT_CHARX
    BY EmptyRowIs, HostAssumption
  <2> HIDE DEF EmptyRow, Row
  <2> QED
    BY <1>3, <2>1 DEF EmptyPaper, Sheet
<1>9. Len(paper.rows) = 1 /\ \A k \in Int : Line(paper, k) = EmptyRow
  <2> HIDE DEF EmptyRow
  <2> QED
    BY <1>8 DEF Line
<1>10. Shows(ts, paper)
  <2> SUFFICES ASSUME NEW r \in h - historyy .. h - 1, NEW x \in 0 .. w - 1
               PROVE  ts.cell[x + (r * w)] = Line(paper, Len(paper.rows) - ts.cury + r)[x]
    BY <1>5 DEF Shows
  <2>1. /\ w \in Nat \ {0} /\ h \in Nat \ {0} /\ r \in Int
        /\ h - historyy <= r /\ r < h
    BY <1>1
  <2>2. x + (r * w) \in Indices(w, h)
    BY <2>1, PictureInside
  <2>3. Len(paper.rows) - ts.cury + r \in Int
    BY <1>6, <1>9, <2>1
  <2>4. EmptyRow[x] = Blank
    BY DEF EmptyRow
  <2> QED
    BY <1>5, <1>9, <2>2, <2>3, <2>4 DEF Clean
<1> QED
  BY <1>1, <1>3, <1>5, <1>6, <1>7, <1>8, <1>9, <1>10 DEF Typed

LEMMA EmitTypes ==
  ASSUME HostInv, TextInv, Emit
  PROVE  TextInv'
<1> DEFINE b == Crx(Head(output))
<1>0. b \in STRING
  <2>1. CRX_CSI \in STRING
    BY HostAssumption
  <2>2. Head(output) \in STRING
    BY DEF HostInv, InputsHeld, Emit
  <2> QED
    BY <2>1, <2>2, Zenon DEF Crx
<1>1. /\ Sound(ts) /\ b \in STRING /\ rx = "locking" /\ rx' # "locking"
      /\ ts' = EmitChar(ts, rxwidth, b) /\ paper' = OnPaper(paper, b)
  BY <1>0 DEF HostInv, InputsHeld, Emit
<1> HIDE DEF b
<1>2. CASE ~paper.plain \/ b \in {"TAB", "ESC", "CSI"}
  <2>1. paper'.plain = FALSE
    BY <1>1, <1>2 DEF OnPaper, EmptyPaper
  <2> QED
    BY <2>1 DEF TextInv
<1>3. CASE paper.plain /\ b \notin {"TAB", "ESC", "CSI"}
  <2>1. Typed(ts, paper) /\ rxwidth = ts.charx
    BY <1>1, <1>3 DEF TextInv
  <2>2. Typed(ts', paper')
    BY <1>1, <1>3, <2>1, EmitCharTyped
  <2> QED
    BY <1>1, <2>2 DEF TextInv
<1> QED
  BY <1>2, <1>3

\* A wheel or a key moves what is in sight, not what is there.
LEMMA ScrollbackTypes ==
  ASSUME NEW t, Sound(t), NEW p, Typed(t, p), NEW n
  PROVE  Typed([t EXCEPT !.scrollback = n], p)
<1> DEFINE r == [t EXCEPT !.scrollback = n]
<1>1. t \in Terminal
  BY DEF Sound
<1>2. SameModes(t, r) /\ r.cell = t.cell
  BY <1>1 DEF Terminal, SameModes
<1> QED
  BY <1>2, StillTyped

LEMMA UserActsTypes ==
  ASSUME HostInv, TextInv, UserActs
  PROVE  TextInv'
<1> DEFINE e == Head(events)
<1>1. Sound(ts) /\ UNCHANGED <<rx, rxwidth>>
  BY DEF HostInv, UserActs
<1>2. CASE Resizes(e)
  <2>1. paper' = [EmptyPaper EXCEPT !.plain = FALSE]
    BY <1>2 DEF UserActs
  <2>2. paper'.plain = FALSE
    BY <2>1 DEF EmptyPaper
  <2> QED
    BY <2>2 DEF TextInv
<1>3. CASE ~Resizes(e)
  <2> SUFFICES ASSUME paper.plain
               PROVE  Typed(ts', paper) /\ ts'.charx = ts.charx
    <3>1. paper' = paper
      BY <1>3 DEF UserActs
    <3> QED
      BY <1>1, <3>1 DEF TextInv
  <2>1. ts' = CASE e.kind = "wheel" -> HandleButton(ts, e)
                [] e.kind \in {"pages", "enter"} -> HandleKey(ts, e)
                [] OTHER -> ts
    BY <1>3 DEF UserActs
  <2> HIDE DEF e
  <2>2. Typed(ts, paper)
    BY DEF TextInv
  <2>3. \A n : Typed([ts EXCEPT !.scrollback = n], paper)
    BY <1>1, <2>2, ScrollbackTypes
  <2>4. \A n : Typed(TermScroll(ts, n), paper)
    BY <2>3, Zenon DEF TermScroll
  <2>5. Typed(HandleButton(ts, e), paper)
    BY <2>2, <2>4 DEF HandleButton
  <2>6. Typed(HandleKey(ts, e), paper)
    <3>1. CASE e.kind = "enter"
      <4>1. HandleKey(ts, e) = [ts EXCEPT !.scrollback = 0]
        BY <3>1 DEF HandleKey
      <4> QED
        BY <2>3, <4>1, Zenon
    <3>2. CASE e.kind # "enter"
      <4>1. HandleKey(ts, e) = TermScroll(ts, e.by * (ts.chary \div 2))
        BY <3>2 DEF HandleKey
      <4> QED
        BY <2>4, <4>1, Zenon
    <3> QED
      BY <3>1, <3>2
  <2>7. Typed(ts', paper)
    BY <2>1, <2>2, <2>5, <2>6
  <2> QED
    BY <2>2, <2>7 DEF Typed, PlainModes
<1> QED
  BY <1>2, <1>3

LEMMA DrawTypes ==
  ASSUME HostInv, TextInv, Draw
  PROVE  TextInv'
<1>1. UNCHANGED <<paper, rx, rxwidth>>
  BY DEF Draw
<1>2. PICK f, d : ts' = [ts EXCEPT !.tainted = FALSE, !.dirty = d, !.wild = f]
  BY DEF Draw
<1>3. ts \in Terminal
  BY DEF HostInv, Sound
<1>4. SameModes(ts, ts') /\ ts'.cell = ts.cell /\ ts'.charx = ts.charx
  BY <1>2, <1>3 DEF Terminal, SameModes
<1> QED
  BY <1>1, <1>4, StillTyped DEF TextInv

(* Plain text is never lost nor out of order, for windows and histories of
   every size and whatever the child writes: as long as it is plain text, the
   screen and the history hold the last lines of an endless sheet, through
   wrapping at the right edge, scrolling at the bottom and the move into the
   history (HandleNewline, ScrollUp and BufferCopy, vlinterm.c:46-193). *)
THEOREM TextAlwaysKept == Spec => []TextKept
<1>1. HostInv /\ TextInv /\ [Next]_vars => TextInv'
  <2> SUFFICES ASSUME HostInv, TextInv, [Next]_vars PROVE TextInv'
    OBVIOUS
  <2>1. CASE UNCHANGED <<ts, paper, rx, rxwidth>>
    BY <2>1 DEF TextInv
  <2>2. CASE ReadByte
    BY <2>2 DEF TextInv, ReadByte
  <2>3. UNCHANGED vars \/ InputDone \/ Test => UNCHANGED <<ts, paper, rx, rxwidth>>
    BY DEF vars, InputDone, Test
  <2> QED
    BY <2>1, <2>2, <2>3, EmitTypes, UserActsTypes, DrawTypes DEF Next
<1>2. TextInv => TextKept
  BY DEF TextInv, TextKept, Typed, Shows, Line
<1> QED
  BY HostAlwaysHolds, InitTypes, <1>1, <1>2, PTL DEF Spec
=============================================================================
