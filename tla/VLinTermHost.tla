---------------------------- MODULE VLinTermHost ----------------------------
(***************************************************************************)
(* vlinterm/vlintermtest.c around the emulator: rxthread hands what the    *)
(* child writes to EmitChar, and main() lets the user scroll, press Enter  *)
(* and resize, and redraws the cells whose taint bit is set.  Both work on *)
(* one TermStructure under screen_mutex, but each reads some of it before  *)
(* it has the mutex: EmitChar the width, main() what decides whether to    *)
(* redraw.                                                                 *)
(*                                                                         *)
(* paper is kept for checking only: what the same bytes give on an endless *)
(* sheet, as long as they are plain text and the size stays.               *)
(***************************************************************************)
EXTENDS VLinTerm, FiniteSets

CONSTANTS
  INIT_CHARX, INIT_CHARY,  \* size of the window at the start
  CRX_CSI,                 \* what the byte 0x9b is once it has been a char
  Scripts                  \* pairs of what the child writes and the user does

\* A window holds at most half of the lines that are kept, of which main() has 1000
FitsHistory(h) == h < historyy /\ 2 * h <= historyy + 1

ASSUME HostAssumption ==
  INIT_CHARX \in Nat \ {0} /\ INIT_CHARY \in Nat \ {0} /\ FitsHistory(INIT_CHARY)
  /\ CRX_CSI \in STRING

Events == [kind : {"wheel", "pages"}, by : Int] \cup [kind : {"enter"}]
          \cup [kind : {"size"}, w : Int, h : {h \in Int : FitsHistory(h)}]

ASSUME ScriptAssumption ==
  \A s \in Scripts : s[1] \in Seq(STRING) /\ s[2] \in Seq(Events)

VARIABLES
  ts,       \* the terminal
  output,   \* bytes the child will still write
  rx,       \* rxthread: "read", or "locking" with the width in rxwidth
  rxwidth,
  events,   \* what the user will still do
  main,     \* main(): "input", "test" or "draw"
  scrollback, taint_all, last_scrollback, last_curx, last_cury,
  picture,  \* the cells of the bitmap: content, and whether drawn as cursor
  paper     \* rows written so far and the place in them

windowVars == <<main, scrollback, taint_all, last_scrollback, last_curx, last_cury, picture>>
vars == <<ts, output, rx, rxwidth, events, windowVars, paper>>

Places(w, h) == (0 .. w - 1) \X (0 .. h - 1)

(***************************************************************************)
(* The endless sheet                                                       *)
(***************************************************************************)

EmptyRow == [x \in 0 .. INIT_CHARX - 1 |-> Blank]
EmptyPaper == [rows |-> <<EmptyRow>>, x |-> 0, plain |-> TRUE]

NewRow(p) == [p EXCEPT !.rows = Append(@, EmptyRow), !.x = 0]

Write(p, b) ==
  LET q == IF p.x = INIT_CHARX THEN NewRow(p) ELSE p
  IN [q EXCEPT !.rows[Len(q.rows)][q.x] = <<b, 0>>, !.x = @ + 1]

OnPaper(p, b) ==
  IF ~p.plain \/ b \in {"TAB", "ESC", "CSI"} THEN [EmptyPaper EXCEPT !.plain = FALSE]
  ELSE CASE b = "LF" -> NewRow(p)
         [] b = "CR" -> [p EXCEPT !.x = 0]
         [] b = "BS" -> [p EXCEPT !.x = IF @ > 0 THEN @ - 1 ELSE 0]
         [] b \in {"BEL", "SO", "CAN"} -> p
         [] OTHER -> Write(p, b)

(***************************************************************************)
(* rxthread                                                                *)
(***************************************************************************)

\* read() has a byte; EmitChar copies charx before it locks
ReadByte ==
  /\ rx = "read" /\ output # <<>>
  /\ rx' = "locking" /\ rxwidth' = ts.charx
  /\ UNCHANGED <<ts, output, events, windowVars, paper>>

\* rxthread passes the byte through a char: where that has a sign, as on x86,
\* 0x9b arrives as -101, which EmitChar takes for a character like any other
Crx(b) == IF b = "CSI" THEN CRX_CSI ELSE b

\* What follows once csistate has overflowed is undefined, and not modelled
Emit ==
  /\ rx = "locking" /\ ~ts.overrun
  /\ ts' = EmitChar(ts, rxwidth, Crx(Head(output)))
  /\ paper' = OnPaper(paper, Crx(Head(output)))
  /\ output' = Tail(output) /\ rx' = "read" /\ rxwidth' = 0
  /\ UNCHANGED <<events, windowVars>>

(***************************************************************************)
(* main(): CNFGHandleInput, the size, then the redraw                      *)
(***************************************************************************)

\* A new size of the window; a window too small for one cell is ignored
Resizes(e) ==
  /\ e.kind = "size" /\ e.w > 0 /\ e.h > 0
  /\ e.w # ts.charx \/ e.h # ts.chary

\* The wheel: the alternate screen sends keys to the child instead
HandleButton(t, e) == IF 29 \in t.dec_private_mode THEN t ELSE TermScroll(t, e.by)

\* Page keys scroll by half screens (C divides towards zero), Enter ends it
HandleKey(t, e) ==
  IF e.kind = "enter" THEN [t EXCEPT !.scrollback = 0]
  ELSE TermScroll(t, e.by * (t.chary \div 2))

UserActs ==
  /\ main = "input" /\ events # <<>>
  /\ LET e == Head(events) IN
     ts' = CASE e.kind = "wheel" -> HandleButton(ts, e)
             [] e.kind \in {"pages", "enter"} -> HandleKey(ts, e)
             [] Resizes(e) -> ResizeScreen(ts, e.w, e.h)
             [] OTHER -> ts
  /\ IF Resizes(Head(events))
     THEN LET w == ts'.charx
              h == ts'.chary
          IN /\ picture' = [p \in Places(w, h) |-> <<Blank, FALSE>>]
             /\ last_cury' = Lesser(last_cury, h - 1)
             /\ paper' = [EmptyPaper EXCEPT !.plain = FALSE]
             /\ main' = "test"
     ELSE UNCHANGED <<picture, last_cury, paper, main>>
  /\ events' = Tail(events)
  /\ UNCHANGED <<output, rx, rxwidth, scrollback, taint_all, last_scrollback, last_curx>>

InputDone ==
  /\ main = "input"
  /\ main' = "test"
  /\ UNCHANGED <<ts, output, rx, rxwidth, events, scrollback, taint_all, last_scrollback,
                 last_curx, last_cury, picture, paper>>

\* Mutant: only a cursor that moved or a scroll makes main() draw.
Test_Cursor ==
  /\ main = "test"
  /\ main' = IF last_curx # ts.curx \/ last_cury # ts.cury \/ scrollback # last_scrollback
             THEN "draw" ELSE "input"
  /\ UNCHANGED <<ts, output, rx, rxwidth, events, scrollback, taint_all, last_scrollback,
                 last_curx, last_cury, picture, paper>>

\* A resize may leave ts.scrollback beyond the history there is
InHistory(t) == Greater(Lesser(t.scrollback, historyy - t.chary - 1), 0)

\* Without the mutex: where to look, and whether anything has changed
Test ==
  /\ main = "test"
  /\ LET sb == InHistory(ts) IN
     /\ scrollback' = sb
     /\ taint_all' = (sb # last_scrollback)
     /\ IF \/ last_curx # ts.curx \/ last_cury # ts.cury
           \/ ts.tainted \/ taint_all'
        THEN main' = "draw" /\ UNCHANGED last_scrollback
        ELSE main' = "input" /\ last_scrollback' = sb
  /\ UNCHANGED <<ts, output, rx, rxwidth, events, last_curx, last_cury, picture, paper>>

IsCursor(t, x, ly) == x = t.curx /\ ly = t.cury /\ 25 \in t.dec_private_mode

\* Mutant: the cell of the cursor is not tainted.
CursorCell_None(x, y) == {}

\* The cell under the cursor, drawn or not, if the screen has it
CursorCell(x, y) == IF x < ts.charx /\ y < ts.chary THEN {x + y * ts.charx} ELSE {}

\* With the mutex: taint the old and the new cursor, draw what is tainted
Draw ==
  /\ main = "draw"
  /\ LET dirty == ts.dirty \cup CursorCell(last_curx, last_cury)
                           \cup CursorCell(ts.curx, ts.cury)
         At(p) == p[1] + (p[2] - scrollback) * ts.charx
         drawn == {p \in Places(ts.charx, ts.chary) : taint_all \/ At(p) \in dirty}
     IN /\ picture' = [p \in DOMAIN picture |->
                         IF p \in drawn
                         THEN <<ts.cell[At(p)], IsCursor(ts, p[1], p[2] - scrollback)>>
                         ELSE picture[p]]
        /\ ts' = [ts EXCEPT !.tainted = FALSE, !.dirty = dirty \ {At(p) : p \in drawn},
                            !.wild = @ \/ ~(dirty \subseteq DOMAIN ts.cell)]
  /\ last_curx' = ts.curx /\ last_cury' = ts.cury /\ last_scrollback' = scrollback
  /\ main' = "input"
  /\ UNCHANGED <<output, rx, rxwidth, events, scrollback, taint_all, paper>>

Init ==
  /\ ts = ResizeScreen(NewTerminal(INIT_CHARX, INIT_CHARY), INIT_CHARX, INIT_CHARY)
  /\ \E s \in Scripts : output = s[1] /\ events = s[2]
  /\ rx = "read" /\ rxwidth = 0 /\ main = "input"
  /\ scrollback = 0 /\ taint_all = FALSE
  /\ last_scrollback = 0 /\ last_curx = 0 /\ last_cury = 0
  /\ picture = [p \in Places(INIT_CHARX, INIT_CHARY) |-> <<Blank, FALSE>>]
  /\ paper = EmptyPaper

Next == ReadByte \/ Emit \/ UserActs \/ InputDone \/ Test \/ Draw

\* Every step of a thread moves its program counter, so the fairness of the
\* threads can be stated over the counters alone
RxGoesOn ==
  \/ rx = "read" /\ output # <<>> /\ rx' = "locking"
  \/ rx = "locking" /\ ~ts.overrun /\ rx' = "read"

MainGoesOn == \E m \in {"input", "test", "draw"} : main # m /\ main' = m

Spec == Init /\ [][Next]_vars /\ WF_rx(RxGoesOn) /\ WF_main(MainGoesOn)

(***************************************************************************)
(* Properties                                                              *)
(***************************************************************************)

(* Whatever sequence the child writes, whatever sizes the window takes, and
   even with a width that is stale when EmitChar uses it, no access leaves
   termbuffer_raw: the clamps of BufferSet and the refusals of BufferCopy
   (vlinterm.c:22-107) are enough for every caller. *)
BufferHeld ==
  /\ ~ts.wild
  /\ DOMAIN ts.cell = Indices(ts.charx, ts.chary) /\ ts.dirty \subseteq DOMAIN ts.cell
  /\ DOMAIN picture = Places(ts.charx, ts.chary)

(* Plain text is never lost nor out of order: the screen and the history hold
   the last historyy lines of an endless sheet, through wrapping at the right
   edge, scrolling at the bottom and the move into the history
   (HandleNewline, ScrollUp, BufferCopy). *)
TextKept ==
  paper.plain =>
    LET Row(r) == LET k == Len(paper.rows) - ts.cury + r
                  IN IF k \in DOMAIN paper.rows THEN paper.rows[k] ELSE EmptyRow
    IN \A r \in ts.chary - historyy .. ts.chary - 1 : \A x \in 0 .. ts.charx - 1 :
         ts.cell[x + r * ts.charx] = Row(r)[x]

(* A cell whose picture is out of date has its taint bit, and a taint bit that
   is in sight makes main() draw: with the unlocked test and the draw at
   different times, no change of a cell is forgotten (vlintermtest.c:371-387).
   After a resize what was last drawn may lie before the history there is now:
   then the next test finds another scrollback, and everything is drawn. *)
Visible(p) == p[1] + (p[2] - last_scrollback) * ts.charx

NothingForgotten ==
  last_scrollback < historyy - ts.chary => \A p \in DOMAIN picture :
    picture[p][1] = ts.cell[Visible(p)] \/ (Visible(p) \in ts.dirty /\ ts.tainted)

(* No more than one cell of the picture shows the cursor: the one it was drawn
   at last (vlintermtest.c:381-386, 466). *)
OneCursor ==
  \A p \in DOMAIN picture :
    picture[p][2] => p = <<last_curx, last_cury + last_scrollback>>

(* Once the child and the user are silent, the picture becomes what the
   terminal holds, and stays so. *)
UpToDate ==
  \A p \in DOMAIN picture :
    picture[p][1] = ts.cell[p[1] + (p[2] - InHistory(ts)) * ts.charx]

PictureCatchesUp == <>[]UpToDate

=============================================================================
