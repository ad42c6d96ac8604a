------------------------------ MODULE VLinTerm ------------------------------
(***************************************************************************)
(* The terminal emulator of vlinterm/vlinterm.c: struct TermStructure as a *)
(* record t, and one operator per function, which returns the structure    *)
(* the function leaves behind.                                             *)
(*                                                                         *)
(* termbuffer[i] is t.cell[i]; the history lies at negative indices, as    *)
(* termbuffer points chary lines before the end of termbuffer_raw.  A cell *)
(* holds a byte and whether attributes were set (SGR); its taint bit is    *)
(* i \in t.dirty.  t.wild records an access outside of termbuffer_raw,     *)
(* t.overrun a ninth parameter, which is written past csistate.            *)
(* Left out, since nothing reads them: linetaint, dec_keypad_mode and the  *)
(* fields of the pipe.  A printable byte is a string of one character.     *)
(***************************************************************************)
EXTENDS Integers, Sequences, SequencesExt

CONSTANTS
  historyy,        \* lines kept, the screen included
  MAX_CSI_PARAMS,  \* parameters an escape sequence may have
  OSC_SIZE         \* bytes of an OSC command that are kept

ASSUME TermAssumption ==
  historyy \in Nat \ {0} /\ MAX_CSI_PARAMS \in Nat \ {0, 1} /\ OSC_SIZE \in Nat

Digits == <<"0", "1", "2", "3", "4", "5", "6", "7", "8", "9">>
DigitValue == [d \in ToSet(Digits) |-> (CHOOSE i \in 1 .. 10 : Digits[i] = d) - 1]

Blank == <<"", 0>>

Lesser(a, b)  == IF a < b THEN a ELSE b
Greater(a, b) == IF a > b THEN a ELSE b

\* The indices of termbuffer_raw, counted from termbuffer
Indices(w, h) == (h - historyy) * w .. h * w - 1

\* Mutant: the end is not clamped to the screen.
BufferSet_Long(t, start, value, length) ==
  LET I == Greater(start, 0) .. start + length - 1
  IN [t EXCEPT !.cell = [i \in DOMAIN @ |-> IF i \in I THEN <<value, t.style>> ELSE @[i]],
               !.dirty = @ \cup (I \cap DOMAIN t.cell),
               !.wild = @ \/ ~(I \subseteq DOMAIN t.cell), !.tainted = TRUE]

BufferSet(t, start, value, length) ==
  LET last == Lesser(start + length, t.charx * t.chary) - 1
      I == Greater(start, 0) .. last
  IN [t EXCEPT !.cell = [i \in DOMAIN @ |-> IF i \in I THEN <<value, t.style>> ELSE @[i]],
               !.dirty = @ \cup (I \cap DOMAIN t.cell),
               !.wild = @ \/ ~(I \subseteq DOMAIN t.cell),
               !.tainted = TRUE]

\* Mutant: what is copied keeps the taint bits it had.
BufferCopy_Clean(t, dest, src, length) ==
  LET I == dest .. dest + length - 1
  IN IF \E i \in I : i \notin DOMAIN t.cell \/ i - dest + src \notin DOMAIN t.cell THEN t
     ELSE [t EXCEPT !.cell = [i \in DOMAIN @ |-> IF i \in I THEN @[i - dest + src] ELSE @[i]],
                    !.tainted = TRUE]

BufferCopy(t, dest, src, length) ==
  LET minimum == (t.chary - historyy) * t.charx
      end == t.charx * t.chary
      I == dest .. dest + length - 1
      J == src .. src + length - 1
  IN IF \/ src < minimum \/ dest < minimum
        \/ src + length > end \/ dest + length > end
        \/ length < 0
     THEN t
     ELSE [t EXCEPT !.cell = [i \in DOMAIN @ |-> IF i \in I /\ i - dest + src \in DOMAIN @
                                                 THEN @[i - dest + src] ELSE @[i]],
                    !.dirty = @ \cup (I \cap DOMAIN t.cell),
                    !.wild = @ \/ ~(I \cup J \subseteq DOMAIN t.cell),
                    !.tainted = TRUE]

\* top and bottom of the scrolling region, from the values 'r' has set
TopOf(t)    == IF t.scroll_top < 0 THEN 0 ELSE t.scroll_top
BottomOf(t) == IF t.scroll_bottom < 0 THEN t.chary ELSE t.scroll_bottom + 1

UpdateTopBottom(t) == [t EXCEPT !.top = TopOf(t), !.bottom = BottomOf(t)]

\* termbuffer exists whenever an escape sequence resets the terminal
ResetTerminal(t) ==
  LET r == [t EXCEPT !.dec_private_mode = {25}, !.dec_mode = {}, !.scrollback = 0,
                     !.curx = 0, !.cury = 0, !.escapestate = 0, !.style = 0,
                     !.scroll_top = -1, !.scroll_bottom = -1]
  IN BufferSet(r, 0, "", t.charx * t.chary)

InsertBlankLines(t, lines) ==
  LET l == Lesser(lines, t.scroll_bottom - t.cury)
      move == t.scroll_bottom - t.cury - l
      moved == IF move > 0
               THEN BufferCopy(t, (l + t.cury) * t.charx, t.cury * t.charx, t.charx * move)
               ELSE t
  IN IF l > 0 THEN BufferSet(moved, t.cury * t.charx, "", t.charx * l) ELSE t

ScrollDown(t, lines) ==
  LET c == BufferCopy(t, (t.top + lines) * t.charx, t.top * t.charx,
                      (t.bottom - t.top - lines) * t.charx)
  IN BufferSet(c, t.top * t.charx, "", t.charx * lines)

Limited(t) ==
  t.scroll_top > 0 \/ (t.scroll_bottom < t.chary - 1 /\ t.scroll_bottom >= 0)

\* Mutant: the top line is dropped, not moved into the history.
ScrollUp_Drops(t, lines) ==
  LET c == BufferCopy(t, t.top * t.charx, (t.top + lines) * t.charx,
                      (t.bottom - t.top - lines) * t.charx)
  IN BufferSet(c, (t.bottom - lines) * t.charx, "", t.charx * lines)

\* Within the region, or up into the history
ScrollUp(t, lines) ==
  LET dest == (t.chary - historyy) * t.charx
      c == IF Limited(t)
           THEN BufferCopy(t, t.top * t.charx, (t.top + lines) * t.charx,
                           (t.bottom - t.top - lines) * t.charx)
           ELSE BufferCopy(t, dest, dest + lines * t.charx, (historyy - lines) * t.charx)
  IN BufferSet(c, (t.bottom - lines) * t.charx, "", t.charx * lines)

HandleNewline(t, advance) ==
  LET i == IF advance /\ 12 \in t.dec_private_mode THEN InsertBlankLines(t, 1) ELSE t
  IN IF i.cury >= i.bottom THEN [ScrollUp(i, 1) EXCEPT !.cury = @ - 1] ELSE i

Linefeed(t) == HandleNewline([t EXCEPT !.curx = 0], FALSE)

Newline(t) ==
  HandleNewline([t EXCEPT !.cury = @ + 1,
                          !.curx = IF 7 \in t.dec_private_mode THEN @ ELSE 0], TRUE)

CsiStart(t, b) ==
  [t EXCEPT !.escapestart = b, !.escapestate = 2, !.params = <<-1, -1>>,
            !.dec_priv_csi = FALSE, !.whichcsi = 0]

\* A character that is not part of a sequence; cx is the width EmitChar read
Put(t, cx, b) ==
  LET n == IF t.curx >= cx
           THEN HandleNewline([t EXCEPT !.curx = 0, !.cury = @ + 1], FALSE)
           ELSE t
  IN [BufferSet(n, n.curx + n.cury * cx, b, 1) EXCEPT !.curx = @ + 1]

(***************************************************************************)
(* ESC and one character                                                   *)
(***************************************************************************)

ReverseLinefeed(t, cx) ==
  LET up == [t EXCEPT !.cury = @ - 1]
      c == BufferCopy(up, cx * (t.top + 1), cx * t.top, (t.bottom - t.top - 1) * cx)
  IN IF up.cury < t.top
     THEN [BufferSet(c, cx * t.top, "", cx) EXCEPT !.cury = t.top]
     ELSE up

Save(t)    == [t EXCEPT !.savex = t.curx, !.savey = t.cury]
Restore(t) == [t EXCEPT !.curx = t.savex, !.cury = t.savey]

\* 'D', 'E', '[' and ']' are handled in EmitChar: they skip the clamping
Escape(t, cx, b) ==
  LET e == [t EXCEPT !.escapestate = 0]
  IN CASE b = "c" -> ResetTerminal(e)
       [] b = "M" -> ReverseLinefeed(e, cx)
       [] b = "7" -> Save(e)
       [] b = "8" -> Restore(e)
       [] b = "(" -> [e EXCEPT !.escapestate = 4]
       [] OTHER   -> e

(***************************************************************************)
(* CSI sequences.  t.params[k + 1] is csistate[k].                         *)
(***************************************************************************)

\* 'h' and 'l': every parameter names a mode bit
ModeBit(t, k) ==
  CASE t.dec_priv_csi /\ t.params[k] = 1049 -> 29
    [] t.dec_priv_csi /\ t.params[k] = 1000 -> 30
    [] OTHER -> t.params[k]

SetModes(t, set) ==
  LET bits == {ModeBit(t, k) : k \in 1 .. t.whichcsi + 1} \cap 0 .. 31
      Change(m) == IF set THEN m \cup bits ELSE m \ bits
  IN IF t.dec_priv_csi
     THEN [t EXCEPT !.dec_private_mode = Change(@)]
     ELSE [t EXCEPT !.dec_mode = Change(@)]

InsertChars(t, cx, n) ==
  LET start == cx * t.cury + t.curx
  IN BufferSet(BufferCopy(t, start + n, start, cx - n - t.curx), start, "", n)

EraseDisplay(t, cx, n) ==
  LET pos == t.curx + t.cury * cx
      end == cx * t.chary
      e == CASE n = 0        -> BufferSet(t, pos, "", end - pos)
             [] n = 1        -> BufferSet(t, 0, "", pos)
             [] n \in {2, 3} -> BufferSet(t, 0, "", end)
             [] OTHER        -> t
  IN [e EXCEPT !.curx = 0]

EraseLine(t, cx, n) ==
  LET line == t.cury * cx
  IN CASE n = 0 -> BufferSet(t, t.curx + line, "", cx - t.curx)
       [] n = 1 -> BufferSet(t, line, "", t.curx)
       [] n = 2 -> BufferSet(t, line, "", cx)
       [] OTHER -> t

DeleteLines(t, cx, n) ==
  LET start == Greater(t.cury, t.scroll_top)
      stop == t.scroll_bottom - n
      c == BufferCopy(t, start * cx, (n + start) * cx, cx * (stop - start))
      d == IF n > 0 /\ stop > start THEN BufferSet(c, stop * cx, "", cx * n) ELSE t
  IN [d EXCEPT !.curx = 0]

DeleteChars(t, cx, n) ==
  LET remain == cx - t.curx
      start == t.cury * cx + t.curx
      shift == remain - n - 1
      c == BufferCopy(t, start, start + n, shift + 1)
  IN BufferSet(c, start + shift, "", remain - shift)

EraseChars(t, cx, n) ==
  BufferSet(t, t.cury * cx + t.curx, "", Lesser(Greater(n, 1), cx - t.curx))

SetRegion(t, cs0, cs1) ==
  UpdateTopBottom([t EXCEPT !.scroll_top = cs0 - 1, !.scroll_bottom = cs1 - 1,
                            !.curx = 0, !.cury = cs0 - 1])

\* Attributes and colours come down to whether any is set: a 0 clears them, and
\* the last parameter that is known decides
SgrSets == {1, 2, 4, 5, 7, 38} \cup 8 .. 15 \cup 30 .. 37 \cup 40 .. 47

Sgr(t, default) ==
  LET Clears(i) == default \/ t.params[i] = 0
      known == {i \in 1 .. t.whichcsi + 1 : Clears(i) \/ t.params[i] \in SgrSets}
      last == CHOOSE i \in known : \A j \in known : j <= i
  IN IF known = {} THEN t ELSE [t EXCEPT !.style = IF Clears(last) THEN 0 ELSE 1]

\* csistate has MAX_CSI_PARAMS elements, and nothing looks
NextParameter(e) ==
  LET k == e.whichcsi + 1
  IN IF k < MAX_CSI_PARAMS
     THEN [e EXCEPT !.escapestate = 2, !.whichcsi = k,
                    !.params = IF k < Len(@) THEN [@ EXCEPT ![k + 1] = -1] ELSE Append(@, -1)]
     ELSE [e EXCEPT !.overrun = TRUE]

\* The byte after a parameter: another one follows, or the sequence ends
EndParameter(e, cx, b, default) ==
  LET cs0 == e.params[1]
      cs1 == e.params[2]
      erase == IF default THEN 0 ELSE cs0
  IN CASE b = "@" -> InsertChars(e, cx, cs0)
       [] b = "F" -> [e EXCEPT !.curx = 0, !.cury = @ - cs0]
       [] b = "A" -> [e EXCEPT !.cury = @ - cs0]
       [] b = "E" -> [e EXCEPT !.curx = 0, !.cury = @ + cs0]
       [] b = "B" -> [e EXCEPT !.cury = @ + cs0]
       [] b = "C" -> [e EXCEPT !.curx = @ + cs0]
       [] b = "D" -> [e EXCEPT !.curx = 0]
       [] b = "G" -> [e EXCEPT !.curx = cs0 - 1]
       [] b = "d" -> [e EXCEPT !.cury = cs0 - 1]
       [] b = ";" -> NextParameter(e)
       [] b = "h" -> SetModes(e, TRUE)
       [] b = "l" -> SetModes(e, FALSE)
       [] b = "s" -> Save(e)
       [] b = "u" -> Restore(e)
       [] b = "S" -> ScrollUp(e, cs0)
       [] b = "T" -> ScrollDown(e, cs0)
       [] b \in {"f", "H"} -> [e EXCEPT !.curx = Greater(cs1, 1) - 1,
                                        !.cury = Greater(cs0, 1) - 1]
       [] b = "J" -> EraseDisplay(e, cx, erase)
       [] b = "K" -> EraseLine(e, cx, erase)
       [] b = "L" -> InsertBlankLines(e, cs0)
       [] b = "M" -> DeleteLines(e, cx, cs0)
       [] b = "P" -> DeleteChars(e, cx, IF cs0 < 0 THEN 1 ELSE cs0)
       [] b = "X" -> EraseChars(e, cx, cs0)
       [] b = "r" -> SetRegion(e, cs0, cs1)
       [] b = "m" -> Sgr(e, default)
       [] OTHER   -> e

\* A parameter without digits is 1, and default is set
Csi(t, cx, b) ==
  LET default == t.params[t.whichcsi + 1] < 0
  IN EndParameter([t EXCEPT !.escapestate = 0,
                            !.params[t.whichcsi + 1] = IF default THEN 1 ELSE @],
                  cx, b, default)

AddDigit(t, d) == [t EXCEPT !.params[t.whichcsi + 1] = 10 * Greater(@, 0) + d]

\* escapestate 2: a digit, a mark, or the rest in Csi
Parameter(t, cx, b) ==
  CASE b = ";" /\ t.escapestart = "]" ->
         [t EXCEPT !.escapestate = 3, !.osc_command_place = 0]
    [] b = "?" /\ t.whichcsi = 0 -> [t EXCEPT !.dec_priv_csi = TRUE]
    [] b \in DOMAIN DigitValue   -> AddDigit(t, DigitValue[b])
    [] OTHER -> Csi(t, cx, b)

\* escapestate 3: an OSC command up to BEL, of which OSC_SIZE bytes are kept
OscByte(t, b) ==
  IF b = "BEL" THEN [t EXCEPT !.escapestate = 0]
  ELSE [t EXCEPT !.osc_command_place = Lesser(@ + 1, OSC_SIZE)]

\* After every byte of a sequence: the cursor is put into the region
KeepCursor(t, cx) ==
  LET low == Greater(t.cury, TopOf(t))
  IN [t EXCEPT !.cury = IF low >= BottomOf(t) THEN BottomOf(t) - 1 ELSE low,
               !.curx = Lesser(Greater(@, 0), cx - 1)]

\* Nothing handles escapestate 4: it lasts until CAN or another ESC
Sequence(t, cx, b) ==
  CASE t.escapestate = 1 -> Escape(t, cx, b)
    [] t.escapestate = 2 -> Parameter(t, cx, b)
    [] t.escapestate = 3 -> OscByte(t, b)
    [] t.escapestate = 4 -> t

\* A byte that is no control character
Character(t, cx, b) ==
  CASE t.escapestate = 0                       -> Put(t, cx, b)
    [] t.escapestate = 1 /\ b = "D"            -> Linefeed([t EXCEPT !.escapestate = 0])
    [] t.escapestate = 1 /\ b = "E"            -> Newline([t EXCEPT !.escapestate = 0])
    [] t.escapestate = 1 /\ b \in {"[", "]"}   -> CsiStart(t, b)
    [] OTHER -> KeepCursor(Sequence(t, cx, b), cx)

\* EmitChar once it has the mutex; cx is the width it read before
EmitChar(t, cx, b) ==
  CASE b = "CR"  -> Linefeed(t)
    [] b = "LF"  -> Newline(t)
    [] b = "BEL" /\ t.escapestate # 3 -> t
    [] b = "BS"  -> [t EXCEPT !.curx = IF @ # 0 THEN @ - 1 ELSE @]
    [] b = "TAB" -> [t EXCEPT !.curx = Lesser((@ \div 8) * 8 + 8, cx - 1)]
    [] b = "SO"  -> t
    [] b = "CAN" -> [t EXCEPT !.escapestate = 0]
    [] b = "ESC" -> [t EXCEPT !.escapestate = 1]
    [] b = "CSI" -> CsiStart(t, b)
    [] OTHER     -> Character(t, cx, b)

(***************************************************************************)
(* What the window asks for                                                *)
(***************************************************************************)

TermScroll(t, amount) ==
  LET sb == Greater(t.scrollback + amount, 0)
  IN [t EXCEPT !.scrollback =
        IF sb >= historyy - t.chary THEN historyy - t.chary - 1 ELSE sb]

\* calloc gives a buffer of the new shape, every line keeps its first cells
ResizeScreen(t, neww, newh) ==
  LET I == Indices(neww, newh)
      Old(i) ==
        LET raw == i + (historyy - newh) * neww
            ch == raw % neww
            line == raw \div neww
        IN IF ch < t.charx
           THEN t.cell[line * t.charx + ch - (historyy - t.chary) * t.charx]
           ELSE Blank
      r == [t EXCEPT !.cell = [i \in I |-> Old(i)], !.dirty = I, !.tainted = TRUE,
                     !.cury = @ + newh - t.chary, !.charx = neww, !.chary = newh]
  IN IF neww < 1 \/ newh < 1 THEN t ELSE UpdateTopBottom(r)

\* The terminal main() creates: ResetTerminal before there is a buffer
NewTerminal(w, h) ==
  LET zero == [cell |-> [i \in Indices(w, h) |-> Blank], dirty |-> {}, wild |-> FALSE,
               overrun |-> FALSE, tainted |-> FALSE, style |-> 0, curx |-> 0, cury |-> 0,
               savex |-> 0, savey |-> 0, charx |-> w, chary |-> h,
               scroll_top |-> -1, scroll_bottom |-> -1, top |-> 0, bottom |-> 0,
               escapestate |-> 0, escapestart |-> "", params |-> <<0, 0>>,
               whichcsi |-> 0, dec_priv_csi |-> FALSE, dec_private_mode |-> {},
               dec_mode |-> {}, osc_command_place |-> 0, scrollback |-> 0]
  IN ResetTerminal(ResizeScreen(zero, w, h))
=============================================================================
