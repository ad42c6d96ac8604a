----------------------------- MODULE Bresenham -----------------------------
(***************************************************************************)
(* BresenhamDrawLineWithClip of bresenham-with-clip.c: the end points of a *)
(* line are moved to the edges of the window, and the pixels between them  *)
(* are drawn with 16 bits of fraction.  One step is one block of the       *)
(* function or one turn of its loops.                                      *)
(***************************************************************************)
EXTENDS Integers, FiniteSetsExt

CONSTANTS BRESEN_W, BRESEN_H,  \* size of the window
          Lines                \* lines drawn: [x0, y0, x1, y1]

ASSUME WindowAssumption == BRESEN_W \in Nat \ {0} /\ BRESEN_H \in Nat \ {0}

VARIABLES
  block,     \* where the function is
  line,      \* its arguments
  at,        \* cx, cy
  num,       \* xerrnumerator, yerrnumerator
  err,       \* xerr or yerr
  pixels     \* what was drawn

lineVars == <<block, line, at, num, err, pixels>>

One == 2 ^ 16

dx == line.x1 - line.x0
dy == line.y1 - line.y0
sdx == IF dx > 0 THEN 1 ELSE -1
sdy == IF dy > 0 THEN 1 ELSE -1
yerrdiv == dx * sdx
xerrdiv == dy * sdy

Clamp(v, size) == Max({0, Min({v, size - 1})})

\* Both ends lie beyond the same edge.
BeyondX(a, b) == (a < 0 /\ b < 0) \/ (a >= BRESEN_W /\ b >= BRESEN_W)
BeyondY(a, b) == (a < 0 /\ b < 0) \/ (a >= BRESEN_H /\ b >= BRESEN_H)

LineInit ==
  /\ block = "start" /\ line \in Lines /\ at = <<line.x0, line.y0>>
  /\ num = <<0, 0>> /\ err = 2 ^ 15 /\ pixels = {}

LineStart ==
  /\ block = "start"
  /\ block' = IF BeyondX(line.x0, line.x1) \/ BeyondY(line.y0, line.y1) THEN "done" ELSE "clipx"
  /\ UNCHANGED <<line, at, num, err, pixels>>

\* The other coordinate's change per pixel, rounded
Slope(d, div) == (d * One + div \div 2) \div div

\* How far the start is outside in x, and where it comes to lie
ClipX ==
  LET dxA == Max({0 - at[1], at[1] - (BRESEN_W - 1), 0})
      slope == IF dxA > 0 \/ xerrdiv <= yerrdiv THEN Slope(xerrdiv, yerrdiv) ELSE 0
      cy == IF dxA > 0 THEN at[2] + ((slope * dxA * sdy) \div One) ELSE at[2]
  IN /\ block = "clipx"
     /\ IF yerrdiv > 0
        THEN /\ at' = <<Clamp(at[1], BRESEN_W), cy>> /\ num' = <<num[1], slope>>
             /\ block' = IF dxA > 0 /\ BeyondY(cy, line.y1) THEN "done" ELSE "clipy"
        ELSE block' = "clipy" /\ UNCHANGED <<at, num>>
     /\ UNCHANGED <<line, err, pixels>>

ClipY ==
  LET dyA == Max({0 - at[2], at[2] - (BRESEN_H - 1), 0})
      slope == IF dyA > 0 \/ xerrdiv > yerrdiv THEN Slope(yerrdiv, xerrdiv) ELSE 0
      cx == IF dyA > 0 THEN at[1] + ((slope * dyA * sdx) \div One) ELSE at[1]
  IN /\ block = "clipy"
     /\ IF xerrdiv > 0
        THEN /\ at' = <<cx, Clamp(at[2], BRESEN_H)>> /\ num' = <<slope, num[2]>>
             /\ block' = IF dyA > 0 /\ BeyondX(cx, line.x1) THEN "done" ELSE "check"
        ELSE block' = "check" /\ UNCHANGED <<at, num>>
     /\ UNCHANGED <<line, err, pixels>>

\* The start was clamped past the end, or is still outside.
WrongWay ==
  \/ dx > 0 /\ (at[1] > BRESEN_W - 1 \/ at[1] > line.x1)
  \/ dx < 0 /\ (at[1] < 0 \/ at[1] < line.x1)
  \/ dy > 0 /\ (at[2] > BRESEN_H - 1 \/ at[2] > line.y1)
  \/ dy < 0 /\ (at[2] < 0 \/ at[2] < line.y1)

CheckEnds ==
  /\ block = "check"
  /\ CASE at = <<line.x1, line.y1>> -> block' = "done" /\ pixels' = {at}
       [] at # <<line.x1, line.y1>> /\ WrongWay -> block' = "done" /\ UNCHANGED pixels
       [] at # <<line.x1, line.y1>> /\ ~WrongWay ->
            block' = (IF xerrdiv > yerrdiv THEN "steep" ELSE "flat") /\ UNCHANGED pixels
  /\ UNCHANGED <<line, at, num, err>>

\* Mutant: the minor coordinate may go past the end.
PastEnd_Never(v, end, step) == FALSE

\* The minor coordinate has come to the mark after the clipped end.
PastEnd(v, end, step) == v = end + step

\* One turn of a loop along axis a, whose other axis is b: the slope is below
\* one pixel, so the inner loop turns at most once.
Turn(a, b, end, step) ==
  LET e == err + num[b]
      moved == [at EXCEPT ![b] = @ + step[b]]
  IN IF at[a] = end[a] THEN block' = "done" /\ pixels' = pixels \cup {at} /\ UNCHANGED <<at, err>>
     ELSE IF e < One
     THEN /\ pixels' = pixels \cup {at} /\ at' = [at EXCEPT ![a] = @ + step[a]]
          /\ err' = e /\ UNCHANGED block
     ELSE IF PastEnd(moved[b], end[b], step[b])
     THEN block' = "done" /\ pixels' = pixels \cup {at} /\ at' = moved /\ err' = e
     ELSE /\ pixels' = pixels \cup {at, moved} /\ at' = [moved EXCEPT ![a] = @ + step[a]]
          /\ err' = e - One /\ UNCHANGED block

End == <<Clamp(line.x1, BRESEN_W), Clamp(line.y1, BRESEN_H)>>

Steep == block = "steep" /\ Turn(2, 1, End, <<sdx, sdy>>) /\ UNCHANGED <<line, num>>

Flat == block = "flat" /\ Turn(1, 2, End, <<sdx, sdy>>) /\ UNCHANGED <<line, num>>

LineNext == LineStart \/ ClipX \/ ClipY \/ CheckEnds \/ Steep \/ Flat

LineSpec == LineInit /\ [][LineNext]_lineVars

-----------------------------------------------------------------------------
Window == (0 .. BRESEN_W - 1) \X (0 .. BRESEN_H - 1)

\* Distance of a pixel from the line along its minor axis, in halves of 1/Major
Major  == Max({xerrdiv, yerrdiv})
Off(p) == LET v == dy * (p[1] - line.x0) - dx * (p[2] - line.y0) IN 2 * Max({v, -v})

\* The pixels of the window that are less than half a pixel from the line
OnLine ==
  {p \in Window : /\ Off(p) < Major
                  /\ (line.x0 <= p[1] /\ p[1] <= line.x1) \/ (line.x1 <= p[1] /\ p[1] <= line.x0)
                  /\ (line.y0 <= p[2] /\ p[2] <= line.y1) \/ (line.y1 <= p[2] /\ p[2] <= line.y0)}

\* No pixel is drawn outside of the window, which drawPixelUnsafe takes for an
\* error (bresenham-with-clip.c:48), nor more than three pixels off the line.  A
\* line that starts in the window has every pixel it should have, at most one and
\* a half off.  Lines that start outside promise no more: the clipped start is
\* rounded down, and all or half of such a line may be missing.
LineDrawn ==
  /\ pixels \subseteq Window
  /\ \A p \in pixels : Off(p) <= 6 * Major
  /\ <<line.x0, line.y0>> \in Window =>
       /\ block = "done" => OnLine \subseteq pixels
       /\ \A p \in pixels : Off(p) <= 3 * Major
=============================================================================
