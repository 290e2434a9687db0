------------------------------ MODULE Console ------------------------------
(* The screen of --console and --terminal, emulator/console.c: a grid of   *)
(* cells that follows what the program writes, so that it can be drawn     *)
(* again when the process comes back from a stop.  A byte is its ASCII     *)
(* code.  Rows and columns count from 0.  now is the wall clock.           *)
EXTENDS Integers, Sequences, SequencesExt

CONSTANTS
  INJECT_SIZE,          \* bytes in serial_inject_buf
  REPAINT_WINDOW        \* how long a paint is highlighted, on the wall clock

Space == 32
Escape == 27

Blank == [ch |-> Space, attr |-> 0, at |-> 0, count |-> 0, shown |-> 0]
\* Erasing forgets when a cell was painted; the overlay's colour is still to be removed.
Erased(cell) == [Blank EXCEPT !.shown = cell.shown]

\* repaints: --show-repaints.  inject: the answers to the program, read up to injectPos; the
\* buffer starts again when all of it is read.
ConsoleStart(repaints) ==
  [rows |-> 0, cols |-> 0, cells |-> <<>>, row |-> 0, col |-> 0, attr |-> 0, top |-> 0, bot |-> -1,
   state |-> "text", params |-> <<>>, value |-> -1, private |-> FALSE, inject |-> <<>>, injectPos |-> 0,
   repaints |-> repaints]

Within(k, low, high) == IF k < low THEN low ELSE IF k > high THEN high ELSE k

ConsoleResize(s, rows, cols) ==
  IF rows = s.rows /\ cols = s.cols THEN s
  ELSE [s EXCEPT !.rows = rows, !.cols = cols, !.top = 0, !.bot = rows - 1,
                 !.row = Within(@, 0, rows - 1), !.col = Within(@, 0, cols - 1),
                 !.cells = [p \in (0 .. rows - 1) \X (0 .. cols - 1) |->
                              IF p \in DOMAIN @ THEN [@[p] EXCEPT !.shown = 0] ELSE Blank]]

Erase(s, where) ==
  [s EXCEPT !.cells = [p \in DOMAIN @ |-> IF p \in where THEN Erased(@[p]) ELSE @[p]]]
AtRow(s, row, from, to) == {row} \X (from .. to)
Lines(s, from, to) == (from .. to) \X (0 .. s.cols - 1)

ClearLine(s, mode) ==
  Erase(s, CASE mode = 1 -> AtRow(s, s.row, 0, s.col)
             [] mode = 2 -> Lines(s, s.row, s.row)
             [] OTHER -> AtRow(s, s.row, s.col, s.cols - 1))

ClearScreen(s, mode) ==
  Erase(s, CASE mode = 1 -> Lines(s, 0, s.row - 1) \cup AtRow(s, s.row, 0, s.col)
             [] mode \in {2, 3} -> Lines(s, 0, s.rows - 1)
             [] OTHER -> AtRow(s, s.row, s.col, s.cols - 1) \cup Lines(s, s.row + 1, s.rows - 1))

\* The lines from top to bot move by n, down if n is negative.
Scroll(s, top, bot, n) ==
  [s EXCEPT !.cells = [p \in DOMAIN @ |->
     IF p[1] \notin top .. bot THEN @[p]
     ELSE IF p[1] + n \in top .. bot THEN @[<<p[1] + n, p[2]>>] ELSE Blank]]

\* The cells right of the cursor move by n, to the left if it is negative.
ShiftChars(s, n) ==
  [s EXCEPT !.cells = [p \in DOMAIN @ |->
     IF p[1] # s.row \/ p[2] < s.col THEN @[p]
     ELSE IF p[2] - n \in s.col .. s.cols - 1 THEN @[<<p[1], p[2] - n>>] ELSE Blank]]

\* The bottom margin.
Bottom(s) == IF s.bot \in 0 .. s.rows - 1 THEN s.bot ELSE s.rows - 1

\* Below the bottom margin a line feed scrolls, and brings the cursor back to the margin.
LineFeed(s) ==
  IF s.row + 1 > Bottom(s) THEN [Scroll(s, s.top, Bottom(s), 1) EXCEPT !.row = Bottom(s)]
  ELSE [s EXCEPT !.row = @ + 1]

\* A cell that is painted again within the window is hotter, up to the last colour.
Painted(s, cell, ch, now) ==
  IF ~s.repaints THEN [cell EXCEPT !.ch = ch, !.attr = s.attr]
  ELSE [ch |-> ch, attr |-> s.attr, at |-> now, shown |-> 0,
        count |-> IF cell.at # 0 /\ now - cell.at < REPAINT_WINDOW THEN Within(cell.count + 1, 0, 6) ELSE 0]

PutChar(s, ch, now) ==
  LET t == [s EXCEPT !.cells[<<s.row, s.col>>] = Painted(s, @, ch, now), !.col = @ + 1]
  IN IF t.col < s.cols THEN t ELSE LineFeed([t EXCEPT !.col = 0])

----
\* Control sequences

InjectResponse(s, answer) ==
  LET room == INJECT_SIZE - Len(s.inject)
  IN [s EXCEPT !.inject = @ \o SubSeq(answer, 1, IF Len(answer) < room THEN Len(answer) ELSE room)]

Digits(n) == IF n < 10 THEN <<48 + n>> ELSE <<48 + ((n \div 10) % 10), 48 + (n % 10)>>
CursorReport(s) == <<Escape, 91>> \o Digits(s.row + 1) \o <<59>> \o Digits(s.col + 1) \o <<82>>

MoveTo(s, row, col) == [s EXCEPT !.row = Within(row, 0, s.rows - 1), !.col = Within(col, 0, s.cols - 1)]

\* DECSTBM: a region has two rows at least, and sends the cursor home.
SetMargins(s, top, bottom) ==
  LET bot == Within(bottom, bottom, s.rows - 1)
  IN IF top < bot THEN [s EXCEPT !.top = top, !.bot = bot, !.row = 0, !.col = 0] ELSE s

\* IL and DL, from the cursor's line down to the margin; a cursor outside the margins does nothing.
ShiftLines(s, n) ==
  IF s.row < s.top \/ s.row > Bottom(s) THEN s ELSE [Scroll(s, s.row, Bottom(s), n) EXCEPT !.col = 0]

Rendition(attr, p) == IF p \in {0, 27} THEN 0 ELSE IF p = 7 THEN 1 ELSE attr

\* The parameters are a sequence; one that is missing is 0, and 0 stands for the default.
HandleCsi(s, final) ==
  LET Param(k, default) == IF k <= Len(s.params) /\ s.params[k] # 0 THEN s.params[k] ELSE default
      n == Param(1, 1)
      shifted == Within(n, 1, s.cols - s.col)
  IN CASE final = "A" -> MoveTo(s, s.row - n, s.col)
       [] final = "B" -> MoveTo(s, s.row + n, s.col)
       [] final = "C" -> MoveTo(s, s.row, s.col + n)
       [] final = "D" -> MoveTo(s, s.row, s.col - n)
       [] final = "E" -> MoveTo(s, s.row + n, 0)
       [] final = "F" -> MoveTo(s, s.row - n, 0)
       [] final = "G" -> MoveTo(s, s.row, n - 1)
       [] final \in {"H", "f"} -> MoveTo(s, n - 1, Param(2, 1) - 1)
       [] final = "J" -> ClearScreen(s, Param(1, 0))
       [] final = "K" -> ClearLine(s, Param(1, 0))
       [] final = "n" -> IF Param(1, 0) = 6 THEN InjectResponse(s, CursorReport(s)) ELSE s
       [] final = "r" -> SetMargins(s, n - 1, Param(2, s.rows) - 1)
       [] final = "S" -> Scroll(s, s.top, Bottom(s), n)
       [] final = "T" -> Scroll(s, s.top, Bottom(s), -n)
       [] final = "L" -> ShiftLines(s, -n)
       [] final = "M" -> ShiftLines(s, n)
       [] final = "@" -> ShiftChars(s, shifted)
       [] final = "P" -> ShiftChars(s, -shifted)
       [] final = "m" -> [s EXCEPT !.attr = FoldLeft(Rendition, @, s.params)]
       [] OTHER -> s

\* The byte that ends a sequence, as a letter.
FinalName == [b \in 64 .. 122 |->
  IF b = 64 THEN "@" ELSE IF b \in 65 .. 84
  THEN <<"A", "B", "C", "D", "E", "F", "G", "H", "I", "J", "K", "L", "M", "N", "O", "P", "Q", "R", "S", "T">>[b - 64]
  ELSE IF b = 102 THEN "f" ELSE IF b = 109 THEN "m" ELSE IF b = 110 THEN "n" ELSE IF b = 114 THEN "r" ELSE "?"]

----
\* console_handle_byte: text, an escape, or the inside of a sequence

HandleText(s, ch, now) ==
  CASE ch = Escape -> [s EXCEPT !.state = "escape"]
    [] ch = 13 -> [s EXCEPT !.col = 0]
    [] ch = 10 -> LineFeed(s)
    [] ch = 8 -> MoveTo(s, s.row, s.col - 1)
    [] ch = 9 -> MoveTo(s, s.row, 8 * (s.col \div 8 + 1))
    [] ch >= Space -> PutChar(s, ch, now)
    [] OTHER -> s

\* There is room for 8 parameters.
WithParam(s) ==
  [s EXCEPT !.value = -1,
            !.params = IF Len(@) < 8 THEN Append(@, IF s.value < 0 THEN 0 ELSE s.value) ELSE @]

HandleSequence(s, ch) ==
  CASE ch = 63 /\ s.params = <<>> /\ s.value < 0 -> [s EXCEPT !.private = TRUE]
    [] ch \in 48 .. 57 -> [s EXCEPT !.value = (IF @ < 0 THEN 0 ELSE 10 * @) + ch - 48]
    [] ch = 59 -> WithParam(s)
    [] OTHER -> LET t == [WithParam(s) EXCEPT !.state = "text", !.private = FALSE]
                IN IF s.private \/ ch \notin DOMAIN FinalName THEN t ELSE HandleCsi(t, FinalName[ch])

HandleByte(s, ch, now) ==
  CASE s.state = "text" -> HandleText(s, ch, now)
    [] s.state = "escape" -> IF ch = 91 THEN [s EXCEPT !.state = "sequence", !.params = <<>>, !.value = -1]
                             ELSE [s EXCEPT !.state = "text"]
    [] s.state = "sequence" -> HandleSequence(s, ch)

----
\* What is written to the terminal: the cells to draw, and where it leaves the cursor

Heat(cell, now) == IF cell.at # 0 /\ now - cell.at < REPAINT_WINDOW THEN cell.count + 1 ELSE 0

\* repaint_overlay_update: the cells whose colour is not the one that they should have;
\* never in the middle of a sequence of the program's.
OverlayCells(s, now) ==
  IF ~s.repaints \/ s.state # "text" THEN {} ELSE {p \in DOMAIN s.cells : Heat(s.cells[p], now) # s.cells[p].shown}
Overlaid(s, now) ==
  [s EXCEPT !.cells = [p \in DOMAIN @ |->
     IF p \in OverlayCells(s, now) THEN [@[p] EXCEPT !.shown = Heat(s.cells[p], now)] ELSE @[p]]]

\* console_redraw: every cell, none in a colour.
Redrawn(s) == [s EXCEPT !.cells = [p \in DOMAIN @ |-> [@[p] EXCEPT !.shown = 0]]]

=============================================================================
