----------------------------- MODULE FpgaText -----------------------------
(* The FPGA's text mode.  A grid of cells, the cursor, and a region that   *)
(* scrolls: emulator/chips/fpga_text.c; a cell is a character's code, and  *)
(* REVERSE with it in reverse video.  And its renderer, in                 *)
(* fpga_text_render.c, that draws the grid on the display by the display's *)
(* commands: all of it at once, when it is asked.  It keeps what it has    *)
(* drawn in the display's memory, and draws only the cells that differ.    *)
EXTENDS Ili9341, SequencesExt

CONSTANTS
  FPGA_TEXT_ROWS, FPGA_TEXT_COLS,
  CELL_W, CELL_H, CURSOR_ROWS, FPGA_TEXT_BLINK_US,
  Font(_)             \* font_12x16: of a code, the set of its pixels <<x, y>>

REVERSE == 256

TextRows == 0 .. FPGA_TEXT_ROWS - 1
TextCols == 0 .. FPGA_TEXT_COLS - 1
TextBlank == 32
BlankRow == [c \in TextCols |-> TextBlank]

\* The operations, by their codes.
TextOpName == <<"TEXT_ON", "TEXT_OFF", "GOTO", "PUT", "CLEAR", "CLEAR_EOL", "INSERT", "DELETE", "REGION",
                "REGION_RESET", "SCROLL_UP", "SCROLL_DOWN", "INSERT_LINES", "DELETE_LINES", "CURSOR", "VIDEO">>

AtMost(n, limit) == IF n > limit THEN limit ELSE n

\* Column FPGA_TEXT_COLS is behind the end of the row.
GotoCell(t, row, col) == [t EXCEPT !.row = AtMost(row, FPGA_TEXT_ROWS - 1), !.col = AtMost(col, FPGA_TEXT_COLS)]

ClearGrid(t) == GotoCell([t EXCEPT !.cells = [r \in TextRows |-> BlankRow]], 0, 0)

FpgaTextInit ==
  ClearGrid([cells |-> <<>>, row |-> 0, col |-> 0, top |-> 0, bottom |-> FPGA_TEXT_ROWS - 1, offset |-> 0,
             cursor |-> FALSE, reverse |-> FALSE, used |-> FALSE])

\* A region of a row or none is refused; a new one is not scrolled.
TextRegion(t, top, bottom) ==
  LET b == AtMost(bottom, FPGA_TEXT_ROWS - 1)
      same == top = t.top /\ b = t.bottom
  IN IF top >= b THEN t
     ELSE GotoCell([t EXCEPT !.top = top, !.bottom = b, !.offset = IF same THEN @ ELSE 0], 0, 0)

\* n cells come in at the cursor, or n go from there; the end of the row is lost, or blank.
ShiftRow(t, count, insert) ==
  LET n == AtMost(count, FPGA_TEXT_COLS - t.col)
      row == t.cells[t.row]
      Moved(c) == IF c < t.col THEN row[c]
                  ELSE IF insert THEN IF c < t.col + n THEN TextBlank ELSE row[c - n]
                  ELSE IF c >= FPGA_TEXT_COLS - n THEN TextBlank ELSE row[c + n]
  IN IF t.col >= FPGA_TEXT_COLS \/ count = 0 THEN t ELSE [t EXCEPT !.cells[t.row] = [c \in TextCols |-> Moved(c)]]

\* The rows from top to the region's end move by n.  If it is the whole region, and not all
\* of it goes, then the picture moves in the display: offset.
TextScroll(t, top, n, up) ==
  LET height == t.bottom - top + 1
      source == [r \in TextRows |-> IF up THEN r + n ELSE r - n]
      Moved(r) == IF r \notin top .. t.bottom THEN t.cells[r]
                  ELSE IF source[r] \in top .. t.bottom THEN t.cells[source[r]] ELSE BlankRow
      hardware == top = t.top /\ n < height
  IN IF n = 0 \/ height <= 0 THEN t
     ELSE [t EXCEPT !.cells = [r \in TextRows |-> Moved(r)],
                    !.offset = IF hardware THEN (@ + (IF up THEN height - n ELSE n)) % height ELSE @]

TextLines(t, n, up) ==
  IF t.row \in t.top .. t.bottom THEN TextScroll([t EXCEPT !.col = 0], t.row, n, up) ELSE t

\* A character, unless the cursor is behind the row; the last column leads to the next row.
TextCharacter(t, code) ==
  LET wraps == t.col = FPGA_TEXT_COLS - 1 /\ t.row < FPGA_TEXT_ROWS - 1
      put == [t EXCEPT !.cells[t.row][t.col] = code + (IF t.reverse THEN REVERSE ELSE 0)]
  IN IF t.col >= FPGA_TEXT_COLS THEN t
     ELSE IF wraps THEN [put EXCEPT !.row = @ + 1, !.col = 0] ELSE [put EXCEPT !.col = @ + 1]

\* Backspace, line feed and carriage return; the other control codes do nothing.
TextPut(t, code) ==
  CASE code >= 32 -> TextCharacter(t, code)
    [] code = 8 -> [t EXCEPT !.col = IF @ > 0 THEN @ - 1 ELSE 0]
    [] code = 10 -> [t EXCEPT !.row = AtMost(@ + 1, FPGA_TEXT_ROWS - 1), !.col = 0]
    [] code = 13 -> [t EXCEPT !.col = 0]
    [] OTHER -> t

\* fpga_text_op
FpgaTextOp(t, code, a, b) ==
  LET op == IF code \in 0 .. 15 THEN TextOpName[code + 1] ELSE "none" IN
  CASE op = "TEXT_ON" -> [FpgaTextInit EXCEPT !.used = TRUE]
    [] op = "GOTO" -> GotoCell(t, a, b)
    [] op = "PUT" -> TextPut(t, a)
    [] op = "CLEAR" -> ClearGrid(t)
    [] op = "CLEAR_EOL" -> ShiftRow(t, FPGA_TEXT_COLS, FALSE)
    [] op = "INSERT" -> ShiftRow(t, a, TRUE)
    [] op = "DELETE" -> ShiftRow(t, a, FALSE)
    [] op = "REGION" -> TextRegion(t, a, b)
    [] op = "REGION_RESET" -> TextRegion(t, 0, FPGA_TEXT_ROWS - 1)
    [] op = "SCROLL_UP" -> TextScroll(t, t.top, a, TRUE)
    [] op = "SCROLL_DOWN" -> TextScroll(t, t.top, a, FALSE)
    [] op = "INSERT_LINES" -> TextLines(t, a, FALSE)
    [] op = "DELETE_LINES" -> TextLines(t, a, TRUE)
    [] op = "CURSOR" -> [t EXCEPT !.cursor = a # 0]
    [] op = "VIDEO" -> [t EXCEPT !.reverse = a # 0]
    [] op \in {"TEXT_OFF", "none"} -> t

----
\* The renderer

MADCTL_TEXT == MADCTL_MY + MADCTL_MV + MADCTL_BGR
CURSOR == 512

\* Text mode comes on: nothing is known of the display's memory and its scroll.
FpgaTextRenderInit ==
  [drawn |-> [m \in TextRows |-> [c \in TextCols |-> -1]], setUp |-> FALSE, scrollOk |-> FALSE,
   top |-> 0, bottom |-> 0, offset |-> 0, row |-> 0, col |-> 0, cursor |-> FALSE, blinkOn |-> FALSE, blinkUs |-> 0]

SendBytes(panel, bytes) == FoldLeft(Ili9341Data, panel, bytes)
AsBytes(words) == FlattenSeq([k \in DOMAIN words |-> <<words[k] \div 256, words[k] % 256>>])
SendWords(panel, code, words) == SendBytes(Ili9341Command(panel, code), AsBytes(words))

\* Mutant: the rows of a region are counted from its first, as the scroll's offset is not.
MemoryRowFromTop(r, row) ==
  IF row \notin r.top .. r.bottom THEN row
  ELSE r.top + ((r.offset + row - r.top) % (r.bottom - r.top + 1))
\* The row of the memory where row shows, through the hardware scroll.
MemoryRow(r, row) ==
  IF row \notin r.top .. r.bottom THEN row
  ELSE r.bottom - ((r.offset + r.bottom - row) % (r.bottom - r.top + 1))

\* The region scrolls; the rows below it are the area above, as the memory runs from the
\* last row.
SendScroll(panel, r) ==
  LET above == (FPGA_TEXT_ROWS - 1 - r.bottom) * CELL_H
  IN SendWords(SendWords(panel, 51, <<above, (r.bottom - r.top + 1) * CELL_H, r.top * CELL_H>>),
               55, <<above + r.offset * CELL_H>>)

\* A pixel of a cell: the cursor's last rows, and reverse video, turn it over.
CellPixel(cell, x, y) ==
  (<<x, y>> \in Font(cell % REVERSE)) # ((HasBit(cell, REVERSE)) # (HasBit(cell, CURSOR) /\ y >= CELL_H - CURSOR_ROWS))

\* A window, and its pixels column by column.
Window(panel, m, c) ==
  SendWords(SendWords(panel, 42, <<m * CELL_H, (m * CELL_H) + CELL_H - 1>>),
            43, <<c * CELL_W, (c * CELL_W) + CELL_W - 1>>)
DrawCell(panel, m, c, cell) ==
  SendWords(Window(panel, m, c), 44,
            [k \in 1 .. CELL_W * CELL_H |-> IF CellPixel(cell, (k - 1) \div CELL_H, (k - 1) % CELL_H) THEN 65535 ELSE 0])

\* The cursor shows at once when it moves or comes on, and then blinks.
Blink(r, t, now) ==
  LET periods == (now - r.blinkUs) \div FPGA_TEXT_BLINK_US IN
  IF <<t.row, t.col, t.cursor>> # <<r.row, r.col, r.cursor>> \/ now < r.blinkUs
    THEN [r EXCEPT !.row = t.row, !.col = t.col, !.cursor = t.cursor, !.blinkOn = TRUE, !.blinkUs = now]
  ELSE [r EXCEPT !.blinkOn = (@ # (periods % 2 = 1)), !.blinkUs = @ + periods * FPGA_TEXT_BLINK_US]

Oriented(s) ==
  IF s.render.setUp THEN s
  ELSE [panel |-> SendBytes(Ili9341Command(s.panel, 54), <<MADCTL_TEXT>>), render |-> [s.render EXCEPT !.setUp = TRUE]]

Scrolled(s, t) ==
  LET r == [s.render EXCEPT !.top = t.top, !.bottom = t.bottom, !.offset = t.offset, !.scrollOk = TRUE]
  IN IF s.render = r THEN s ELSE [panel |-> SendScroll(s.panel, r), render |-> r]

\* The cell as it is to look: {cursor, reverse, code}.
ShownCell(r, t, row, c) ==
  t.cells[row][c] + (IF t.cursor /\ r.blinkOn /\ row = t.row /\ c = t.col THEN CURSOR ELSE 0)

Drawn(s, m, c, cell) ==
  IF s.render.drawn[m][c] = cell THEN s
  ELSE [panel |-> DrawCell(s.panel, m, c, cell), render |-> [s.render EXCEPT !.drawn[m][c] = cell]]
DrawnAt(s, t, row, c) == Drawn(s, MemoryRow(s.render, row), c, ShownCell(s.render, t, row, c))
DrawnCells(s, t) ==
  FoldLeft(LAMBDA u, k : DrawnAt(u, t, k \div FPGA_TEXT_COLS, k % FPGA_TEXT_COLS), s,
           [k \in 1 .. FPGA_TEXT_ROWS * FPGA_TEXT_COLS |-> k - 1])

\* fpga_text_render_draw: of the renderer and the panel.
Blinked(s, t, now) == [s EXCEPT !.render = Blink(@, t, now)]
FpgaTextRenderDraw(render, t, panel, now) ==
  DrawnCells(Blinked(Scrolled(Oriented([render |-> render, panel |-> panel]), t), t, now), t)

=============================================================================
