---------------------------- MODULE LcdHd44780 ----------------------------
(* The HD44780 display controller, emulator/chips/lcd_hd44780.c, and the   *)
(* frames of emulator/lcd_report.c.  The pins that the VIA shows it are a  *)
(* record of the two ports' values, and ddr a record of their directions;  *)
(* a wiring says which pins of which port its lines are.                   *)
EXTENDS Integers, Sequences, SequencesExt, Bits

LCD_DDRAM_SIZE == 80
LCD_CGRAM_SIZE == 64
LcdBlank == 32

LCD_WIRING_WENDY2C == [rs |-> [port |-> "A", bits |-> 1], rw |-> [port |-> "A", bits |-> 8],
                       e |-> [port |-> "B", bits |-> 32], data |-> [port |-> "A", bits |-> 240]]
LCD_WIRING_MICHAEL == [rs |-> [port |-> "A", bits |-> 32], rw |-> [port |-> "A", bits |-> 64],
                       e |-> [port |-> "A", bits |-> 128], data |-> [port |-> "B", bits |-> 255]]

\* The power-on state, the init's and the reset's.
LcdStart(wiring) ==
  [ddram |-> [k \in 0 .. LCD_DDRAM_SIZE - 1 |-> LcdBlank], cgram |-> [k \in 0 .. LCD_CGRAM_SIZE - 1 |-> 0],
   rows |-> 2, cols |-> 16, ac |-> 0, cgramMode |-> FALSE,
   increment |-> TRUE, entryShift |-> FALSE, displayOn |-> FALSE, cursorOn |-> FALSE, blinkOn |-> FALSE,
   twoLine |-> FALSE, fourBit |-> FALSE, font5x10 |-> FALSE,
   highNibble |-> 0, pending |-> FALSE, prevE |-> FALSE, dirty |-> FALSE, wiring |-> wiring,
   undriven |-> 0, contention |-> 0, contending |-> FALSE]

LcdReset(lcd) ==
  [LcdStart(lcd.wiring) EXCEPT !.rows = lcd.rows, !.cols = lcd.cols, !.dirty = TRUE,
                               !.undriven = lcd.undriven, !.contention = lcd.contention,
                               !.contending = lcd.contending]

Clamped(low, n, high) == IF n < low THEN low ELSE IF n > high THEN high ELSE n

LcdSetGeometry(lcd, rows, cols) ==
  [lcd EXCEPT !.rows = Clamped(1, rows, 4), !.cols = Clamped(1, cols, 20)]

----
\* Addresses

\* Two lines of 40 cells at 0 and $40, or one of 80.
DdramIndex(lcd, address) ==
  LET a == address % 128 IN
  IF lcd.twoLine THEN (40 * (a \div 64)) + ((a % 64) % 40) ELSE a % LCD_DDRAM_SIZE

\* The address counter's next value: CGRAM's 64 bytes, or around the line or the two.
AdvanceAc(lcd) ==
  [lcd EXCEPT !.ac =
     CASE lcd.cgramMode -> (@ + (IF lcd.increment THEN 1 ELSE -1)) % 64
       [] ~lcd.cgramMode /\ lcd.twoLine /\ lcd.increment ->
            IF @ = 39 THEN 64 ELSE IF @ = 103 THEN 0 ELSE (@ + 1) % 256
       [] ~lcd.cgramMode /\ lcd.twoLine /\ ~lcd.increment ->
            IF @ = 64 THEN 39 ELSE IF @ = 0 THEN 103 ELSE @ - 1
       [] ~lcd.cgramMode /\ ~lcd.twoLine /\ lcd.increment -> IF @ >= 79 THEN 0 ELSE @ + 1
       [] ~lcd.cgramMode /\ ~lcd.twoLine /\ ~lcd.increment -> IF @ = 0 THEN 79 ELSE @ - 1]

----
\* Instructions and data

LcdData(lcd, byte) ==
  LET stored == IF lcd.cgramMode THEN [lcd EXCEPT !.cgram[lcd.ac % 64] = byte]
                ELSE [lcd EXCEPT !.ddram[DdramIndex(lcd, lcd.ac)] = byte]
  IN [AdvanceAc(stored) EXCEPT !.dirty = TRUE]

LcdHome(lcd) == [lcd EXCEPT !.ac = 0, !.cgramMode = FALSE]

\* A command is told by its highest bit; a shift of the cursor is not modelled, and in
\* two-line mode there is no 5x10 font.
LcdInstruction(lcd, byte) ==
  LET Has(bit) == (byte \div bit) % 2 = 1 IN
  CASE byte >= 128 -> [lcd EXCEPT !.ac = byte % 128, !.cgramMode = FALSE]
    [] byte \in 64 .. 127 -> [lcd EXCEPT !.ac = byte % 64, !.cgramMode = TRUE]
    [] byte \in 32 .. 63 -> [lcd EXCEPT !.fourBit = ~Has(16), !.twoLine = Has(8), !.font5x10 = ~Has(8) /\ Has(4)]
    [] byte \in 16 .. 31 -> lcd
    [] byte \in 8 .. 15 -> [lcd EXCEPT !.displayOn = Has(4), !.cursorOn = Has(2), !.blinkOn = Has(1)]
    [] byte \in 4 .. 7 -> [lcd EXCEPT !.increment = Has(2), !.entryShift = Has(1)]
    [] byte \in 2 .. 3 -> LcdHome(lcd)
    [] byte = 1 -> [LcdHome(lcd) EXCEPT !.ddram = [k \in DOMAIN @ |-> LcdBlank], !.dirty = TRUE]
    [] byte = 0 -> lcd

ExecuteByte(lcd, rs, byte) == IF rs THEN LcdData(lcd, byte) ELSE LcdInstruction(lcd, byte)

----
\* The pins

LcdPin(lcd, pins, line) == AndByte(pins[lcd.wiring[line].port], lcd.wiring[line].bits)
Driven(lcd, ddr, line) == LcdPin(lcd, ddr, line) = lcd.wiring[line].bits

\* What a read cycle puts on the data lines; the busy flag is never set.
LcdReading(lcd, pins) == LcdPin(lcd, pins, "e") > 0 /\ LcdPin(lcd, pins, "rw") > 0
LcdOutput(lcd, pins) ==
  LET byte == CASE LcdPin(lcd, pins, "rs") = 0 -> lcd.ac % 128
                [] LcdPin(lcd, pins, "rs") > 0 /\ lcd.cgramMode -> lcd.cgram[lcd.ac % 64]
                [] OTHER -> lcd.ddram[DdramIndex(lcd, lcd.ac)]
  IN AndByte(byte, lcd.wiring.data.bits)

\* A write: a byte, or in 4-bit mode first its high nibble and then its low one.
LcdLatch(lcd, rs, data) ==
  CASE ~lcd.fourBit -> ExecuteByte(lcd, rs, data)
    [] lcd.fourBit /\ ~lcd.pending -> [lcd EXCEPT !.highNibble = data \div 16, !.pending = TRUE]
    [] lcd.fourBit /\ lcd.pending ->
         ExecuteByte([lcd EXCEPT !.pending = FALSE], rs, 16 * lcd.highNibble + data \div 16)

\* The enable line falls: a read of data moves on, a write is latched.
LcdStrobe(lcd, pins, ddr) ==
  LET rs == LcdPin(lcd, pins, "rs") > 0
      rw == LcdPin(lcd, pins, "rw") > 0
      floats == ~Driven(lcd, ddr, "rs") \/ ~Driven(lcd, ddr, "rw") \/ (~rw /\ ~Driven(lcd, ddr, "data"))
      seen == [lcd EXCEPT !.undriven = @ + (IF floats THEN 1 ELSE 0)]
  IN IF ~rw THEN LcdLatch(seen, rs, LcdPin(lcd, pins, "data")) ELSE IF rs THEN AdvanceAc(seen) ELSE seen

LcdTick(lcd, pins, ddr) ==
  LET e == LcdPin(lcd, pins, "e") > 0
      both == LcdReading(lcd, pins) /\ LcdPin(lcd, ddr, "data") > 0
      watched == [lcd EXCEPT !.contention = @ + (IF both /\ ~lcd.contending THEN 1 ELSE 0), !.contending = both]
      after == IF lcd.prevE /\ ~e THEN LcdStrobe(watched, pins, ddr) ELSE watched
  IN [after EXCEPT !.prevE = e]

----
\* What is seen

LineBase(row, cols) == IF cols = 20 THEN <<0, 64, 20, 84>>[(row % 4) + 1] ELSE <<0, 64>>[(row % 2) + 1]

\* The rows' cells, as the bytes of DDRAM, row by row.
VisibleBytes(lcd) ==
  [k \in 1 .. lcd.rows * lcd.cols |->
     lcd.ddram[DdramIndex(lcd, LineBase((k - 1) \div lcd.cols, lcd.cols) + ((k - 1) % lcd.cols))]]

LcdCursor(lcd) ==
  LET a == lcd.ac % 128
      here == {r \in 0 .. lcd.rows - 1 : a - LineBase(r, lcd.cols) \in 0 .. lcd.cols - 1}
      first == CHOOSE r \in here : \A q \in here : r <= q
      col == IF a >= 64 THEN a - 64 ELSE a
  IN CASE lcd.cgramMode -> [row |-> 0, col |-> 0]
       [] ~lcd.cgramMode /\ here # {} -> [row |-> first, col |-> a - LineBase(first, lcd.cols)]
       [] ~lcd.cgramMode /\ here = {} ->
            [row |-> a \div 64, col |-> IF col >= lcd.cols THEN lcd.cols - 1 ELSE col]

\* A byte as text; CGRAM's slots 6 and 7 stand for two characters that the font lacks.
LcdShown(byte) ==
  CASE byte = 6 -> 126
    [] byte = 7 -> 92
    [] byte = 0 -> 32
    [] byte \in 32 .. 126 -> byte
    [] OTHER -> 63

LcdText(lcd) == [k \in DOMAIN VisibleBytes(lcd) |-> LcdShown(VisibleBytes(lcd)[k])]
LcdRendered(lcd) == [lcd EXCEPT !.dirty = FALSE]

\* A frame of the trace file for each render that finds the display changed.
LcdTrace(lcd, frames) ==
  [frames |-> IF lcd.dirty THEN Append(frames, LcdText(lcd)) ELSE frames, lcd |-> LcdRendered(lcd)]

=============================================================================
