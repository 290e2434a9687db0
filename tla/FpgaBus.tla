------------------------------ MODULE FpgaBus ------------------------------
(* Michael's FPGA bus, emulator/chips/fpga_bus.c: each rise of E is a      *)
(* transfer, and the FPGA's side of it at the level of its commands.  A    *)
(* record holds it with the panel that it drives and the text mode's grid  *)
(* and renderer; the network's device is passed along.  A command is nine  *)
(* bits: a long form's operation is 256 + the operation.                   *)
EXTENDS FpgaText, W5500

CONSTANT FPGA_REPLY_DEPTH

BUS_E == 4
BUS_SOEB == 16
BUS_RS == 32
BUS_RW == 64

FpgaId == <<77, 66, 2, 11>>
TEXT_OP == 256
NET_OP == 512

\* The commands that the rules speak of, by their codes.
FpgaCommand(c) ==
  CASE c = 0 -> "NOP" [] c = 1 -> "ID" [] c = 3 -> "RESET" [] c = 4 -> "ECHO" [] c = 16 -> "DISP_RESET"
    [] c = 17 -> "DISP_COMMAND" [] c = 18 -> "DISP_DATA" [] c = 19 -> "BACKLIGHT" [] c = 80 -> "SERIAL_SEND"
    [] c = 128 -> "TEXT" [] c = 129 -> "NET" [] c = 272 -> "GEOMETRY"
    [] c \in 256 .. 271 -> TextOpName[c - 255]
    [] c = 512 -> "NET_RESET" [] c = 513 -> "NET_READ" [] c = 514 -> "NET_WRITE" [] c = 515 -> "NET_STATUS"
    [] OTHER -> "unknown"

IsTextOp(c) == c \in 256 .. 271
IsNetOp(c) == c \in 512 .. 515

\* net tells whether the FPGA has the network's device.
FpgaBusInit(absent, net) ==
  [eWas |-> FALSE, absent |-> absent, hasNet |-> net,
   cmd |-> 0, argsLeft |-> 0, firstArg |-> 0, sticky |-> {}, textMode |-> FALSE, reply |-> <<>>,
   reading |-> FALSE, readRs |-> FALSE, readValue |-> 0,
   text |-> FpgaTextInit, panel |-> Ili9341Init, render |-> FpgaTextRenderInit, renderUs |-> 0,
   netOpen |-> FALSE, netHeader |-> 0]

\* The status byte's bits.
StickyBit == <<"ABANDONED", "UNKNOWN", "EXTRA", "UNDERFLOW", "OVERFLOW", "NET_ERROR">>
StickyByte(set) ==
  LET bits[k \in 0 .. 6] == IF k = 0 THEN 0 ELSE bits[k - 1] + (IF StickyBit[k] \in set THEN 2 ^ (k - 1) ELSE 0)
  IN bits[6]
Sticks(f, bit) == [f EXCEPT !.sticky = @ \cup {bit}]

\* In text mode the raw display's commands are refused.
IsDisplay(f, c) ==
  \/ FpgaCommand(c) \in {"BACKLIGHT", "DISP_RESET"}
  \/ ~f.textMode /\ FpgaCommand(c) \in {"DISP_COMMAND", "DISP_DATA"}

IsKnown(f, c) ==
  \/ FpgaCommand(c) \in {"NOP", "ID", "RESET", "ECHO", "SERIAL_SEND", "TEXT", "GEOMETRY", "NET"}
  \/ IsDisplay(f, c) \/ IsTextOp(c) \/ IsNetOp(c)

Streams(c) == FpgaCommand(c) \in {"ECHO", "SERIAL_SEND", "DISP_COMMAND", "DISP_DATA", "PUT", "NET_WRITE"}

Arguments(f, c) ==
  LET name == FpgaCommand(c) IN
  CASE IsDisplay(f, c) -> IF name = "DISP_DATA" THEN 0 ELSE 1
    [] ~IsDisplay(f, c) /\ name \in {"TEXT", "NET"} -> 1
    [] name = "NET_READ" -> 4
    [] name = "NET_WRITE" -> 3
    [] name \in {"GOTO", "REGION"} -> 2
    [] name \in {"INSERT", "DELETE", "SCROLL_UP", "SCROLL_DOWN", "INSERT_LINES", "DELETE_LINES",
                 "CURSOR", "VIDEO"} -> 1
    [] OTHER -> 0

\* Mutant: a byte that does not fit is lost without a word.
PushReplySilent(f, b) == IF Len(f.reply) = FPGA_REPLY_DEPTH THEN f ELSE [f EXCEPT !.reply = Append(@, b)]
\* A full queue loses the byte, and says so.
PushReply(f, b) ==
  IF Len(f.reply) = FPGA_REPLY_DEPTH THEN Sticks(f, "OVERFLOW") ELSE [f EXCEPT !.reply = Append(@, b)]
PushReplies(f, bytes) == FoldLeft(PushReply, f, bytes)

\* fpga_bus_render
WithPicture(f, drawn, now) == [f EXCEPT !.panel = drawn.panel, !.render = drawn.render, !.renderUs = now]
FpgaBusRender(f, now) ==
  IF f.textMode THEN WithPicture(f, FpgaTextRenderDraw(f.render, f.text, f.panel, now), now) ELSE f

----
\* Commands.  s is the FPGA with the device on its network pins.

\* An operation of the text's without arguments; PUT takes its data.
TextAtOnce(f, c, arguments) ==
  IF IsTextOp(c) /\ arguments = 0 /\ FpgaCommand(c) # "PUT" THEN [f EXCEPT !.text = FpgaTextOp(@, c - TEXT_OP, 0, 0)]
  ELSE f

\* A command, or a long form's operation: all that it does before its arguments.
CommandActs(f, name) ==
  LET ends == f.textMode /\ name \in {"TEXT_OFF", "DISP_RESET"}
  IN CASE name = "ID" -> PushReplies(f, FpgaId)
       [] name = "NET_STATUS" -> PushReply(f, 0)
       [] name = "GEOMETRY" -> PushReplies(f, <<FPGA_TEXT_ROWS, FPGA_TEXT_COLS>>)
       [] name = "RESET" -> [f EXCEPT !.reply = <<>>, !.sticky = {}]
       [] name = "TEXT_ON" -> [f EXCEPT !.textMode = TRUE, !.render = FpgaTextRenderInit]
       [] ends -> [FpgaBusRender(f, f.renderUs) EXCEPT !.textMode = FALSE]
       [] OTHER -> f

StartCommand(s, c) ==
  LET f == [(IF IsKnown(s.fpga, c) THEN s.fpga ELSE Sticks(s.fpga, "UNKNOWN"))
              EXCEPT !.cmd = c, !.argsLeft = Arguments(s.fpga, c)]
  IN [fpga |-> TextAtOnce(CommandActs(f, FpgaCommand(c)), c, Arguments(s.fpga, c)),
      net |-> IF FpgaCommand(c) = "NET_RESET" /\ f.hasNet THEN W5500ResetLine(s.net) ELSE s.net]

\* Without a device MISO is high, and a select goes nowhere.
Exchanged(s, r) == [in |-> r.in, s |-> [s EXCEPT !.net = r.device]]
NetByte(s, b) == IF s.fpga.hasNet THEN Exchanged(s, SpiByte(s.net, b)) ELSE [in |-> 255, s |-> s]
NetSelect(s, selected) == IF s.fpga.hasNet THEN [s EXCEPT !.net = W5500Select(@, selected)] ELSE s

NetClose(s) == [(IF s.fpga.netOpen THEN NetSelect(s, FALSE) ELSE s) EXCEPT !.fpga.netOpen = FALSE]

\* A header's byte opens the frame; the device counts the header's bytes.
HeaderChecked(r) == IF r.in = r.s.fpga.netHeader THEN r.s ELSE [r.s EXCEPT !.fpga = Sticks(@, "NET_ERROR")]
NetHeader(s, b) ==
  LET opened == IF s.fpga.netOpen THEN s
                ELSE [NetSelect(s, TRUE) EXCEPT !.fpga.netOpen = TRUE, !.fpga.netHeader = 0]
  IN HeaderChecked(NetByte([opened EXCEPT !.fpga.netHeader = @ + 1], b))

\* The count of a read, its last argument: the bytes, and the frame is over.  0 is 256.
Replied(r) == [r.s EXCEPT !.fpga = PushReply(@, r.in)]
NetRead(s, count) ==
  NetClose(FoldLeft(LAMBDA t, k : Replied(NetByte(t, 0)), s, [k \in 1 .. IF count = 0 THEN 256 ELSE count |-> k]))

NetData(s, b) ==
  LET fewer == [s EXCEPT !.fpga.argsLeft = @ - 1] IN
  CASE s.fpga.argsLeft > 0 ->
         IF FpgaCommand(s.fpga.cmd) = "NET_READ" /\ s.fpga.argsLeft = 1 THEN NetRead(fewer, b) ELSE NetHeader(fewer, b)
    [] s.fpga.argsLeft = 0 /\ FpgaCommand(s.fpga.cmd) = "NET_WRITE" -> NetByte(s, b).s
    [] OTHER -> [s EXCEPT !.fpga = Sticks(@, "EXTRA")]

\* A command abandons one that still wants arguments, and ends a frame.
Abandons(s) == NetClose(IF s.fpga.argsLeft > 0 THEN [s EXCEPT !.fpga = Sticks(@, "ABANDONED")] ELSE s)

\* A command with its last argument.
WithArguments(f, b) ==
  LET name == FpgaCommand(f.cmd)
      first == IF Arguments(f, f.cmd) = 2 THEN f.firstArg ELSE b
  IN CASE IsTextOp(f.cmd) -> [f EXCEPT !.text = FpgaTextOp(@, f.cmd - TEXT_OP, first, b)]
       [] IsDisplay(f, f.cmd) /\ name = "DISP_RESET" -> [f EXCEPT !.panel = Ili9341ResetLine(@, b % 2)]
       [] IsDisplay(f, f.cmd) /\ name = "DISP_COMMAND" -> [f EXCEPT !.panel = Ili9341Command(@, b)]
       [] IsDisplay(f, f.cmd) /\ name = "BACKLIGHT" -> [f EXCEPT !.panel.backlight = b]
       [] OTHER -> f

Argument(f, b) ==
  LET kept == [f EXCEPT !.firstArg = IF f.argsLeft = 2 THEN b ELSE @, !.argsLeft = @ - 1]
  IN IF f.argsLeft = 1 THEN WithArguments(kept, b) ELSE kept

\* Data behind the arguments: what a command streams, or else too much.
StreamData(f, b) ==
  CASE FpgaCommand(f.cmd) = "ECHO" -> PushReply(f, b)
    [] FpgaCommand(f.cmd) = "PUT" -> [f EXCEPT !.text = FpgaTextOp(@, 3, b, 0)]
    [] IsDisplay(f, f.cmd) /\ Streams(f.cmd) -> [f EXCEPT !.panel = Ili9341Data(@, b)]
    [] IsKnown(f, f.cmd) /\ ~Streams(f.cmd) -> Sticks(f, "EXTRA")
    [] OTHER -> f

WriteData(s, b) ==
  CASE IsNetOp(s.fpga.cmd) -> NetData(s, b)
    [] ~IsNetOp(s.fpga.cmd) /\ s.fpga.argsLeft > 0 -> [s EXCEPT !.fpga = Argument(@, b)]
    [] OTHER -> [s EXCEPT !.fpga = StreamData(@, b)]

\* A byte behind NET or TEXT is the operation: with it the long form is a command, too.
LongForm(f) == f.argsLeft > 0 /\ FpgaCommand(f.cmd) \in {"NET", "TEXT"}
LongOp(f) == IF FpgaCommand(f.cmd) = "NET" THEN NET_OP ELSE TEXT_OP
Write(s, rs, b) ==
  IF rs /\ ~LongForm(s.fpga) THEN WriteData(s, b)
  ELSE StartCommand(IF rs THEN s ELSE Abandons(s), IF rs THEN LongOp(s.fpga) + b ELSE b)

----
\* Transfers

\* A read has its byte at the rise of E; one of the status clears what it reports.
BeginRead(f, rs) ==
  LET r == [f EXCEPT !.reading = TRUE, !.readRs = rs] IN
  CASE ~rs -> [r EXCEPT !.readValue = StickyByte(f.sticky), !.sticky = {}]
    [] rs /\ f.reply # <<>> -> [r EXCEPT !.readValue = Head(f.reply)]
    [] rs /\ f.reply = <<>> -> Sticks([r EXCEPT !.readValue = 0], "UNDERFLOW")

\* At the fall the reply goes, if there is one by then.
EndRead(f) ==
  IF ~f.reading THEN f
  ELSE [f EXCEPT !.reading = FALSE, !.reply = IF f.readRs /\ f.reply # <<>> THEN Tail(@) ELSE @]

Transfer(s, pins, byte) ==
  LET rs == HasBit(pins, BUS_RS)
      rw == HasBit(pins, BUS_RW)
  IN CASE s.fpga.absent -> s
       [] ~s.fpga.absent /\ rw -> [s EXCEPT !.fpga = BeginRead(@, rs)]
       [] ~s.fpga.absent /\ ~rw -> Write(s, rs, byte)

\* fpga_bus_tick.  E as an input is low.
FpgaBusTick(s, via, portB) ==
  LET pins == PortAPins(via)
      e == HasBit(via.ddra, BUS_E) /\ HasBit(pins, BUS_E)
  IN [(CASE e /\ ~s.fpga.eWas -> Transfer(s, pins, PortBPins(via, portB))
         [] ~e /\ s.fpga.eWas -> [s EXCEPT !.fpga = EndRead(@)]
         [] OTHER -> s) EXCEPT !.fpga.eWas = e]

\* Mutant: the FPGA does not look at SOEB, and drives port B to the end of the read.
FpgaBusDrivesOn(f, via) == f.reading
\* The keyboard's board has port B while SOEB is low.
FpgaBusDrives(f, via) == f.reading /\ HasBit(PortAPins(via), BUS_SOEB)

=============================================================================
