---------------------------- MODULE MichaelBoard ----------------------------
(* Michael's board: emulator/bus.c with the glue logic, the RAM and the    *)
(* ROM, the VIA, the display, the keyboard's board, the serial chip, the   *)
(* FPGA's bus, and what --add puts there, on one bus with the 65C02; the   *)
(* chips' part of emulator/emu_michael.c.  A record holds the chips; the   *)
(* processor's record holds it as its world.  The keyboard, the display,   *)
(* the FPGA and the GAL share the VIA's port B.                            *)
EXTENDS Ps2Board, LcdHd44780, FpgaBus

CONSTANT MichaelCycles(_)       \* cycles of an instruction, see Cpu6502

MICHAEL_IRQ_TARGET == 16128
MICHAEL_RES_TICKS == 8
FLAKY_FALLS == 37

\* setup: see Michael.  rom is the ROM's bytes that are not $FF, by their address.
MichaelStart(setup, kbd, rom) ==
  LET spi == setup.w5500
      csPin == IF setup.gal /\ spi THEN 1 ELSE 0
      csDelay == IF setup.csRc THEN Us(20) ELSE 0
  IN [address |-> 0, rwb |-> TRUE, res |-> FALSE, osc |-> 0, ram |-> <<>>, rom |-> rom, ramMap |-> setup.ramMap,
      via |-> SerialUsbInit([ViaCleared EXCEPT !.ca2 = 1]), lcd |-> LcdSetGeometry(LcdStart(LCD_WIRING_MICHAEL), 4, 20),
      kbd |-> kbd, ser |-> SerialUsbQueueFile(SerialUsbStart, setup.serial),
      fpga |-> FpgaBusInit(setup.noFpga \/ setup.gal, spi /\ ~setup.gal), net |-> W5500Init(csPin, csDelay, setup.client),
      gal |-> [GalSpiInit EXCEPT !.on = setup.gal],
      bounce |-> [many |-> setup.csBounce, flaky |-> setup.csFlaky, level |-> 255, falls |-> 0],
      contention |-> 0, contending |-> FALSE, irqCut |-> setup.fault = "noirq"]

----
\* Port B

LcdPins(via) == [A |-> PortAPins(via), B |-> 0]
LcdDrives(board) == LcdReading(board.lcd, LcdPins(board.via))

\* What drives port B besides the VIA: the bytes of the devices that do.
PortBDrives(board) ==
  (IF LcdDrives(board) THEN {LcdOutput(board.lcd, LcdPins(board.via))} ELSE {})
  \cup (IF KbdDrives(board.via) THEN {KbdOutput(board.kbd)} ELSE {})
  \cup (IF FpgaBusDrives(board.fpga, board.via) THEN {board.fpga.readValue} ELSE {})
  \cup (IF GalSpiDrives(board.gal) THEN {board.gal.sr} ELSE {})

\* A low driver wins; a pin that nothing drives reads 0.
Wired(drives, open) == IF drives = {} THEN open ELSE FoldSet(LAMBDA b, all : AndByte(b, all), 255, drives)
PortBInput(board) == Wired(PortBDrives(board), 0)

Drivers(board) ==
  LET One(drives) == IF drives THEN 1 ELSE 0
  IN One(board.via.ddrb # 0) + One(LcdDrives(board)) + One(KbdDrives(board.via))
     + One(FpgaBusDrives(board.fpga, board.via)) + One(GalSpiDrives(board.gal))

\* bus_check_tick: a spell of more than one driver counts once.
BusChecked(board) ==
  LET many == Drivers(board) > 1
  IN [board EXCEPT !.contending = many,
                   !.contention = @ + (IF many /\ ~board.contending THEN 1 ELSE 0)]

\* bounce_tick: the levels fall together, and the chip select with them.
BounceLevel(board) ==
  LET outputs == AndByte(board.via.orb, board.via.ddrb)
  IN outputs + AndByte(Wired(PortBDrives(board), board.bounce.level), Inverted(board.via.ddrb))

Glitched(net, glitches) == IF glitches THEN CsGlitch(net) ELSE net
Fallen(board, level, fallen) ==
  LET b == board.bounce
      counts == b.flaky /\ fallen # {} /\ board.net.selected
      glitches == (b.many /\ Cardinality(fallen) > 2) \/ (counts /\ (b.falls + 1) % FLAKY_FALLS = 0)
  IN [board EXCEPT !.bounce.level = level, !.bounce.falls = IF counts THEN @ + 1 ELSE @, !.net = Glitched(@, glitches)]

Settled(board, level) ==
  Fallen(board, level, {k \in 0 .. 7 : BitOf(board.bounce.level, k) = 1 /\ BitOf(level, k) = 0})
Bounced(board) ==
  IF ~board.bounce.many /\ ~board.bounce.flaky THEN board ELSE Settled(board, BounceLevel(board))

----
\* The glue logic: what an address selects, and the address that the RAM sees

MichaelRom(address) == address >= 32768
MichaelVia(address) == address \in 24576 .. 32767
MichaelRam(board) ==
  CASE board.ramMap = "16k" -> board.address < 16384
    [] board.ramMap = "eater" -> board.address < (IF board.rwb THEN 16384 ELSE 32768)
    [] board.ramMap \in {"full", "mirror8k"} -> board.address < 24576

RamAddress(board) ==
  CASE board.ramMap = "mirror8k" -> board.address % 8192
    [] board.ramMap = "full" -> (32768 * (board.address \div 16384)) + (board.address % 16384)
    [] board.ramMap \in {"16k", "eater"} -> board.address % 16384

RomCell(board) == IF board.address \in DOMAIN board.rom THEN board.rom[board.address] ELSE 255
Register(board) == ViaRegister[(board.address % 16) + 1]

\* Nothing is selected: the bus is open, and reads $FF.
MichaelRead(board, address) ==
  LET b == [board EXCEPT !.address = address, !.rwb = TRUE]
      via == ViaRead(b.via, Register(b), PortBInput(b))
  IN CASE MichaelRom(address) -> [value |-> RomCell(b), world |-> b]
       [] MichaelRam(b) -> [value |-> Cell(b.ram, RamAddress(b)), world |-> b]
       [] MichaelVia(address) /\ ~MichaelRam(b) -> [value |-> via.value, world |-> [b EXCEPT !.via = via.via]]
       [] OTHER -> [value |-> 255, world |-> b]

\* A write may be the VIA's and the RAM's at once.
MichaelWrite(board, address, byte) ==
  LET b == [board EXCEPT !.address = address, !.rwb = FALSE]
      v == IF MichaelVia(address) THEN [b EXCEPT !.via = ViaWrite(@, Register(b), byte)] ELSE b
  IN IF MichaelRam(b) THEN [v EXCEPT !.ram = Written(@, RamAddress(b), byte)] ELSE v

MCpu == INSTANCE Cpu6502 WITH CpuVariant <- "65C02", CpuCycles <- MichaelCycles,
                              CpuRead <- MichaelRead, CpuWrite <- MichaelWrite

----
\* A tick: the chips in the order of their registration

LcdTicked(b) ==
  LET pins == [A |-> PortAPins(b.via), B |-> PortBPins(b.via, PortBInput(b))]
  IN [b EXCEPT !.lcd = LcdTick(@, pins, [A |-> b.via.ddra, B |-> b.via.ddrb])]
ViaAndLcd(board) == LcdTicked([board EXCEPT !.via = ViaTick(@, board.res, TRUE), !.osc = @ + 1])

WithSerial(board, s) == [board EXCEPT !.ser = s.ser, !.via = s.via]
WithKeyboard(board, k) == WithSerial([board EXCEPT !.kbd = k.kbd], SerialUsbTick(board.ser, k.via))
KbdAndSerial(board) == WithKeyboard(board, KbdTick(board.kbd, board.via, PortBInput(board), board.osc))

WithFpga(board, f) == [board EXCEPT !.fpga = f.fpga, !.net = W5500Tick(f.net, board.via)]
FpgaAndNet(board) ==
  WithFpga(board, FpgaBusTick([fpga |-> board.fpga, net |-> board.net], board.via, PortBInput(board)))

WithGal(board, g) == [board EXCEPT !.gal = g.gal, !.net = g.device]
GalTick(board) ==
  IF board.gal.on THEN WithGal(board, GalSpiTick(board.gal, board.net, board.via, PortBInput(board))) ELSE board
ClientTick(board) == [board EXCEPT !.net = NetClientTick(@)]

MichaelChips(board) == BusChecked(Bounced(ClientTick(GalTick(FpgaAndNet(KbdAndSerial(ViaAndLcd(board)))))))

\* bus_step
ProcessorStep(chip, board) ==
  MCpu!CpuTick([chip EXCEPT !.core.world = board],
               [res |-> board.res, nmi |-> FALSE, irq |-> ViaIrq(board.via) /\ ~board.irqCut, cycle |-> TRUE])
MichaelStep(chip) == ProcessorStep(chip, MichaelChips(chip.core.world))

MichaelReset(chip) ==
  [FoldLeft(LAMBDA c, k : MichaelStep(c), [chip EXCEPT !.core.world.res = TRUE], [k \in 1 .. MICHAEL_RES_TICKS |-> k])
     EXCEPT !.core.world.res = FALSE]

\* load_program: through the bus, as far as there is RAM.
LoadedByte(loading, address, byte) ==
  LET b == [loading.board EXCEPT !.address = address, !.rwb = FALSE]
  IN IF MichaelRam(b) THEN [loading EXCEPT !.board = MichaelWrite(b, address, byte)] ELSE [loading EXCEPT !.fits = FALSE]

RECURSIVE LoadedPart(_, _, _)
LoadedPart(loading, image, address) ==
  LET half == Len(image) \div 2 IN
  CASE ~loading.fits \/ image = <<>> -> loading
    [] loading.fits /\ Len(image) = 1 -> LoadedByte(loading, address % 65536, image[1])
    [] OTHER -> LoadedPart(LoadedPart(loading, SubSeq(image, 1, half), address),
                           SubSeq(image, half + 1, Len(image)), address + half)

BoardLoaded(board, image, load) ==
  LET all == LoadedPart([board |-> board, fits |-> TRUE], image, load)
  IN [all EXCEPT !.board.rwb = TRUE]

VectorsRom(load) ==
  (65532 :> LowByte(load)) @@ (65533 :> HighByte(load))
  @@ (65534 :> LowByte(MICHAEL_IRQ_TARGET)) @@ (65535 :> HighByte(MICHAEL_IRQ_TARGET))

\* The display as the ROM leaves it.
RomLcdSetup(lcd) == FoldLeft(LcdInstruction, lcd, <<56, 8, 1, 6, 12>>)

=============================================================================
