--------------------------- MODULE Wendy2Board ----------------------------
(* The wendy2c board: emulator/bus.c, the 22V10 with the clock and the     *)
(* address decoding, the RAM, the ROM, the LEDs and the button, and the    *)
(* ports at $F800 through which a program uses files of the host, all on   *)
(* one bus with the VIA, the display, the serial chip and the 65C02.  A    *)
(* record holds the chips' states; the processor's record holds it as its  *)
(* world.  The select lines and the RAM's bank bits are derived: the code  *)
(* works them out again from the address before each use.                  *)
EXTENDS Via6522, LcdHd44780, FileIO

CONSTANTS
  SYSC_MAX_FILES,     \* handles are 1 .. SYSC_MAX_FILES
  SYSC_NAME_MAX,      \* the longest name
  Wendy2Rom,          \* the ROM's bytes that are not $FF, by their address on the bus
  Wendy2Cycles(_)     \* cycles of an instruction, see Cpu6502

----
\* The file ports, emulator/chips/syscall_ports.c: a name is a sequence of bytes, and names a
\* file of the disk.

SYSCALL_PORTS_BASE == 63488
SYSCALL_PORTS_TOP == 63503

SyscallStart(disk) ==
  [name |-> <<>>, handle |-> 0, poweroff |-> FALSE, files |-> [h \in 1 .. SYSC_MAX_FILES |-> NoFile],
   disk |-> disk]

SyscallClaims(address) == address \in SYSCALL_PORTS_BASE .. SYSCALL_PORTS_TOP

IsOpenHandle(sysc, h) == h \in 1 .. SYSC_MAX_FILES /\ sysc.files[h].mode # "closed"

\* sysc_open: in the first free slot, or handle 0.
SyscallOpen(sysc, mode) ==
  LET free == {h \in 1 .. SYSC_MAX_FILES : ~IsOpenHandle(sysc, h)}
      slot == CHOOSE h \in free : \A k \in free : h <= k
  IN IF free = {} \/ ~FOpens(sysc.disk, sysc.name, mode)
       THEN [sysc EXCEPT !.name = <<>>, !.handle = 0]
     ELSE [sysc EXCEPT !.name = <<>>, !.handle = slot,
                       !.files[slot] = FOpen(sysc.disk, sysc.name, mode),
                       !.disk = DiskOpened(@, sysc.name, mode)]

\* The end of a file rewinds it: a program may read it again.
SyscallAtEnd(sysc) ==
  LET h == sysc.handle  file == sysc.files[h] IN
  IF ~IsOpenHandle(sysc, h) THEN [value |-> 0, sysc |-> sysc]
  ELSE IF FPeek(file) # EOF THEN [value |-> 0, sysc |-> sysc]
  ELSE [value |-> 128, sysc |-> [sysc EXCEPT !.files[h] = FRewind(@), !.disk = DiskFlushed(@, file)]]

SyscallGet(sysc) ==
  LET h == sysc.handle IN
  IF ~IsOpenHandle(sysc, h) THEN [value |-> 0, sysc |-> sysc]
  ELSE [value |-> IF FPeek(sysc.files[h]) = EOF THEN 0 ELSE FPeek(sysc.files[h]),
        sysc |-> [sysc EXCEPT !.files[h] = FGot(@)]]

SyscallRead(sysc, address) ==
  LET Opened(mode) == LET s == SyscallOpen(sysc, mode) IN [value |-> s.handle, sysc |-> s] IN
  CASE address = 63490 -> Opened("rb")
    [] address = 63491 -> Opened("wb")
    [] address = 63493 -> SyscallGet(sysc)
    [] address = 63494 -> SyscallAtEnd(sysc)
    [] OTHER -> [value |-> 0, sysc |-> sysc]

SyscallClose(sysc) ==
  LET h == sysc.handle IN
  IF ~IsOpenHandle(sysc, h) THEN [sysc EXCEPT !.handle = 0]
  ELSE [sysc EXCEPT !.handle = 0, !.files[h] = NoFile, !.disk = DiskFlushed(@, sysc.files[h])]

SyscallPut(sysc, byte) ==
  IF IsOpenHandle(sysc, sysc.handle) THEN [sysc EXCEPT !.files[sysc.handle] = FPut(@, byte)] ELSE sysc

SyscallWrite(sysc, address, byte) ==
  CASE address = 63488 -> IF Len(sysc.name) < SYSC_NAME_MAX THEN [sysc EXCEPT !.name = Append(@, byte)] ELSE sysc
    [] address = 63489 -> [sysc EXCEPT !.name = <<>>]
    [] address = 63492 -> [sysc EXCEPT !.handle = byte]
    [] address = 63495 -> SyscallPut(sysc, byte)
    [] address = 63496 -> SyscallClose(sysc)
    [] address = 63503 -> [sysc EXCEPT !.poweroff = TRUE]
    [] OTHER -> sysc

----
\* The board

RES_TICKS == 8        \* pulse_reset's width, in ticks of the oscillator

BoardStart(disk, hasDisk) ==
  [address |-> 0, rwb |-> TRUE, cks |-> FALSE, ck |-> FALSE, res |-> FALSE, osc |-> 0,
   ram |-> <<>>, via |-> SerialUsbInit(ViaSetPortAInput(ViaCleared, 2, 1)),
   lcd |-> LcdStart(LCD_WIRING_WENDY2C), ser |-> SerialUsbStart,
   led |-> FALSE, controlLed |-> FALSE, button |-> FALSE,
   hasDisk |-> hasDisk, sysc |-> SyscallStart(disk)]

----
\* The 22V10: what an address selects, and where in the RAM it lies

Config(board) == ViaBankConfig(board.via)

\* The VIA has $F000-$F7FF; the ROM has the rest of the upper half in configuration 0,
\* and in 16 and 24 only what is below the VIA; the RAM has everything else.
ViaSelected(address) == address \in 61440 .. 63487
RomSelected(address, config) ==
  /\ address >= 32768 /\ ~ViaSelected(address)
  /\ config = 0 \/ (config \in {16, 24} /\ address < 61440)
RamSelected(address, config) == ~ViaSelected(address) /\ ~RomSelected(address, config)

\* R15 to R18.  Of the address, the quarter and whether it is below the top 2 KB matter.
RamBank(address, config) ==
  LET quarter == address \div 16384
      upper == quarter >= 2 /\ address < 63488
      c4 == config >= 16
      C(k) == BitOf(config, k) = 1
      Line(set, k) == IF set THEN 2 ^ k ELSE 0
  IN Line(quarter = 3 \/ (quarter = 0 /\ IF c4 THEN ~C(3) ELSE config = 0 \/ C(0)), 0)
     + Line((quarter = 0 /\ IF c4 THEN C(3) ELSE C(1)) \/ (upper /\ c4 /\ C(0)), 1)
     + Line((quarter = 0 /\ ~c4 /\ C(2)) \/ (upper /\ c4 /\ C(1)), 2)
     + Line((quarter = 0 /\ ~c4 /\ C(3)) \/ (upper /\ c4 /\ C(2)), 3)

PhysicalAddress(address, config) ==
  (RamBank(address, config) * 32768) + ((address \div 32768) * 16384) + (address % 16384)

RamByte(ram, at) == IF at \in DOMAIN ram THEN ram[at] ELSE 0
RamStored(ram, at, byte) == (at :> byte) @@ ram
RomByte(address) == IF address \in DOMAIN Wendy2Rom THEN Wendy2Rom[address] ELSE 255

\* CKS halves the oscillator; CK halves it again while the ROM is selected, and else
\* follows CKS.  The processor's cycle is due when CK falls.
NextCk(board) ==
  \/ board.ck # board.cks
  \/ ~board.ck /\ ~RomSelected(board.address, Config(board))

ClockTick(board) == [board EXCEPT !.cks = ~@, !.ck = NextCk(board)]
CycleDue(board) == board.ck /\ ~NextCk(board)

----
\* The processor's accesses: the first chip that claims the address answers it

BoardRead(board, address) ==
  LET b == [board EXCEPT !.address = address, !.rwb = TRUE]
      config == Config(b)
      sysc == SyscallRead(b.sysc, address)
      via == ViaRead(b.via, ViaRegister[(address % 16) + 1], 0)
  IN CASE b.hasDisk /\ SyscallClaims(address) -> [value |-> sysc.value, world |-> [b EXCEPT !.sysc = sysc.sysc]]
       [] ViaSelected(address) -> [value |-> via.value, world |-> [b EXCEPT !.via = via.via]]
       [] RomSelected(address, config) -> [value |-> RomByte(address), world |-> b]
       [] OTHER -> [value |-> RamByte(b.ram, PhysicalAddress(address, config)), world |-> b]

BoardWrite(board, address, byte) ==
  LET b == [board EXCEPT !.address = address, !.rwb = FALSE]
      config == Config(b)
  IN CASE b.hasDisk /\ SyscallClaims(address) -> [b EXCEPT !.sysc = SyscallWrite(@, address, byte)]
       [] ViaSelected(address) -> [b EXCEPT !.via = ViaWrite(@, ViaRegister[(address % 16) + 1], byte)]
       [] RomSelected(address, config) -> b
       [] OTHER -> [b EXCEPT !.ram = RamStored(@, PhysicalAddress(address, config), byte)]

Cpu == INSTANCE Cpu6502 WITH CpuVariant <- "65C02", CpuCycles <- Wendy2Cycles,
                             CpuRead <- BoardRead, CpuWrite <- BoardWrite

----
\* A tick of the oscillator: the chips in the order of their registration

Pins(via) == [A |-> PortAPins(via), B |-> PortBPins(via, 0)]
Directions(via) == [A |-> via.ddra, B |-> via.ddrb]

LedsTick(board, via) ==
  [board EXCEPT !.led = HasBit(Pins(via).B, 64), !.controlLed = HasBit(Pins(via).A, 4)]

\* led_buttons_press: a pressed button pulls its pin down.
ButtonPressed(board, down) ==
  [board EXCEPT !.button = down, !.via = ViaSetPortAInput(@, 2, IF down THEN 0 ELSE 1)]

ChipsTick(board) ==
  LET via == ViaTick(board.via, board.res, CycleDue(board))
      serial == SerialUsbTick(board.ser, via)
      ticked == [ClockTick(board) EXCEPT !.osc = @ + 1, !.via = serial.via, !.ser = serial.ser,
                                         !.lcd = LcdTick(@, Pins(via), Directions(via))]
  IN LedsTick(ticked, serial.via)

\* bus_step.  chip is the processor's record, and holds the board.
ProcessorTick(chip, board, cycle) ==
  Cpu!CpuTick([chip EXCEPT !.core.world = board],
              [res |-> board.res, nmi |-> FALSE, irq |-> ViaIrq(board.via), cycle |-> cycle])
BusStep(chip) == ProcessorTick(chip, ChipsTick(chip.core.world), CycleDue(chip.core.world))

SetReset(chip, level) == [chip EXCEPT !.core.world.res = level]

PulseReset(chip) ==
  SetReset(FoldLeft(LAMBDA c, k : BusStep(c), SetReset(chip, TRUE), [k \in 1 .. RES_TICKS |-> k]), FALSE)

\* --wendy2-prog: the image in RAM, bank 1 mapped over the upper half, and pc at it.
Preloaded(chip, image, load) ==
  LET At(k) == (load + k - 1) % 65536
      ofVia == SelectSeq([k \in 1 .. Len(image) |-> k], LAMBDA k : ViaSelected(At(k)))
      stored == {k \in 1 .. Len(image) : ~ViaSelected(At(k))}
      ram == [p \in {PhysicalAddress(At(k), 1) : k \in stored} |->
                image[CHOOSE k \in stored : PhysicalAddress(At(k), 1) = p]]
      Put(via, k) == ViaWrite(via, ViaRegister[(At(k) % 16) + 1], image[k])
      written == [chip.core.world EXCEPT !.via = FoldLeft(Put, @, ofVia), !.ram = ram @@ @, !.rwb = TRUE,
                                         !.address = At(Len(image))]
  IN [chip EXCEPT !.core.world = [written EXCEPT !.via.orb = 1, !.via.ddrb = 31],
                  !.core.pc = load, !.core.sp = 255]

=============================================================================
