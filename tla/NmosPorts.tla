----------------------------- MODULE NmosPorts -----------------------------
(* The memory of the nmos machine and the ports in it: read6502 and        *)
(* write6502 of emulator/emulator.c.  w is the processor's world: memory,  *)
(* and the record that SerialPort's operators work on.  An access that has *)
(* to wait asks for what it waits for and is made again once it has come;  *)
(* event is what came meanwhile.                                           *)
EXTENDS SerialPort, FileIO, SequencesExt, TLC

CONSTANTS
  NmosCycles(_),      \* cycles of an instruction, see Cpu6502
  PacePolls           \* pace_polls: con_ready polls in a pause

-----------------------------------------------------------------------------
(* The services at $F006, emulator/stubs.c: a table of jumps to routines   *)
(* that use the ports.  A routine is written here as pieces of code; a     *)
(* piece ends with a return, whose form is the same in all of them.  With  *)
(* --strict-api a return inverts the flags that the call does not promise. *)

TableBase == 61446
TailSize == 13
\* The flags of the status that a call does not return: all four, all but C, all but N.
KeepsNone == 195
KeepsC == 194
KeepsN == 67

Low(w) == w % 256
High(w) == w \div 256
Word(w) == <<Low(w), High(w)>>

\* Ports, by the calls' names.
PortOf == [read_b |-> 61444, write_b |-> 61441, write_d |-> 61442, exit |-> 61443, open |-> 61445, close |-> 61440,
           read |-> 65509, argc |-> 65504, argv_l |-> 65505, argv_h |-> 65506, openout |-> 65507, write |-> 65508,
           con_read |-> 65520, con_flush |-> 65521, term_rows |-> 65522, term_cols |-> 65523, con_ready |-> 65524,
           serial_ready |-> 65525, serial_data |-> 65526, serial_write |-> 65527, serial_write_ready |-> 65528,
           eof_b |-> 65529, eof |-> 65530, opendir |-> 65531, wait_lo |-> 65510, wait_hi |-> 65511,
           wait_ready |-> 65512, scr_a |-> 65513, scr_op |-> 65514]

Lda(port) == <<173>> \o Word(PortOf[port])
Sta(port) == <<141>> \o Word(PortOf[port])
Ldx(port) == <<174>> \o Word(PortOf[port])
Stx(port) == <<142>> \o Word(PortOf[port])
Test(port) == <<44>> \o Word(PortOf[port])
Pha == <<72>>   Pla == <<104>>   Clc == <<24>>   Sec == <<56>>
Beq == 240
Bmi == 48

\* A routine's pieces: code, and the flags its return leaves out.
Return(code, mask) == [code |-> code, mask |-> mask]
Plain(code) == <<Return(code, KeepsNone)>>
\* Two ends: the first, with the carry clear, and behind it the one that the branch takes.
Branching(test, branch, first, second, retSize) ==
  <<Return(test \o <<branch, Len(first) + 1 + retSize>> \o first \o Clc, KeepsC), Return(second \o Sec, KeepsC)>>

SerialWriteStub(terminal, retSize) ==
  IF ~terminal THEN <<Return(Sec, KeepsC)>>
  ELSE Branching(Pha \o Lda("serial_write_ready"), Beq, Pla \o Sta("serial_write"), Pla, retSize)

\* The routines in the table's order.  exit does not return.
Routines(terminal, retSize) == <<
  Branching(Test("eof_b"), Bmi, Lda("read_b"), <<>>, retSize),
  Plain(Sta("write_b")), Plain(Sta("write_d")), <<Return(Sta("exit"), -1)>>,
  Plain(Lda("open")), Plain(Sta("close")),
  Branching(Test("eof"), Bmi, Lda("read"), <<>>, retSize),
  Plain(Lda("argc")), Plain(Ldx("argv_h") \o Lda("argv_l")), Plain(Lda("openout")), Plain(Sta("write")),
  Plain(Lda("con_read")), Plain(Sta("con_flush")), Plain(Lda("con_ready")),
  Plain(Lda("term_rows")), Plain(Lda("term_cols")),
  Branching(Lda("serial_ready"), Beq, Lda("serial_data"), <<>>, retSize),
  SerialWriteStub(terminal, retSize), Plain(Lda("opendir")),
  <<Return(Sta("wait_lo") \o Stx("wait_hi") \o Lda("wait_ready"), KeepsN)>> >>

\* A screen call's routine; with --strict-api it changes A and Y, as it may.
ScreenRoutine(op, strict) ==
  Plain(Sta("scr_a") \o <<169, op>> \o Sta("scr_op") \o
        (IF strict THEN <<152, 73, 255, 168, 169, 255 - op>> ELSE <<>>))

AllRoutines(terminal, direct, strict) ==
  Routines(terminal, IF strict THEN 3 ELSE 1)
  \o (IF direct THEN [op \in 1 .. 15 |-> ScreenRoutine(op - 1, strict)] ELSE <<>>)

\* The tail that inverts the flags in a mask, and keeps the registers.
StrictTail(scratch, mask) ==
  <<141>> \o Word(scratch) \o <<8, 104, 73, mask, 72, 173>> \o Word(scratch) \o <<40, 96>>

Tails(scratch) == StrictTail(scratch, KeepsNone) \o StrictTail(scratch, KeepsC) \o StrictTail(scratch, KeepsN)
TailFor(scratch, mask) ==
  scratch + 1 + TailSize * (IF mask = KeepsC THEN 1 ELSE IF mask = KeepsN THEN 2 ELSE 0)

Code(pieces, strict, scratch) ==
  FoldLeft(LAMBDA code, p : code \o p.code \o
             (IF p.mask = -1 THEN <<>> ELSE IF strict THEN <<76>> \o Word(TailFor(scratch, p.mask)) ELSE <<96>>),
           <<>>, pieces)

\* generate_stubs: the bytes from $F006 on.  The table, with --strict-api its scratch byte
\* and the tails, and the routines in order; the byte at scratch is not set.
LaidRoutine(s, code) ==
  [next |-> s.next + Len(code), code |-> s.code \o code, table |-> s.table \o <<76>> \o Word(s.next)]
LaidOut(routines, strict, scratch, tails) ==
  LET laid == FoldLeft(LAMBDA s, routine : LaidRoutine(s, Code(routine, strict, scratch)),
                       [next |-> scratch + Len(tails), code |-> <<>>, table |-> <<>>], routines)
  IN laid.table \o tails \o laid.code
WithTails(routines, strict, scratch) ==
  LaidOut(routines, strict, scratch, IF strict THEN <<0>> \o Tails(scratch) ELSE <<>>)
StubsOf(routines, strict) == WithTails(routines, strict, TableBase + 3 * Len(routines))
StubBytes(terminal, direct, strict) == StubsOf(AllRoutines(terminal, direct, strict), strict)

-----------------------------------------------------------------------------
(* --direct-io, emulator/direct_io.c: a program's screen calls as the ANSI *)
(* bytes that a terminal wants, and what a terminal sends decoded into the *)
(* editor's key codes.  The decoder is an automaton that wants a byte, or  *)
(* to know whether one comes in time; a byte that it has read beyond a key *)
(* goes to pushback, whose end is read first.                              *)

EscByte == 27
KeyEscape == 27
KeyBackspace == 8
NoKey == 0
WordForward == 137
WordBack == 138

\* ESC [ A to ESC [ H, and ESC [ 1 ~ to ESC [ 8 ~.
FinalKeys == <<128, 129, 131, 130, 0, 133, 0, 132>>
TildeKeys == <<132, 0, 136, 133, 134, 135, 132, 133>>

KeyStart == [at |-> "start", digit |-> 0, key |-> NoKey, unread |-> <<>>]
KeyIs(k, key) == [k EXCEPT !.at = "key", !.key = key]
At(k, where) == [k EXCEPT !.at = where]

KeyWants(k) ==
  CASE k.at = "key" -> "nothing"
    [] k.at \in {"escape", "escape O"} -> "wait"
    [] OTHER -> "byte"

\* A sequence that is not known is read to its final byte, or to the end of the input.
Eat(k, b) == IF b # 0 /\ b < 64 THEN At(k, "eat") ELSE KeyIs(k, NoKey)

\* ESC O is a key's start only before P to S.
EscapeThenO(k, rest) == [KeyIs(k, KeyEscape) EXCEPT !.unread = rest \o <<79>>]

KeyByte(k, b) ==
  CASE k.at = "start" ->
         IF b = EscByte THEN At(k, "escape")
         ELSE KeyIs(k, IF b < 127 THEN b ELSE IF b = 127 THEN KeyBackspace ELSE NoKey)
    [] k.at = "after escape" ->
         IF b = 91 THEN At(k, "csi") ELSE IF b = 79 THEN At(k, "escape O")
         ELSE [KeyIs(k, KeyEscape) EXCEPT !.unread = <<b>>]
    [] k.at = "after O" -> IF b \in 80 .. 83 THEN KeyIs(k, NoKey) ELSE EscapeThenO(k, <<b>>)
    [] k.at = "csi" ->
         IF b \in 65 .. 72 THEN KeyIs(k, FinalKeys[b - 64])
         ELSE IF b \in 49 .. 56 THEN [At(k, "digit") EXCEPT !.digit = b - 48] ELSE Eat(k, b)
    [] k.at = "digit" ->
         IF b = 126 THEN KeyIs(k, TildeKeys[k.digit]) ELSE IF b = 59 THEN At(k, "modifier") ELSE Eat(k, b)
    [] k.at = "modifier" -> IF b = 53 THEN At(k, "control") ELSE Eat(k, b)
    [] k.at = "control" ->
         IF b = 67 THEN KeyIs(k, WordForward) ELSE IF b = 68 THEN KeyIs(k, WordBack) ELSE Eat(k, b)
    [] k.at = "eat" -> Eat(k, b)

\* Whether a byte comes within ESC_WAIT_MS.
KeyWaited(k, comes) ==
  IF k.at = "escape" THEN IF comes THEN At(k, "after escape") ELSE KeyIs(k, KeyEscape)
  ELSE IF comes THEN At(k, "after O") ELSE EscapeThenO(k, <<>>)

----
\* direct_io_screen

Decimal(n) ==
  IF n < 10 THEN <<48 + n>> ELSE IF n < 100 THEN <<48 + (n \div 10), 48 + (n % 10)>>
  ELSE <<48 + (n \div 100), 48 + ((n \div 10) % 10), 48 + (n % 10)>>
\* A 1 is every parameter's default.
Param(n) == IF n = 1 THEN <<>> ELSE Decimal(n)
Csi(bytes) == <<EscByte, 91>> \o bytes

ScreenCall(op, a, y) ==
  CASE op = 0 -> Csi(Param(a) \o (IF y = 1 THEN <<>> ELSE <<59>> \o Decimal(y)) \o <<72>>)
    [] op = 1 -> Csi(<<50, 74>>) \o Csi(<<72>>)
    [] op = 2 -> Csi(<<75>>)
    [] op = 3 -> Csi(<<63, 50, 53, 104>>)
    [] op = 4 -> Csi(<<63, 50, 53, 108>>)
    [] op = 5 -> Csi(<<55, 109>>)
    [] op = 6 -> Csi(<<109>>)
    [] op = 7 -> Csi(Decimal(a) \o <<59>> \o Decimal(y) \o <<114>>)
    [] op = 8 -> Csi(<<114>>)
    [] op \in 9 .. 14 -> Csi(Param(a) \o <<(<<64, 80, 83, 84, 76, 77>>)[op - 8]>>)
    [] OTHER -> <<>>

-----------------------------------------------------------------------------
\* The ports

EscWaitMs == 100
ArgvBase == 65024
ArgvTop == 65504
BrkVector == 65534

Byte(w, at) == IF at \in DOMAIN w.mem THEN w.mem[at] ELSE 0
Stored(w, at, b) == [w EXCEPT !.mem = (at :> b) @@ @]
Placed(mem, at, bytes) == [a \in at .. at + Len(bytes) - 1 |-> bytes[a - at + 1]] @@ mem

RECURSIVE CString(_, _)
CString(w, at) == IF Byte(w, at) = 0 THEN <<>> ELSE <<Byte(w, at)>> \o CString(w, at + 1)

\* The string that A and X point to.
Named(w) == CString(w, w.regs.a + 256 * w.regs.x)

Gives(w, value) == [world |-> w, value |-> value]
Asks(w, what) == Gives([w EXCEPT !.asks = what], 0)

\* emulation_exit: the terminal is restored, and the run ends here.
Abandon(w) == [w EXCEPT !.tty = "normal", !.aborted = TRUE]
\* A port that the terminal mode does not have.
NotInTerminal(w, otherwise) == IF w.mode = "terminal" THEN Gives(Abandon(w), 0) ELSE otherwise

WithFiles(w, answer) ==
  Gives([w EXCEPT !.files = [answer.io EXCEPT !.aborted = FALSE], !.aborted = @ \/ answer.io.aborted,
                  !.tty = IF answer.io.aborted THEN "normal" ELSE @], answer.value)

----
\* Console input

\* read on the terminal.  A signal that comes while it sleeps ends it with nothing; SIGINT
\* ends the run.
ReadTerminal(w, atEnd) ==
  CASE w.event = "interrupted" ->
         Gives([w EXCEPT !.done = @ \/ w.signals.int, !.exit = IF w.signals.int /\ @ = -1 THEN 130 ELSE @], 0)
    [] w.event # "interrupted" /\ w.typed # <<>> -> Gives([w EXCEPT !.typed = Tail(@)], Head(w.typed))
    [] w.event # "interrupted" /\ w.typed = <<>> /\ w.gone -> Gives(atEnd, 0)
    [] OTHER -> Asks(w, "byte")

\* A byte of --input may start a pause.
PaceRead(w) ==
  [w EXCEPT !.pace.in = @ + 1,
            !.pace.remaining = IF Holds(w.pace, w.pace.in) THEN PacePolls ELSE @]

\* con_read_byte
ConReadByte(w) ==
  LET file == w.files.files[1] IN
  IF w.mode = "console" THEN ReadTerminal(w, [w EXCEPT !.eof = TRUE])
  ELSE IF FPeek(file) = EOF THEN Gives([w EXCEPT !.eof = TRUE], 0)
  ELSE Gives(PaceRead([w EXCEPT !.files.files[1] = FGot(@)]), FPeek(file))

\* The end of a pause is logged: what was read, and what was written.
EndPause(w) == [w EXCEPT !.pace.remaining = 0, !.pace.log = Append(@, <<w.pace.in, Len(w.out)>>)]

\* wait_ready of a terminal, in wall time.
WaitTerminal(w) ==
  IF w.event \in {"over", "interrupted"} THEN Gives(w, NotReady)
  ELSE IF w.typed # <<>> \/ w.gone THEN Gives(w, Ready) ELSE Asks(w, "wait")

\* serial_wait_ready: the deadline is worked out when the wait starts.
LineWaited(w, until, r) ==
  CASE r.value = Asleep /\ w.serial.cycles = 0 -> WaitTerminal(w)
    [] r.value = Asleep /\ w.serial.cycles > 0 -> Asks([r.m EXCEPT !.deadline = until], "line")
    [] r.value = Spinning -> Asks([r.m EXCEPT !.deadline = until], "spin")
    [] OTHER -> Gives([r.m EXCEPT !.deadline = Never], r.value)
WaitSerial(w, ms) ==
  LET until == IF w.deadline = Never THEN w.ticks + ms * TicksPerMs ELSE w.deadline
  IN LineWaited(w, until, SerialWaitReady(w, until))

\* --input has every byte at once; in a pause the first wait times out, and the next ends it.
WaitInput(w) ==
  IF w.pace.remaining > 1 THEN Gives([w EXCEPT !.pace.remaining = 1], NotReady)
  ELSE Gives(IF w.pace.remaining = 1 THEN EndPause(w) ELSE w, Ready)

\* wait_ready; 1 says that the input has ended.
WaitReady(w, ms) ==
  CASE w.mode = "terminal" -> WaitSerial(w, ms)
    [] w.mode # "terminal" /\ w.eof -> Gives(w, 1)
    [] w.mode = "console" /\ ~w.eof -> WaitTerminal(w)
    [] OTHER -> WaitInput(w)

\* direct_io_read_key: the decoder's bytes come from pushback first.
RECURSIVE ReadKey(_)
KeyTook(wants, r) ==
  IF r.world.asks # "nothing" THEN r
  ELSE ReadKey([r.world EXCEPT !.event = "none",
                               !.key = IF wants = "wait" THEN KeyWaited(@, r.value = Ready) ELSE KeyByte(@, r.value)])
ReadKey(w) ==
  LET wants == KeyWants(w.key)
      fromBack == wants = "byte" /\ w.pushback # <<>>
  IN CASE wants = "nothing" ->
            Gives([w EXCEPT !.pushback = @ \o w.key.unread, !.key = KeyStart, !.keys = IF w.key.key = NoKey THEN @ ELSE Append(@, w.key.key)],
                  w.key.key)
       [] fromBack -> ReadKey([w EXCEPT !.key = KeyByte(@, w.pushback[Len(w.pushback)]), !.pushback = Front(@)])
       [] OTHER -> KeyTook(wants, IF wants = "wait" THEN WaitReady(w, EscWaitMs) ELSE ConReadByte(w))

\* con_ready
ConReady(w) ==
  CASE w.directIo /\ w.pushback # <<>> -> Gives(w, Ready)
    [] ~(w.directIo /\ w.pushback # <<>>) /\ w.eof -> Gives(w, 1)
    [] OTHER ->
         IF w.mode = "console" THEN Gives(w, IF w.typed # <<>> \/ w.gone THEN Ready ELSE NotReady)
         ELSE IF w.pace.remaining = 0 THEN Gives(w, Ready)
         ELSE Gives(IF w.pace.remaining = 1 THEN EndPause(w) ELSE [w EXCEPT !.pace.remaining = @ - 1], NotReady)

\* serial_data without a baud rate sleeps for a byte of the terminal.
Answers(r) == Gives(r.m, r.value)
SerialData(w) ==
  IF ~Injected(w) /\ w.serial.cycles = 0 /\ w.serial.interactive THEN ReadTerminal(w, w) ELSE Answers(PortSerialData(w))

\* argv: an argument that does not exist ends the run.
ArgvByte(w, half(_)) ==
  IF w.regs.a < Len(w.args) THEN Gives(w, half(w.args[w.regs.a + 1])) ELSE Gives(Abandon(w), 0)

Capped(n) == IF n > 255 THEN 255 ELSE n

----
\* read6502 and write6502

ReadPorts == {"read_b", "open", "openout", "read", "eof_b", "eof", "opendir", "argc", "argv_l", "argv_h", "con_read",
              "term_rows", "term_cols", "con_ready", "wait_ready", "serial_ready", "serial_data", "serial_write_ready"}
WritePorts == {"write_b", "scr_a", "scr_op", "write_d", "close", "exit", "write", "wait_lo", "wait_hi", "con_flush",
               "serial_write"}

ReadPort(w, port) ==
  CASE port = "read_b" -> NotInTerminal(w, WithFiles(w, ReadFile(w.files, 1)))
    [] port = "eof_b" -> NotInTerminal(w, WithFiles(w, FileAtEnd(w.files, 1)))
    [] port = "open" -> WithFiles(w, FileOpen(w.files, Named(w), "rb"))
    [] port = "openout" -> WithFiles(w, FileOpen(w.files, Named(w), "wb"))
    [] port = "opendir" -> WithFiles(w, DirOpen(w.files, Named(w)))
    [] port = "read" -> WithFiles(w, PortRead(w.files, w.regs.a))
    [] port = "eof" -> WithFiles(w, PortEof(w.files, w.regs.a))
    [] port = "argc" -> Gives(w, Len(w.args))
    [] port = "argv_l" -> ArgvByte(w, Low)
    [] port = "argv_h" -> ArgvByte(w, High)
    [] port = "con_read" -> NotInTerminal(w, IF w.directIo THEN ReadKey(w) ELSE ConReadByte(w))
    [] port = "con_ready" -> NotInTerminal(w, ConReady(w))
    [] port = "wait_ready" -> IF w.directIo /\ w.pushback # <<>> THEN Gives(w, Ready) ELSE WaitReady(w, w.waitMs)
    [] port = "term_rows" -> Gives(w, Capped(w.size[1]))
    [] port = "term_cols" -> Gives(w, Capped(w.size[2]))
    [] port = "serial_ready" -> Answers(PortSerialReady(w))
    [] port = "serial_data" -> SerialData(w)
    [] port = "serial_write_ready" -> Answers(PortSerialWriteReady(w))

\* con_write_byte: to the screen's model and the terminal, or to the output.
ConWrite(w, b) ==
  IF w.mode = "console"
    THEN [w EXCEPT !.screen = HandleByte(@, b, w.now), !.term = HandleByte(@, b, w.now)]
  ELSE [w EXCEPT !.out = Append(@, b)]

WritePort(w, port, b) ==
  CASE port \in {"write_b", "con_flush"} /\ w.mode = "terminal" -> Abandon(w)
    [] port = "write_b" /\ w.mode # "terminal" -> ConWrite(w, b)
    [] port = "con_flush" /\ w.mode # "terminal" -> w
    [] port = "scr_a" -> [w EXCEPT !.scrA = b]
    [] port = "scr_op" -> FoldLeft(ConWrite, w, ScreenCall(b, w.scrA, w.regs.y))
    [] port = "write_d" -> [w EXCEPT !.err = Append(@, b)]
    [] port = "close" -> WithFiles(w, [io |-> PortClose(w.files, b), value |-> 0]).world
    [] port = "write" -> WithFiles(w, [io |-> PortWrite(w.files, w.regs.x, b), value |-> 0]).world
    [] port = "exit" -> [w EXCEPT !.exit = b, !.done = TRUE]
    [] port = "wait_lo" -> [w EXCEPT !.waitMs = 256 * High(@) + b]
    [] port = "wait_hi" -> [w EXCEPT !.waitMs = Low(@) + 256 * b]
    [] port = "serial_write" -> IF w.mode = "terminal" THEN SerialWrite(w, b) ELSE w

PortAt(ports) == [a \in {PortOf[p] : p \in ports} |-> CHOOSE p \in ports : PortOf[p] = a]
ReadPortAt == PortAt(ReadPorts)
WritePortAt == PortAt(WritePorts)

\* A fetch of the BRK vector that is not set ends the run.
BrkEnds(w, at) == at = BrkVector /\ Byte(w, BrkVector) = 0 /\ Byte(w, BrkVector + 1) = 0

\* A read that ends the run is the last that its instruction does.
Ending(r) == IF r.world.aborted THEN Asks(r.world, "end") ELSE r

NmosRead(w, at) ==
  IF at \in DOMAIN ReadPortAt THEN Ending(ReadPort(w, ReadPortAt[at]))
  ELSE Gives(IF BrkEnds(w, at) THEN [w EXCEPT !.done = TRUE] ELSE w, Byte(w, at))
NmosWrite(w, at, b) == IF at \in DOMAIN WritePortAt THEN WritePort(w, WritePortAt[at], b) ELSE Stored(w, at, b)

NmosCpu == INSTANCE Cpu6502 WITH CpuVariant <- "nmos", CpuCycles <- NmosCycles,
                                 CpuRead <- NmosRead, CpuWrite <- NmosWrite

\* What depends on the clock: the cap, the line, the overlay.  It is not counted for others.
CountsTicks(w) == w.capped \/ w.serial.cycles > 0 \/ w.screen.repaints

\* One instruction, when the access that it waited for can be made: the ports see the
\* registers.  What it asks for leaves it where it is, but for what has come so far; so does
\* a read that ends the run.
Registers(core) == [a |-> core.a, x |-> core.x, y |-> core.y]
Stepped6502(core, t) ==
  LET cycles == IF CountsTicks(core.world) THEN NmosCycles(Byte(core.world, core.pc)) ELSE 0
  IN IF t.world.asks # "nothing" THEN [core EXCEPT !.world = [t.world EXCEPT !.event = "none"]]
     ELSE [t EXCEPT !.world.event = "none", !.world.ticks = @ + cycles]
NmosStep(core) ==
  Stepped6502(core, NmosCpu!Step6502([core EXCEPT !.world.regs = Registers(core), !.world.asks = "nothing"]))

=============================================================================
