------------------------------ MODULE Emulator ------------------------------
(* The emulator, emulator/emulator.c and the machines behind its options:  *)
(* nmos and its --server mode, wendy2c and michael.  The server of the     *)
(* --web modes and the sound have a life of their own next to the machine  *)
(* that they show: they are modelled with a program that draws, and one    *)
(* that makes samples, in the machine's place.  A behaviour is a process:  *)
(* it starts one of these, in one of the ways that its setups say, and     *)
(* goes on with it to the end.                                             *)
EXTENDS Wendy2c, Nmos, Michael, Audio, WebServer

emulatorVars == <<machineVars, ringVars>>

Init == machine = "none" /\ chips = <<>> /\ host = <<>> /\ RingInit

Next ==
  \/ (Wendy2cNext \/ NmosNext \/ ServerNext \/ MichaelNext \/ WebNext) /\ UNCHANGED ringVars
  \/ AudioNext

Spec == Init /\ [][Next]_emulatorVars

----
\* wendy2c

\* Each byte goes to the display, which shows them from its first cell on.  The line has a
\* byte's lowest bit first, and the shift register takes the first for the highest.
TurnedOver(byte) == FoldSet(LAMBDA k, all : all + BitOf(byte, k) * 2 ^ (7 - k), 0, 0 .. 7)
ShownBytes(lcd) == [k \in 1 .. lcd.ac |-> TurnedOver(lcd.ddram[k - 1])]

\* The bytes on the serial line reach the display as they were sent, none lost, none twice
\* and none torn: from --serial-input since the last reset; and from a client of the link,
\* which may send its transmission in pieces of whole commands, with any delay on the wall.
\* (Time does not wait for the rest of a command of which the first byte is there; and a
\* client that closes takes with it the commands that wait for their time.)
SerialBytesAreShown ==
  machine = "wendy2c" =>
    LET shown == ShownBytes(Board(chips).lcd)
        input == host.input
    IN IF host.hasLink THEN host.cut \/ IsPrefix(shown, host.says)
       ELSE IsPrefix(shown, input) \/ IsPrefix(shown, SubSeq(input, host.forgotten + 1, Len(input)))

\* The loop takes its turns.  Each of them leaves the place where it is taken, except for the
\* link's while time stands still, of which only those count that find something.
W2Stays(at) == machine = "wendy2c" /\ host.at = at
W2Finds == ~host.stalled \/ host.peer.sent # <<>> \/ host.peer.closed
W2GoesOn == []<>~(W2Stays("link") /\ W2Finds) /\ []<>~W2Stays("batch") /\ []<>~W2Stays("input")

\* A client does not keep the rest of what it has to send, unless it closes.
ClientSendsAll == []<>~(machine = "wendy2c" /\ W2Connected /\ host.toSend # <<>>)

\* Emulated time that stands still because a transmission's next command is missing starts
\* again: when the command comes, when the transmission is over, or when its client is gone.
TimeGoesOn == (machine = "wendy2c" /\ host.stalled) ~> ~(machine = "wendy2c" /\ host.stalled)

----
\* nmos, and the server

\* On the alternate screen the terminal has what the program's console has, cell for cell,
\* with its cursor, its margins and its parser, however often it was stopped, resized and
\* continued; stopped or over, the shell has its own screen back.  (A stop in the middle of
\* an escape sequence tears it: host.torn.)
Shows(screen) == [screen EXCEPT !.inject = <<>>, !.injectPos = 0]    \* but for the answers to the program
TerminalFollows ==
  machine = "nmos" =>
    /\ World.tty = "alt" /\ ~host.torn => Shows(World.term) = Shows(World.screen)
    /\ host.at = "stopped" => World.tty = "normal"

\* The server's replies come one for each RUN, and depend on that run only: its settings, its
\* options and the files of its directory.  The memory, the registers, the files left open and
\* the output of the run before are gone, also when it was aborted in the middle of an
\* instruction; only its flags, its terminal and its unread keys may be met again.
RepliesAreTheirRuns ==
  machine = "server" =>
    /\ Len(host.replies) = Len(host.runs)
    /\ \A i, j \in DOMAIN host.replies : host.runs[i] = host.runs[j] => host.replies[i] = host.replies[j]

\* emulator.c:1190, "Reset CPU and emulation state": the flags of the run before should be
\* gone as well, so that runs which differ in nothing else have the same reply.
RepliesForgetTheFlags ==
  machine = "server" =>
    \A i, j \in DOMAIN host.replies :
      [host.runs[i] EXCEPT !.status = host.runs[j].status] = host.runs[j] => host.replies[i] = host.replies[j]

----
\* michael

OnMichael == machine = "michael"
RamCell(k) == Cell(Chip(MiHere).ram, k)

\* What a test program has written down, from LOG on, up to the first zero.
LOG == 768
LogEnd == CHOOSE k \in LOG .. LOG + 255 : RamCell(k) = 0 /\ \A j \in LOG .. k - 1 : RamCell(j) # 0
KeyLog == [k \in 1 .. LogEnd - LOG |-> RamCell(LOG + k - 1)]

\* Port B never has two drivers: the keyboard's interrupt, which reads the port and turns it
\* around, finds it in any state that the display's, the FPGA's and the GAL's routines leave
\* between two instructions, and leaves it to them as it was.
PortBHasOneDriver == OnMichael => Chip(MiHere).contention = 0

\* The codes that the keyboard sends reach the program in order through the interrupt and
\* the buffer, each once; none is missing between two others unless the program was sending
\* a command to the keyboard.  A working keyboard's have all arrived by the end, and every
\* command that the program sends between them has ended: it does not wait for SENDING or for
\* ACK_RECEIVED (keyboard_driver.inc:815) for ever.
SentCodes == host.setup.scancodes \o FlattenSeq([k \in DOMAIN host.setup.keys |-> CharacterCodes(host.setup.keys[k])])
RECURSIVE IsWithin(_, _)
IsWithin(s, t) ==
  IF s = <<>> \/ t = <<>> THEN s = <<>> ELSE IsWithin(IF s[1] = t[1] THEN Tail(s) ELSE s, Tail(t))
KeysTaken == 3        \* after so many codes the program stops
RunIsOver == StopPending(chips) \/ Chip(MiHere).osc >= host.setup.cap

\* A program that has the FPGA echo bytes and reads replies and the status accounts for each
\* byte: it was read, it waits, or a status with OVERFLOW was read since, or is still set.
EchoStep(k) == host.setup.script[k]
Logged(what) == {k \in DOMAIN host.setup.script : EchoStep(k) = what}
LoggedAt(k) == RamCell(LOG + Cardinality({j \in 1 .. k - 1 : EchoStep(j) # "echo"}))
BytesRead == {k \in Logged("reply") : LoggedAt(k) # 0}
OverflowSeen == "OVERFLOW" \in Chip(MiHere).fpga.sticky \/ \E k \in Logged("status") : HasBit(LoggedAt(k), 16)
EchoesAreAccountedFor ==
  OnMichael /\ host.setup.test = "echo" /\ StopPending(chips) =>
    LET missing == Cardinality(Logged("echo")) - Cardinality(BytesRead) - Len(Chip(MiHere).fpga.reply)
    IN missing >= 0 /\ (missing > 0) = OverflowSeen

\* In text mode the glass shows the grid, cell for cell, with the cursor where it is on,
\* whatever of the display's memory the renderer kept, scrolled or drew again.
GlassShowsTheGrid ==
  OnMichael /\ Chip(MiHere).fpga.textMode /\ Chip(MiHere).fpga.panel.reg.on =>
    LET d == FpgaBusRender(Chip(MiHere).fpga, Chip(MiHere).osc \div MICHAEL_TICKS_PER_US)
    IN \A row \in TextRows, c \in TextCols : \A x \in 0 .. CELL_W - 1, y \in 0 .. CELL_H - 1 :
         (GlassPixel(d.panel, ILI9341_WIDTH - 1 - (c * CELL_W + x), ILI9341_LINES - 1 - (row * CELL_H + y)) = White)
           = CellPixel(ShownCell(d.render, d.text, row, c), x, y)

----
\* With fairness: of the loop, of the client of the link, of the web server's loop and of a
\* page that reads.
LiveSpec == Spec /\ W2GoesOn /\ ClientSendsAll /\ WebGoesOn /\ PagesKeepUp

=============================================================================
