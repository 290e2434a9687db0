------------------------------ MODULE Wendy2c ------------------------------
(* The wendy2c machine's run, emulator/emu_wendy2c.c: it sets the board up *)
(* and steps it in batches of ticks, and between them it serves the serial *)
(* link's client and the keyboard.  chips is the processor with the board; *)
(* host is the loop, the client's end of the link, and the terminal.       *)
EXTENDS Machine, Wendy2Board, SerialLink

CONSTANTS
  W2Batch,            \* ticks in a batch
  W2Setups            \* the ways it is started, and what the people do: records, see W2Host

Board(chip) == chip.core.world
Osc(chip) == Board(chip).osc
StpPending(chip) == chip.core.stp

----
\* The link

\* A poll works on the link, the VIA, the reset line and the client's end of the socket.
Polled(s) ==
  LET b == Board(s.chip)
      p == LinkPoll([link |-> s.host.link, via |-> b.via, res |-> b.res, peer |-> s.host.peer], b.osc,
                    s.host.connecting)
  IN [chip |-> [s.chip EXCEPT !.core.world.via = p.via, !.core.world.res = p.res],
      host |-> [s.host EXCEPT !.link = p.link, !.peer = p.peer, !.connecting = @ /\ s.host.link.client]]

Stalls(s) == ShouldStall(s.host.link, Osc(s.chip))

\* link_step.  Without a link it does nothing; a stall ends the turn of the loop.
LinkStep(s) ==
  IF s.host.hasLink
    THEN LET p == Polled(s) IN [p EXCEPT !.host.stalled = Stalls(p)]
  ELSE s

----
\* A batch

\* After a tick: in a transmission the link is polled as soon as its command's time is over.
Repolled(s) ==
  IF s.host.hasLink /\ NeedsRepoll(s.host.link, Osc(s.chip)) THEN Polled(s) ELSE s

PlainOver(s) == s.host.mode = "plain" /\ (StpPending(s.chip) \/ Board(s.chip).sysc.poweroff)

Ticked(s) == IF PlainOver(s) THEN s ELSE Repolled(s)
BatchTick(s) == Ticked([s EXCEPT !.chip = BusStep(@)])

\* run_batch: until the cap, or a stall; in a plain run also until the processor stops.
RECURSIVE RunBatch(_, _)
RunBatch(s, n) ==
  IF n = 0 \/ Osc(s.chip) >= s.host.cap \/ (n < W2Batch /\ (PlainOver(s) \/ Stalls(s) \/ s.host.link.broken)) THEN s
  ELSE RunBatch(BatchTick(s), n - 1)

\* lcd_report_trace
Traced(s) ==
  LET t == LcdTrace(Board(s.chip).lcd, s.host.frames)
  IN IF s.host.mode # "plain" \/ ~s.host.traces THEN s
     ELSE [chip |-> [s.chip EXCEPT !.core.world.lcd = t.lcd], host |-> [s.host EXCEPT !.frames = t.frames]]

----
\* The terminal

\* live_render: the panel.
LiveFrame(chip, capHit) ==
  LET b == Board(chip) IN
  [lcd |-> LcdText(b.lcd), led |-> b.led, controlLed |-> b.controlLed, button |-> b.button,
   pins |-> Pins(b.via), directions |-> Directions(b.via), osc |-> b.osc, pc |-> chip.core.pc, irq |-> ViaIrq(b.via),
   halt |-> IF chip.core.stp THEN "STP" ELSE IF capHit THEN "CAP" ELSE ""]

\* A frame is drawn some batches after the last: a batch of the model is as long.
Rendered(s, capHit) ==
  IF s.host.mode # "live" THEN s
  ELSE [chip |-> [s.chip EXCEPT !.core.world.lcd = LcdRendered(@)],
        host |-> [s.host EXCEPT !.screen = LiveFrame(s.chip, capHit)]]

\* A byte that was typed: space turns the button over, at once.
LiveKey(s, key) ==
  CASE key \in {"q", "Q", "ctrl-c", "esc"} -> [s EXCEPT !.host.quit = TRUE]
    [] key \in {"r", "R"} -> [s EXCEPT !.host.resets = TRUE]
    [] key = "space" -> [s EXCEPT !.chip.core.world = ButtonPressed(@, ~@.button)]
    [] OTHER -> s

\* live_poll_input, and what the loop does with its flags: the resets of one read are one.
PollInput(s) ==
  LET t == FoldLeft(LiveKey, [s EXCEPT !.host.keys = <<>>, !.host.resets = FALSE], s.host.keys)
  IN IF ~t.host.resets THEN t
     ELSE [chip |-> PulseReset(t.chip),
           host |-> [t.host EXCEPT !.resets = FALSE, !.pulses = @ + 1,
                                   !.forgotten = s.host.queued - Len(Board(s.chip).ser.queue)]]

----
\* The run

\* setup: whether live, --serial-input's bytes, --disk's files or none, --wendy2-prog, the link,
\* cycle_cap; and the keys that are typed, the pieces that a client of the link sends, the
\* bytes that those say, and every how many batches the people act, but for a stall.
\* forgotten, pulses and cut are of the model: what had been taken from the queue at the last
\* reset, the resets, and whether a client has closed.
W2Host(setup) ==
  [mode |-> setup.mode, at |-> "link", capHit |-> FALSE, quit |-> FALSE, resets |-> FALSE, sigint |-> FALSE,
   tty |-> IF setup.mode = "live" THEN "alt" ELSE "normal", screen |-> <<>>, keys |-> <<>>, toType |-> setup.typed,
   traces |-> setup.traces, frames |-> <<>>,
   hasLink |-> setup.hasLink, link |-> LinkStart, connecting |-> FALSE, peer |-> Peer,
   toSend |-> setup.stream, says |-> setup.says, pause |-> setup.pause, cap |-> setup.cap,
   stalled |-> FALSE, queued |-> Len(setup.input), input |-> setup.input, pulses |-> 0, forgotten |-> 0, cut |-> FALSE]

WithProgram(setup, chip) == IF setup.program = <<>> THEN chip ELSE Preloaded(chip, setup.program, setup.load)
W2Chips(setup) ==
  LET files == BoardStart(setup.disk, setup.hasDisk)
      queued == [files EXCEPT !.ser = SerialUsbQueueFile(@, setup.input)]
  IN WithProgram(setup, PulseReset(Cpu!CpuChip(queued)))

W2Starts == \E setup \in W2Setups : Starts("wendy2c", W2Chips(setup), W2Host(setup))

\* A file that is missing ends it before it starts.
W2CannotStart == machine = "none" /\ machine' = "exit" /\ UNCHANGED <<chips, host>>

Now(s) == chips' = s.chip /\ host' = s.host
Here == [chip |-> chips, host |-> host]

W2Over ==
  IF host.mode = "live" THEN host.quit \/ host.sigint \/ host.capHit
  ELSE Osc(chips) >= host.cap \/ PlainOver(Here)

\* The consumption of a command whose echo failed counts the buffer below nothing, and
\* moves all of memory: that ends the process.
Goes(s) ==
  /\ machine' = IF s.host.link.broken THEN "exit" ELSE "wendy2c"
  /\ Now(s)

W2LinkTurn ==
  /\ machine = "wendy2c" /\ host.at = "link" /\ ~W2Over
  /\ LET s == LinkStep(Here)
     IN Goes([s EXCEPT !.host.at = IF s.host.stalled THEN "link" ELSE "batch"])

\* The cap ends a run; a stop of the processor ends only a plain one.
BatchOver(s) ==
  LET capped == Osc(s.chip) >= s.host.cap /\ Osc(s.chip) < Osc(chips) + W2Batch
  IN IF s.host.mode = "plain" THEN [(IF PlainOver(s) THEN s ELSE Traced(s)) EXCEPT !.host.at = "link"]
     ELSE [Rendered(s, FALSE) EXCEPT !.host.at = IF capped THEN "link" ELSE "input", !.host.capHit = capped]

W2BatchTurn ==
  /\ machine = "wendy2c" /\ host.at = "batch"
  /\ \E s \in {BatchOver(RunBatch(Here, W2Batch))} : Goes(s)

W2InputTurn ==
  /\ Runs("wendy2c") /\ host.at = "input"
  /\ \E s \in {[PollInput(Here) EXCEPT !.host.at = "link"]} : Now(s)

\* The end: the last frame, and the terminal as it was.
W2Ends ==
  /\ Exits("wendy2c") /\ host.at = "link" /\ W2Over
  /\ host' = [Rendered(Traced(Here), host.capHit).host EXCEPT !.tty = "normal", !.link = DropClient(@)]

----
\* The world around it

\* Nothing but a poll or a read sees what it does, so it acts where a turn of the loop starts.
W2World ==
  /\ Runs("wendy2c") /\ host.at = "link" /\ UNCHANGED chips
  /\ host.stalled \/ (Osc(chips) \div W2Batch) % host.pause = 0

W2Types ==
  /\ W2World /\ host.toType # <<>>
  /\ host' = [host EXCEPT !.keys = Append(@, Head(host.toType)), !.toType = Tail(@)]

W2Interrupts ==
  /\ W2World /\ host.mode = "live" /\ ~host.sigint
  /\ host' = [host EXCEPT !.sigint = TRUE]

W2Connects ==
  /\ W2World /\ host.toSend # <<>> /\ ~host.connecting /\ ~host.link.client
  /\ host' = [host EXCEPT !.connecting = TRUE, !.peer = Peer]

W2Connected == (host.connecting \/ host.link.client) /\ ~host.peer.closed

\* The client sends the next piece: a piece may end within a command.
W2Sends ==
  /\ W2World /\ W2Connected /\ host.toSend # <<>>
  /\ host' = [host EXCEPT !.peer.sent = @ \o Head(host.toSend), !.toSend = Tail(@)]

W2Closes ==
  /\ W2World /\ W2Connected
  /\ host' = [host EXCEPT !.peer.closed = TRUE, !.cut = TRUE]

W2Loop == W2LinkTurn \/ W2BatchTurn \/ W2InputTurn \/ W2Ends
W2Around == W2Types \/ W2Interrupts \/ W2Connects \/ W2Sends \/ W2Closes

Wendy2cNext == W2Starts \/ W2CannotStart \/ W2Loop \/ W2Around

=============================================================================
