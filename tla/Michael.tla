------------------------------ MODULE Michael ------------------------------
(* The michael machine's run, emulator/emu_michael.c with the loop of      *)
(* emulator/web_run.c: it sets the board up, steps it in batches, and      *)
(* between them takes the terminal's or the page's keys to the keyboard.   *)
(* chips is the processor with the board; host is the loop and the people  *)
(* around it.                                                              *)
EXTENDS Machine, MichaelBoard

CONSTANTS
  MiBatch,            \* ticks in a batch
  MiSetups            \* the ways it is started, and what the people do: records, see MiHost

LIVE_QUIT_KEY == 29
LIVE_TYPED_SIZE == 256

Chip(s) == s.chip.core.world
StopPending(chip) == chip.core.stp

----
\* A batch

Lower(sp, lowest) == IF sp < lowest THEN sp ELSE lowest
Counted(s, chip) == [chip |-> chip, host |-> [s.host EXCEPT !.lowestSp = Lower(chip.core.sp, @)]]

\* step: up to the cap; a plain run's ends with the processor's stop, too.
RECURSIVE Stepped(_, _)
Stepped(s, n) ==
  IF n = 0 \/ Chip(s).osc >= s.host.setup.cap \/ (s.host.mode = "plain" /\ StopPending(s.chip)) THEN s
  ELSE Stepped(Counted(s, MichaelStep(s.chip)), n - 1)

\* lcd_report_trace, in a plain run with --lcd-trace.
MiTraced(s) ==
  LET t == LcdTrace(Chip(s).lcd, s.host.frames)
  IN IF s.host.mode # "plain" \/ ~s.host.traces THEN s
     ELSE [chip |-> [s.chip EXCEPT !.core.world.lcd = t.lcd], host |-> [s.host EXCEPT !.frames = t.frames]]

----
\* The live run

\* live_render: the panel, blank while the display is off, and the cell under a cursor.
PanelShown(lcd) ==
  [text |-> IF lcd.displayOn THEN LcdText(lcd) ELSE [k \in DOMAIN LcdText(lcd) |-> LcdBlank],
   cursor |-> IF lcd.displayOn /\ lcd.cursorOn THEN LcdCursor(lcd) ELSE [row |-> -1, col |-> -1]]

MiRendered(s) ==
  [chip |-> [s.chip EXCEPT !.core.world.lcd = LcdRendered(@)],
   host |-> [s.host EXCEPT !.screen = PanelShown(Chip(s).lcd)]]

\* A turn's frame and keys: what was typed goes to the keyboard once nothing more comes for
\* a turn; the keys that do not fit are lost.
TypedTurn(r) ==
  LET got == SubSeq(r.host.tty, 1, AtMost(Len(r.host.tty), LIVE_TYPED_SIZE - Len(r.host.typed)))
      typed == r.host.typed \o got
      read == [r EXCEPT !.host.tty = SubSeq(@, Len(got) + 1, Len(@)), !.host.typed = typed,
                        !.host.quit = @ \/ \E k \in DOMAIN got : got[k] = LIVE_QUIT_KEY]
  IN IF got # <<>> \/ typed = <<>> THEN read
     ELSE [read EXCEPT !.chip.core.world.kbd = TypeKeys(@, typed).kbd, !.host.typed = <<>>]
LiveTurn(s) == TypedTurn(MiRendered(s))

----
\* The page

\* web_event: a reset or keys, the first that waits.
PageActs(s, event) ==
  IF event = <<"reset">> THEN [s EXCEPT !.chip = MichaelReset(@)]
  ELSE [s EXCEPT !.chip.core.world.kbd = TypeKeys(@, event[2]).kbd]
PageEvent(s) ==
  IF s.host.events = <<>> THEN s ELSE PageActs([s EXCEPT !.host.events = Tail(@)], Head(s.host.events))

LedOn(via) == HasBit(via.ddra, 2) /\ HasBit(PortAPins(via), 2)

\* broadcast: what the page is shown; the FPGA draws its picture for it.
Snapshot(chip) ==
  LET b == chip.core.world IN
  [lcd |-> VisibleBytes(b.lcd), cursor |-> LcdCursor(b.lcd), displayOn |-> b.lcd.displayOn,
   porta |-> PortAPins(b.via), portb |-> PortBPins(b.via, PortBInput(b)), led |-> LedOn(b.via), osc |-> b.osc,
   stopped |-> chip.core.stp]

PageSees(s) == [s EXCEPT !.host.page = Snapshot(s.chip)]
Broadcast(s) == PageSees([s EXCEPT !.chip.core.world.fpga = FpgaBusRender(@, Chip(s).osc \div MICHAEL_TICKS_PER_US)])

----
\* The run

\* setup: mode, ramMap, fault, interval, keys and scancodes (the text and the codes that
\* are queued before), serial, noFpga, gal, w5500, csRc, csBounce, csFlaky, client (the
\* network's), rom (<<>> for none), program and load (-1 for none), traces, cap (cycle_cap);
\* and the texts that are typed, in a live run or on the page, and how often the page may
\* reset the board.  test and script are of the model: what the program is there for.
MiKeyboard(setup) ==
  LET kbd == [Ps2BoardStart(setup.fault) EXCEPT !.keyInterval = IF setup.interval > 0 THEN setup.interval ELSE @]
  IN IF KbdFits(kbd, setup.scancodes) THEN TypeKeys(QueueKey(kbd, setup.scancodes), setup.keys)
     ELSE [kbd |-> kbd, fits |-> FALSE]

MiHost(setup) ==
  [mode |-> setup.mode, at |-> "step", setup |-> setup, lowestSp |-> 255, traces |-> setup.traces, frames |-> <<>>,
   tty |-> <<>>, typed |-> <<>>, quit |-> FALSE, sigint |-> FALSE, capHit |-> FALSE, screen |-> <<>>,
   terminal |-> IF setup.mode = "live" THEN "alt" ELSE "normal",
   events |-> <<>>, page |-> <<>>, toType |-> setup.typed, resets |-> 0, report |-> <<>>]

ProgramLoaded(setup, board) ==
  IF setup.load >= 0 THEN BoardLoaded(board, setup.program, setup.load) ELSE [board |-> board, fits |-> TRUE]
MiLoaded(setup, kbd) ==
  ProgramLoaded(setup, MichaelStart(setup, kbd, IF setup.rom = <<>> THEN VectorsRom(setup.load) ELSE setup.rom))

MiBoard(setup, board) ==
  [MichaelReset(MCpu!CpuChip(board)) EXCEPT !.core.world.lcd = IF setup.rom = <<>> THEN RomLcdSetup(@) ELSE @]

\* It ends at once with too many keys, or a program that the RAM has no room for.
MiStarts ==
  /\ machine = "none"
  /\ \E setup \in MiSetups : \E keyboard \in {MiKeyboard(setup)} : \E loaded \in {MiLoaded(setup, keyboard.kbd)} :
       \/ /\ keyboard.fits /\ loaded.fits
          /\ Starts("michael", MiBoard(setup, loaded.board), MiHost(setup))
       \/ /\ ~keyboard.fits \/ ~loaded.fits
          /\ machine' = "exit" /\ UNCHANGED <<chips, host>>

MiNow(s) == chips' = s.chip /\ host' = s.host
MiHere == [chip |-> chips, host |-> host]
MiCapped == Chip(MiHere).osc >= host.setup.cap

MiOver ==
  CASE host.mode = "plain" -> MiCapped \/ StopPending(chips)
    [] host.mode = "live" -> host.quit \/ host.sigint \/ MiCapped
    [] host.mode = "web" -> host.sigint \/ host.capHit

\* A batch; a plain run's trace is behind it, and a web run that hits the cap ends with it.
MiBatchOver(s) ==
  LET capHit == s.host.mode = "web" /\ Chip(s).osc >= s.host.setup.cap
  IN [s EXCEPT !.host.at = IF s.host.mode = "plain" \/ capHit THEN "step" ELSE s.host.mode,
               !.host.capHit = capHit]

MiStep ==
  /\ Runs("michael") /\ host.at = "step" /\ ~MiOver
  /\ \E s \in {MiBatchOver(MiTraced(Stepped(MiHere, MiBatch)))} : MiNow(s)

MiLive ==
  /\ Runs("michael") /\ host.at = "live"
  /\ MiNow([LiveTurn(MiHere) EXCEPT !.host.at = "step"])

\* One event for a batch; the page is shown the board, or not yet.
PageTurn(s, shows) == [(IF shows THEN Broadcast(s) ELSE s) EXCEPT !.host.at = "step"]
MiPage ==
  /\ Runs("michael") /\ host.at = "web"
  /\ \E shows \in BOOLEAN : \E s \in {PageTurn(PageEvent(MiHere), shows)} : MiNow(s)

\* exit_report, of what it tells.
ExitReport(s) ==
  [pc |-> s.chip.core.pc, stp |-> s.chip.core.stp, lcd |-> LcdText(Chip(s).lcd), text |-> Chip(s).fpga.text,
   led |-> LedOn(Chip(s).via), undriven |-> Chip(s).lcd.undriven, contention |-> Chip(s).contention,
   lowestSp |-> s.host.lowestSp]

\* The last frame, and the report.
Reported(s) == [s EXCEPT !.host.terminal = "normal", !.host.report = ExitReport(s)]
MiEnds ==
  /\ machine = "michael" /\ host.at = "step" /\ MiOver
  /\ machine' = "exit"
  /\ LET s == Reported(CASE host.mode = "plain" -> MiTraced(MiHere)
                         [] host.mode = "live" -> MiRendered(MiHere)
                         [] host.mode = "web" -> Broadcast(MiHere))
     IN MiNow(s)

----
\* The people: they type between two batches

MiAround == Runs("michael") /\ host.at = "step" /\ UNCHANGED chips

MiTypes ==
  /\ MiAround /\ host.mode = "live" /\ host.toType # <<>>
  /\ host' = [host EXCEPT !.tty = @ \o Head(host.toType), !.toType = Tail(@)]

MiPageKeys ==
  /\ MiAround /\ host.mode = "web" /\ host.toType # <<>>
  /\ host' = [host EXCEPT !.events = Append(@, <<"keys", Head(host.toType)>>), !.toType = Tail(@)]

MiPageReset ==
  /\ MiAround /\ host.mode = "web" /\ host.resets < host.setup.resets
  /\ host' = [host EXCEPT !.events = Append(@, <<"reset">>), !.resets = @ + 1]

MiInterrupts ==
  /\ MiAround /\ host.mode # "plain" /\ ~host.sigint
  /\ host' = [host EXCEPT !.sigint = TRUE]

MiLoop == MiStep \/ MiLive \/ MiPage \/ MiEnds
MiPeople == MiTypes \/ MiPageKeys \/ MiPageReset \/ MiInterrupts

MichaelNext == MiStarts \/ MiLoop \/ MiPeople

=============================================================================
