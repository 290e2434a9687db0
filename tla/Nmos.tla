-------------------------------- MODULE Nmos --------------------------------
(* The nmos machine's process: main of emulator/emulator.c and the loop of *)
(* emulator/emu_run.c, with the user at the terminal and the shell that    *)
(* stops and continues it; and the --server mode.  chips is the processor, *)
(* whose world holds the ports; host says where the process is.            *)
EXTENDS Machine, NmosPorts

CONSTANTS
  NmosCap,            \* cycle_cap
  NmosSetups,         \* the ways it is started, and what the user does: records, see NmosHost
  NmosPatience,       \* how many waits on the line end without a byte
  NmosRepaint         \* cycles between two updates of the repaint overlay

World == chips.world
NoSignals == [int |-> FALSE, stop |-> FALSE, cont |-> FALSE]

----
\* main: load, stubs, terminal, arguments

\* The code goes to the top of memory, or to where it is told to; a code file that ends below
\* the vectors has its entry point at its end.
LoadAt(setup) == IF setup.load >= 0 THEN setup.load ELSE 65536 - Len(setup.code)
WithEntry(mem, end) ==
  IF end < 65534 THEN (65532 :> mem[end - 2]) @@ (65533 :> mem[end - 1]) @@ mem ELSE mem
Loaded(setup) ==
  WithEntry(Placed(<<>>, LoadAt(setup), setup.code), LoadAt(setup) + Len(setup.code))
WithStubs(mem, setup) == Placed(mem, TableBase, StubBytes(setup.mode = "terminal", setup.directIo, setup.strictApi))

CodeFits(setup) == LoadAt(setup) >= 0 /\ LoadAt(setup) + Len(setup.code) <= 65536

\* Each string with its zero, in a window of its own; addresses are where they start.
ArgEnd(args) == FoldLeft(LAMBDA p, s : p + Len(s) + 1, ArgvBase, args)
ArgAddresses(args) == [k \in 1 .. Len(args) |-> ArgEnd(SubSeq(args, 1, k - 1))]
ArgBytes(args) == FoldLeft(LAMBDA bytes, s : bytes \o s \o <<0>>, <<>>, args)
ArgsFit(args) == ArgEnd(args) <= ArgvTop
WithArgs(mem, args) == Placed(mem, ArgvBase, ArgBytes(args))

Interactive(setup) == setup.mode = "console" \/ (setup.mode = "terminal" /\ setup.interactive)

NmosWorld(setup, mem) ==
  LET screen == ConsoleResize(ConsoleStart(setup.repaints), setup.size[1], setup.size[2]) IN
  [mem |-> mem, regs |-> [a |-> 0, x |-> 0, y |-> 0], mode |-> setup.mode, directIo |-> setup.directIo,
   capped |-> setup.mode = "input", files |-> FilesInit(FOpen(setup.disk, setup.input, "rb"), setup.disk, setup.folders),
   serial |-> SerialStart(setup.interactive, setup.cycles, FOpen(setup.disk, setup.input, "rb"),
                          IF setup.mode = "terminal" THEN setup.mask ELSE <<>>),
   screen |-> screen, term |-> screen, tty |-> IF Interactive(setup) THEN "alt" ELSE "normal", size |-> setup.size,
   typed |-> <<>>, gone |-> FALSE, ticks |-> 0, now |-> 1, lastOverlay |-> 1, nextOverlay |-> NmosRepaint,
   signals |-> NoSignals,
   eof |-> FALSE, pace |-> [mask |-> setup.mask, in |-> 0, remaining |-> 0, log |-> <<>>], waitMs |-> 0, scrA |-> 0,
   key |-> KeyStart, pushback |-> <<>>, keys |-> <<>>, asks |-> "nothing", event |-> "none", deadline |-> Never,
   done |-> FALSE, exit |-> -1, aborted |-> FALSE, out |-> <<>>, err |-> <<>>, args |-> ArgAddresses(setup.args)]

\* at: where the process is.  toType, sent and torn are of the model: what the user is still
\* to type, the signals sent, and whether a stop fell inside a sequence of the program's.
\* Of the user a setup has the bursts of bytes that are typed, how many signals are sent at
\* most, and the sizes that the window may get while the process is stopped.
NmosHost(setup) ==
  [at |-> "run", interactive |-> Interactive(setup), toType |-> setup.typed, typedKeys |-> <<>>,
   signals |-> setup.signals, sizes |-> setup.sizes, sent |-> 0, waits |-> 0, torn |-> FALSE, code |-> -1]

NmosStarts ==
  /\ machine = "none"
  /\ \E setup \in NmosSetups :
       /\ CodeFits(setup) /\ ArgsFit(setup.args)
       /\ setup.input \in DOMAIN setup.disk
       /\ Starts("nmos", NmosCpu!CpuPowered(NmosWorld(setup, WithArgs(WithStubs(Loaded(setup), setup), setup.args))),
                 NmosHost(setup))

\* Code or arguments that do not fit, or an input that is not there, end it before it runs.
NmosCannotStart ==
  /\ machine = "none" /\ machine' = "exit" /\ UNCHANGED <<chips, host>>
  /\ \E setup \in NmosSetups : ~(CodeFits(setup) /\ ArgsFit(setup.args) /\ setup.input \in DOMAIN setup.disk)

----
\* emu_run_default

NmosRuns == Runs("nmos") /\ host.at = "run" /\ ~World.done

\* The shell's screen is back.  Of the other only the margins stay, unless the size changes.
ClearedTerminal(w, size) ==
  LET t == ConsoleResize(ConsoleStart(w.screen.repaints), size[1], size[2])
  IN IF size = <<w.term.rows, w.term.cols>> THEN [t EXCEPT !.top = w.term.top, !.bot = w.term.bot] ELSE t

\* restore_terminal.  Leaving and entering, the terminal drops what was typed and not read.
TerminalLeft(w) ==
  IF w.tty = "normal" THEN w ELSE [w EXCEPT !.tty = "normal", !.typed = <<>>, !.term = ClearedTerminal(w, w.size)]

\* enter_console: the window's size, and the alternate screen.
ConsoleEntered(w) ==
  LET resized == ConsoleResize(w.screen, w.size[1], w.size[2])
  IN [w EXCEPT !.screen = resized, !.tty = "alt", !.typed = IF w.tty = "normal" THEN <<>> ELSE @,
                !.term = IF w.tty = "normal" THEN ClearedTerminal(w, w.size) ELSE @]

\* Mutant: the pen, which the last cell drawn has set, stays where that was.
ScreenRedrawnNoCursor(w) ==
  LET drawn == Redrawn(w.screen)
  IN [w EXCEPT !.screen = drawn, !.term = [drawn EXCEPT !.row = drawn.rows - 1, !.top = w.term.top, !.bot = w.term.bot]]
\* console_redraw draws all of the screen on the terminal, in whatever state that was: it
\* then waits for text, and has the margins that it had.
ScreenRedrawn(w) ==
  LET drawn == Redrawn(w.screen)
  IN [w EXCEPT !.screen = drawn,
               !.term = [drawn EXCEPT !.state = "text", !.top = w.term.top, !.bot = w.term.bot]]

\* A stop restores the terminal and stops the process itself.
NmosStops ==
  /\ NmosRuns /\ World.signals.stop
  /\ chips' = [chips EXCEPT !.world = [TerminalLeft(@) EXCEPT !.signals.stop = FALSE]]
  /\ host' = [host EXCEPT !.at = "stopped"]

NmosResumes ==
  /\ NmosRuns /\ World.signals.cont /\ ~World.signals.stop
  /\ chips' = [chips EXCEPT !.world = ScreenRedrawn(ConsoleEntered([@ EXCEPT !.signals.cont = FALSE]))]
  /\ host' = [host EXCEPT !.torn = @ \/ World.screen.state # "text"]

NmosInterrupted ==
  /\ NmosRuns /\ World.signals.int /\ ~World.signals.stop /\ ~World.signals.cont
  /\ chips' = [chips EXCEPT !.world = [TerminalLeft(@) EXCEPT !.done = TRUE, !.exit = IF @ = -1 THEN 130 ELSE @]]
  /\ UNCHANGED host

CapPassed(w) == w.capped /\ w.ticks > NmosCap

\* repaint_overlay_update, when the time has come.
OverlayDue(w) == w.screen.repaints /\ w.ticks >= w.nextOverlay
WithOverlay(w) ==
  IF ~OverlayDue(w) THEN w
  ELSE IF w.now = w.lastOverlay THEN [w EXCEPT !.nextOverlay = w.ticks + NmosRepaint]
  ELSE [w EXCEPT !.nextOverlay = w.ticks + NmosRepaint, !.lastOverlay = w.now, !.screen = Overlaid(@, w.now),
                 !.term = [Overlaid(w.screen, w.now) EXCEPT !.state = w.term.state, !.top = w.term.top,
                                                            !.bot = w.term.bot]]

\* An instruction that slept goes on before the loop sees a signal.
AfterStep(t) ==
  LET over == t.world.aborted \/ (t.world.asks = "nothing" /\ CapPassed(t.world))
  IN [over |-> over, core |-> [t EXCEPT !.world = IF over THEN @ ELSE WithOverlay(@)],
      host |-> [host EXCEPT !.at = IF over \/ t.world.asks = "nothing" THEN "run" ELSE "asleep", !.code = IF over THEN 1 ELSE @]]

NmosInstruction ==
  /\ machine = "nmos"
  /\ host.at = "woken" \/ (host.at = "run" /\ World.signals = NoSignals /\ ~World.done)
  /\ \E s \in {AfterStep(NmosStep(chips))} :
       /\ machine' = IF s.over THEN "exit" ELSE "nmos"
       /\ chips' = s.core
       /\ host' = s.host

\* Without an exit call, the byte in front of the address on the stack is the exit code.
StackByte(core, k) == Byte(core.world, 256 + core.sp + k)
ExitCode(core) ==
  IF core.world.exit # -1 THEN core.world.exit % 256
  ELSE Byte(core.world, (StackByte(core, 2) + 256 * StackByte(core, 3) + 65535) % 65536)

\* The end of main: files are closed, and one that the program left open is an error; what
\* is in the FIFO is sent; the terminal is restored at the latest now.
NmosEnds ==
  /\ machine = "nmos" /\ host.at = "run" /\ World.done
  /\ machine' = "exit"
  /\ LET flushed == IF World.serial.cycles > 0 THEN TxFlush(World) ELSE World
     IN chips' = [chips EXCEPT !.world = [TerminalLeft(flushed) EXCEPT !.files = FilesDestroy(@)]]
  /\ host' = [host EXCEPT !.code = IF ExitCode(chips) = 0 /\ Unclosed(World.files) # {} THEN 1 ELSE ExitCode(chips)]

----
\* The user, the clock and the shell

SleepsFor(what) == Runs("nmos") /\ host.at = "asleep" /\ World.asks \in what
Woke(at) == IF at = "asleep" THEN "woken" ELSE at
WakesUp == host' = [host EXCEPT !.at = Woke(@)]

\* A wait on the line passes emulated time until the user types.
Moments(w) == IF w.asks = "line" THEN {w.ticks, (w.ticks + w.deadline) \div 2} ELSE {w.ticks}

\* A burst is what one key sends.
NmosTypes ==
  /\ Runs("nmos") /\ host.at \in {"run", "asleep"} /\ host.toType # <<>> /\ ~World.done
  /\ \E ticks \in Moments(World) :
       chips' = [chips EXCEPT !.world.typed = @ \o Head(host.toType), !.world.ticks = ticks]
  /\ host' = [host EXCEPT !.toType = Tail(@), !.typedKeys = Append(@, Head(host.toType)), !.at = Woke(@)]

NmosUserLeaves ==
  /\ Runs("nmos") /\ host.interactive /\ host.at \in {"run", "asleep"} /\ host.toType = <<>> /\ ~World.gone
  /\ chips' = [chips EXCEPT !.world.gone = TRUE]
  /\ WakesUp

\* A wait in wall time is over.
NmosTimesOut ==
  /\ SleepsFor({"wait"})
  /\ chips' = [chips EXCEPT !.world.event = "over"]
  /\ WakesUp

\* A wait on the line: the emulated time goes on with the wall clock, to the end at most.
NmosLineWaited ==
  /\ SleepsFor({"line"}) /\ host.waits < NmosPatience
  /\ chips' = [chips EXCEPT !.world.ticks = World.deadline]
  /\ host' = [host EXCEPT !.waits = @ + 1, !.at = "woken"]

\* Time passes on the wall; the bound is a step ahead of the overlay.
NmosWallClock ==
  /\ Runs("nmos") /\ host.at = "run" /\ World.screen.repaints /\ World.now = World.lastOverlay
  /\ chips' = [chips EXCEPT !.world.now = @ + 1]
  /\ UNCHANGED host

\* A signal ends a sleep; one that comes just before the sleep sets its flag, and does not.
Signalled(flag) ==
  /\ Runs("nmos") /\ host.interactive /\ host.sent < host.signals /\ ~World.done
  /\ \E ends \in IF host.at = "asleep" THEN {TRUE, World.asks = "spin"} ELSE {FALSE} :
       /\ chips' = [chips EXCEPT !.world.signals = [@ EXCEPT ![flag] = TRUE],
                                !.world.event = IF ends THEN "interrupted" ELSE @]
       /\ host' = [host EXCEPT !.sent = @ + 1, !.at = IF ends THEN "woken" ELSE @]

NmosSigint == Signalled("int")
NmosSigtstp == Signalled("stop") /\ host.at # "stopped"

\* fg: the process goes on in the loop where it stopped itself; its window may have changed.
NmosSigcont ==
  /\ Runs("nmos") /\ host.at = "stopped"
  /\ \E size \in host.sizes \cup {World.size} :
       chips' = [chips EXCEPT !.world.signals.cont = TRUE, !.world.size = size]
  /\ host' = [host EXCEPT !.at = "run"]

NmosLoop == NmosStops \/ NmosResumes \/ NmosInterrupted \/ NmosInstruction \/ NmosEnds
NmosAround ==
  \/ NmosTypes \/ NmosUserLeaves \/ NmosTimesOut \/ NmosLineWaited \/ NmosWallClock
  \/ NmosSigint \/ NmosSigtstp \/ NmosSigcont

NmosNext == NmosStarts \/ NmosCannotStart \/ NmosLoop \/ NmosAround

----
\* The emulator's --server mode, server_main of emulator/emulator.c: one process that runs many
\* programs, as the commands on its input say.  It puts back the memory, the registers, the
\* ports and the serial line before a run; what it does not put back is in left.

CONSTANTS
  ServerScripts,      \* what may stand on its input: a set of sequences of commands
  ServerDisks         \* the directories with their files

ServerCwd == host.cwd
Command == Head(host.commands)

\* The settings of the next run; those of loaded tell whether memory holds what they ask for.
Settings == [binary |-> <<>>, load |-> -1, terminal |-> FALSE, direct |-> FALSE, strict |-> FALSE]
RunOptions == [input |-> <<>>, output |-> <<>>, keys |-> <<>>, inlineKeys |-> FALSE, inlineOutput |-> FALSE,
               inlineStderr |-> FALSE, args |-> <<>>]
Nothing == <<-1>>     \* a name, or an OUTPUT or STDERR of a reply, that there is not
NotLoaded == [Settings EXCEPT !.binary = Nothing]

ServerHost(script, cwd) ==
  [commands |-> script, at |-> "command", cwd |-> cwd, disks |-> ServerDisks, set |-> Settings, loaded |-> NotLoaded,
   pristine |-> <<>>, run |-> RunOptions, rows |-> 0, cols |-> 0, replies |-> <<>>, runs |-> <<>>,
   left |-> [status |-> 0, screen |-> ConsoleStart(FALSE), scrA |-> 0, waitMs |-> 0, pushback |-> <<>>]]

ServerStarts ==
  \E script \in ServerScripts, cwd \in DOMAIN ServerDisks : Starts("server", <<>>, ServerHost(script, cwd))

Commanded(name) ==
  /\ Runs("server") /\ UNCHANGED chips
  /\ host.at = "command" /\ host.commands # <<>> /\ Command.name = name

Next1 == [host EXCEPT !.commands = Tail(@)]

\* server_load_binary: a file that is not there, or does not fit, leaves nothing loaded.
Image(set) == [code |-> host.disks[ServerCwd][set.binary], load |-> set.load, directIo |-> set.direct,
               strictApi |-> set.strict, mode |-> IF set.terminal THEN "terminal" ELSE "input"]
Loads(set) == set.binary \in DOMAIN host.disks[ServerCwd] /\ CodeFits(Image(set))

ServerBinary ==
  /\ Commanded("BINARY")
  /\ LET set == [host.set EXCEPT !.binary = Command.value]
     IN host' = IF host.loaded = set THEN [Next1 EXCEPT !.set = set]
                ELSE IF ~Loads(set) THEN [Next1 EXCEPT !.set = set, !.loaded = NotLoaded]
                ELSE [Next1 EXCEPT !.set = set, !.loaded = set, !.pristine = WithStubs(Loaded(Image(set)), Image(set))]

\* These take effect on the code with the next BINARY, and the mode on the ports at once.
ServerLoad == Commanded("LOAD") /\ host' = [Next1 EXCEPT !.set.load = Command.value]
ServerMode ==
  Commanded("MODE") /\ host' = [Next1 EXCEPT !.set.terminal = Command.value = "terminal",
                                             !.set.direct = Command.value = "direct"]
ServerApi == Commanded("API") /\ host' = [Next1 EXCEPT !.set.strict = Command.value = "strict"]

ServerSize ==
  \/ Commanded("ROWS") /\ host' = [Next1 EXCEPT !.rows = Command.value]
  \/ Commanded("COLS") /\ host' = [Next1 EXCEPT !.cols = Command.value]

ServerInput == Commanded("INPUT") /\ host' = [Next1 EXCEPT !.run.input = Command.value]
ServerOutput == Commanded("OUTPUT") /\ host' = [Next1 EXCEPT !.run.output = Command.value]
\* KEYS brings the input along; INLINE_OUTPUT brings the output back in the reply.
ServerKeys ==
  Commanded("KEYS") /\ host' = [Next1 EXCEPT !.run.keys = Command.value, !.run.inlineKeys = TRUE, !.run.input = <<>>]
ServerInline ==
  \/ Commanded("INLINE_OUTPUT") /\ host' = [Next1 EXCEPT !.run.inlineOutput = TRUE, !.run.output = <<>>]
  \/ Commanded("INLINE_STDERR") /\ host' = [Next1 EXCEPT !.run.inlineStderr = TRUE]
ServerChdir ==
  Commanded("CWD") /\ host' = IF Command.value \in DOMAIN host.disks THEN [Next1 EXCEPT !.cwd = Command.value] ELSE Next1
ServerArg ==
  Commanded("ARG") /\ host' = IF Len(host.run.args) < 256 THEN [Next1 EXCEPT !.run.args = Append(@, Command.value)] ELSE Next1
ServerUnknown == Commanded("?") /\ host' = Next1

----
\* RUN

\* What a run may depend on (kept for the properties only): what it was asked to do, and with
\* what; how the code was loaded; and what the run before has left of the processor's flags
\* and, where it sees them, of the terminal and the keys.
Asked == [options |-> host.run, set |-> host.set, loaded |-> host.loaded, size |-> <<host.rows, host.cols>>,
          files |-> host.disks[ServerCwd], status |-> host.left.status,
          left |-> IF host.set.terminal \/ host.set.direct THEN <<[host.left EXCEPT !.status = 0]>> ELSE <<>>]

\* Mutant: the next run starts with the memory of this one.
ReplyDirty(h, code, output, err) ==
  [h EXCEPT !.replies = Append(@, [code |-> code, output |-> output, err |-> err]), !.at = "command",
            !.run = [RunOptions EXCEPT !.keys = h.run.keys], !.runs = Append(@, Asked),
            !.pristine = IF host.at = "run" THEN World.mem ELSE @]
\* A reply, and the options of the run forgotten: all but the size and the keys, which are
\* used only when KEYS says so.
Reply(h, code, output, err) ==
  [h EXCEPT !.replies = Append(@, [code |-> code, output |-> output, err |-> err]), !.at = "command",
            !.run = [RunOptions EXCEPT !.keys = h.run.keys], !.runs = Append(@, Asked)]

ServerRefuses ==
  /\ Commanded("RUN") /\ (host.loaded = NotLoaded \/ ~ArgsFit(host.run.args))
  /\ host' = Reply(Next1, 1, Nothing, Nothing)

Inline(bytes) == [name |-> <<0>>, mode |-> "rb", data |-> bytes, at |-> 0]
HasInput == host.run.inlineKeys \/ host.run.input = <<>> \/ host.run.input \in DOMAIN host.disks[ServerCwd]
InputFile ==
  CASE host.run.inlineKeys -> Inline(host.run.keys)
    [] ~host.run.inlineKeys /\ host.run.input \in DOMAIN host.disks[ServerCwd] ->
         FOpen(host.disks[ServerCwd], host.run.input, "rb")
    [] OTHER -> Inline(<<>>)      \* /dev/null, and on the serial line a file that is not there

ServerCols == IF host.cols > 0 THEN host.cols ELSE 80
ServerRows == IF host.rows > 0 THEN host.rows ELSE 24

\* The world of a run: of the last one it keeps what left holds.
ServerWorld ==
  LET terminal == host.set.terminal
      setup == [mode |-> IF terminal THEN "terminal" ELSE "input", directIo |-> host.set.direct, repaints |-> FALSE,
                disk |-> (<<0>> :> <<>>) @@ host.disks[ServerCwd], folders |-> <<>>, input |-> <<0>>,
                interactive |-> FALSE, cycles |-> 0, mask |-> <<>>, args |-> host.run.args,
                size |-> <<1, 1>>]
      w == NmosWorld(setup, WithArgs(host.pristine, host.run.args))
      screen == IF terminal THEN ConsoleResize(host.left.screen, ServerRows, ServerCols) ELSE host.left.screen
  IN [w EXCEPT !.capped = TRUE, !.files.disk = host.disks[ServerCwd],
               !.files.files[1] = IF terminal THEN Inline(<<>>) ELSE InputFile,
               !.serial.input = IF terminal THEN InputFile ELSE NoFile,
               !.screen = [screen EXCEPT !.inject = <<>>, !.injectPos = 0], !.size = <<ServerRows, ServerCols>>,
               !.scrA = host.left.scrA, !.waitMs = host.left.waitMs, !.pushback = host.left.pushback]

\* reset6502 sets the registers, and the flags stay as they were.
ServerRun ==
  /\ Runs("server") /\ host.at = "command" /\ host.commands # <<>> /\ Command.name = "RUN"
  /\ host.loaded # NotLoaded /\ ArgsFit(host.run.args) /\ (host.set.terminal \/ HasInput)
  /\ chips' = NmosCpu!Reset6502(NmosCpu!WithStatus(NmosCpu!CpuStart(ServerWorld), host.left.status))
  /\ host' = [Next1 EXCEPT !.at = "run"]

\* Outside the terminal mode it does not look whether the input file could be opened, and
\* reads from it: the process ends.
ServerCrashes ==
  /\ machine = "server" /\ machine' = "exit" /\ UNCHANGED <<chips, host>>
  /\ host.at = "command" /\ host.commands # <<>> /\ Command.name = "RUN"
  /\ host.loaded # NotLoaded /\ ArgsFit(host.run.args) /\ ~(host.set.terminal \/ HasInput)

ServerGoesOn(w) == ~w.done /\ ~w.aborted /\ ~CapPassed(w)

ServerInstruction ==
  /\ Runs("server") /\ host.at = "run" /\ ServerGoesOn(World)
  /\ chips' = NmosStep(chips)
  /\ UNCHANGED host

\* An abort is an exit of 1, and so is the cap when the program has not set one.
ServerCode ==
  IF World.aborted \/ (CapPassed(World) /\ World.exit = -1) THEN 1 ELSE ExitCode(chips)
ServerOut == IF host.set.terminal THEN World.serial.sent ELSE World.out

\* The end of a run: files, output, reply.  That the program left files open is no error.
ServerReplies ==
  /\ Runs("server") /\ host.at = "run" /\ ~ServerGoesOn(World)
  /\ LET closed == FilesDestroy(World.files)
         written == IF host.run.inlineOutput \/ host.run.output = <<>> THEN closed.disk
                    ELSE (host.run.output :> ServerOut) @@ closed.disk
         h == [host EXCEPT !.disks[host.cwd] = written,
                           !.left = [status |-> NmosCpu!CpuStatus(chips, 0), screen |-> World.screen, scrA |-> World.scrA,
                                     waitMs |-> World.waitMs, pushback |-> World.pushback]]
     IN host' = Reply(h, ServerCode, IF host.run.inlineOutput THEN ServerOut ELSE Nothing,
                      IF host.run.inlineStderr THEN World.err ELSE Nothing)
  /\ chips' = <<>>

\* QUIT, or the end of the commands.
ServerEnds ==
  /\ Exits("server") /\ UNCHANGED host
  /\ host.at = "command" /\ (IF host.commands = <<>> THEN TRUE ELSE Command.name = "QUIT")

ServerSets ==
  \/ ServerBinary \/ ServerLoad \/ ServerMode \/ ServerApi \/ ServerSize \/ ServerInput \/ ServerOutput
  \/ ServerKeys \/ ServerInline \/ ServerChdir \/ ServerArg \/ ServerUnknown
ServerNext ==
  \/ ServerStarts \/ ServerSets \/ ServerRefuses \/ ServerRun \/ ServerCrashes \/ ServerInstruction
  \/ ServerReplies \/ ServerEnds

=============================================================================
