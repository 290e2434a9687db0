----------------------------- MODULE MCEmulator -----------------------------
(* Small machines, and what is done with them.  The programs are bytes:    *)
(* firmware's own routines, assembled from firmware/lib, with a main       *)
(* program of a few lines around them, and for nmos programs that call the *)
(* console's and the files' entry points.                                  *)
EXTENDS Emulator

----
\* wendy2c

\* Gets bytes from the serial chip by the VIA's shift register, on CB2's start bit, and shows
\* them on the display; the ROM's, and one that is loaded over the link's vectors.
ShowFirmware ==
  <<162, 255, 154, 169, 0, 141, 0, 240, 169, 127, 141, 2, 240, 169, 253, 141, 3, 240, 169, 32, 32, 153, 128, 169,
    40, 32, 142, 128, 169, 1, 32, 142, 128, 169, 136, 141, 14, 240, 88, 173, 1, 240, 41, 2, 240, 7, 169, 0, 141, 0,
    240, 128, 242, 169, 64, 141, 0, 240, 128, 235, 72, 173, 13, 240, 41, 4, 208, 31, 169, 8, 141, 13, 240, 141, 14,
    240, 169, 132, 141, 14, 240, 169, 4, 141, 11, 240, 169, 2, 141, 8, 240, 156, 9, 240, 173, 10, 240, 104, 64, 156,
    11, 240, 173, 10, 240, 32, 125, 128, 169, 4, 141, 14, 240, 169, 8, 141, 13, 240, 169, 136, 141, 14, 240, 104,
    64, 72, 41, 240, 9, 1, 32, 153, 128, 104, 10, 10, 10, 10, 9, 1, 128, 11, 72, 41, 240, 32, 153, 128, 104, 10, 10,
    10, 10, 141, 1, 240, 169, 32, 141, 0, 240, 169, 0, 141, 0, 240, 96>>
ShowIrq == 32828
LinkFirmware ==
  <<162, 255, 154, 169, 1, 141, 0, 240, 169, 127, 141, 2, 240, 169, 253, 141, 3, 240, 169, 32, 32, 217, 255, 169,
    40, 32, 206, 255, 169, 1, 32, 206, 255, 169, 136, 141, 14, 240, 88, 173, 1, 240, 41, 2, 240, 7, 169, 1, 141, 0,
    240, 128, 242, 169, 65, 141, 0, 240, 128, 235, 72, 173, 13, 240, 41, 4, 208, 31, 169, 8, 141, 13, 240, 141, 14,
    240, 169, 132, 141, 14, 240, 169, 4, 141, 11, 240, 169, 63, 141, 8, 240, 156, 9, 240, 173, 10, 240, 104, 64,
    156, 11, 240, 173, 10, 240, 32, 189, 255, 169, 4, 141, 14, 240, 169, 8, 141, 13, 240, 169, 136, 141, 14, 240,
    104, 64, 72, 41, 240, 9, 1, 32, 217, 255, 104, 10, 10, 10, 10, 9, 1, 128, 11, 72, 41, 240, 32, 217, 255, 104,
    10, 10, 10, 10, 141, 1, 240, 169, 33, 141, 0, 240, 169, 1, 141, 0, 240, 96>>
LinkIrq == 65404
\* Copies the file A to the file B through the ports, and switches the machine off.
CopyProgram ==
  <<169, 65, 141, 0, 248, 173, 2, 248, 133, 16, 169, 66, 141, 0, 248, 173, 3, 248, 133, 17, 165, 16, 141, 4, 248,
    173, 6, 248, 48, 15, 173, 5, 248, 170, 165, 17, 141, 4, 248, 138, 141, 7, 248, 128, 231, 165, 17, 141, 4, 248,
    141, 8, 248, 169, 0, 141, 15, 248>>
Wendy2RomBytes ==
  [a \in (32768 .. 32767 + Len(ShowFirmware)) \cup 65532 .. 65535 |->
     CASE a = 65532 -> 0 [] a = 65533 -> 128 [] a = 65534 -> ShowIrq % 256 [] a = 65535 -> ShowIrq \div 256
       [] OTHER -> ShowFirmware[a - 32767]]
LinkImage ==
  [k \in 1 .. 192 |-> CASE k <= Len(LinkFirmware) -> LinkFirmware[k] [] k = 191 -> LinkIrq % 256
                        [] k = 192 -> LinkIrq \div 256 [] OTHER -> 0]
Wendy2Ticks(op) == CASE op \in {141, 156, 173, 104} -> 4 [] op = 72 -> 3 [] op \in {32, 96, 64} -> 6 [] OTHER -> 2

\* A transmission of one byte, $D2, the lowest bit first, after some time of the idle line.
BitNs == 6584
OneByte ==
  FlattenSeq([k \in 1 .. 9 |-> CommandBytes(IF k \in {1, 2, 4, 5, 7} THEN "LOW" ELSE "HIGH", BitNs)])
Transmission ==
  CommandBytes("TX_START", 0) \o CommandBytes("HIGH", 8 * BitNs) \o OneByte \o CommandBytes("HIGH", 2 * BitNs)
    \o CommandBytes("TX_END", 0)
Cut(s, k) == <<SubSeq(s, 1, k), SubSeq(s, k + 1, Len(s))>>
Pings == <<CommandBytes("PING", 0), CommandBytes("RESET_ON", 0), CommandBytes("RESET_OFF", 0), <<LinkByte>>>>

W2Base ==
  [mode |-> "plain", input |-> <<>>, disk |-> <<>>, hasDisk |-> FALSE, program |-> <<>>, load |-> 0, hasLink |-> FALSE,
   traces |-> FALSE, cap |-> 300, pause |-> 100, typed |-> <<>>, stream |-> <<>>, says |-> <<>>]
W2Linked == [W2Base EXCEPT !.program = LinkImage, !.load = 65344, !.hasLink = TRUE, !.cap = 3000, !.says = <<210>>]
W2SmallSetups == {
  [W2Base EXCEPT !.input = <<72, 105>>, !.cap = 3500, !.traces = TRUE],
  [W2Linked EXCEPT !.stream = <<Transmission>>],
  [W2Linked EXCEPT !.stream = Cut(Transmission, 37)],
  [W2Base EXCEPT !.mode = "live", !.input = <<72>>, !.cap = 2600, !.pause = 10, !.typed = <<"r">>],
  [W2Base EXCEPT !.mode = "live", !.cap = 400, !.pause = 1, !.typed = <<"space", "q">>],
  [W2Base EXCEPT !.program = CopyProgram, !.load = 4096, !.hasDisk = TRUE, !.disk = (<<65>> :> <<1, 2>>), !.cap = 2000],
  [W2Base EXCEPT !.hasLink = TRUE, !.stream = Pings, !.cap = 400, !.pause = 2]}

----
\* nmos: a screen of 3 rows and 6 columns

\* Echoes what it reads from the console, up to a q.
CON ==
  <<32, 39, 240, 201, 113, 240, 21, 201, 0, 240, 6, 32, 9, 240, 76, 0, 3, 169, 0, 162, 0, 32, 63, 240, 201, 1, 208,
    228, 169, 0, 32, 15, 240, 0, 3>>
\* Sets the editor up, waits for keys with a timeout, and echoes them.
EDIT ==
  <<169, 2, 160, 3, 32, 66, 240, 32, 81, 240, 169, 244, 162, 1, 32, 63, 240, 240, 247, 16, 17, 32, 39, 240, 201,
    113, 240, 10, 201, 0, 240, 234, 32, 9, 240, 76, 10, 3, 169, 0, 32, 15, 240, 0, 3>>
\* Asks the terminal for its cursor, and echoes the serial line.
TERM ==
  <<169, 27, 32, 57, 240, 169, 91, 32, 57, 240, 169, 54, 32, 57, 240, 169, 110, 32, 57, 240, 169, 2, 162, 0, 32, 63,
    240, 240, 247, 32, 54, 240, 176, 242, 201, 113, 240, 11, 133, 16, 165, 16, 32, 57, 240, 176, 249, 144, 236, 169,
    0, 32, 15, 240, 0, 3>>
\* Copies the file of its first argument to that of its second.
FILE ==
  <<169, 0, 32, 30, 240, 32, 18, 240, 133, 16, 240, 33, 169, 1, 32, 30, 240, 32, 33, 240, 133, 17, 165, 16, 32, 24,
    240, 176, 11, 166, 17, 32, 36, 240, 32, 9, 240, 76, 22, 3, 165, 17, 32, 21, 240, 169, 0, 32, 15, 240, 0, 3>>
\* Counts in a cell that it does not set before, and writes it.
COUNT ==
  <<230, 32, 165, 32, 32, 9, 240, 169, 0, 32, 15, 240, 0, 3>>
\* Writes what it finds: registers, a cell, the stack's place, the input's first byte, the first free
\* handle, the first byte of the file of its first argument.  It leaves that file open.
PROBE ==
  <<134, 16, 132, 17, 32, 9, 240, 165, 16, 32, 9, 240, 165, 17, 32, 9, 240, 165, 32, 32, 9, 240, 230, 32, 186,
    138, 32, 9, 240, 32, 6, 240, 32, 9, 240, 169, 0, 32, 30, 240, 32, 18, 240, 32, 9, 240, 32, 24, 240, 32, 9,
    240, 169, 1, 162, 7, 160, 7, 32, 15, 240, 0, 3>>
\* Leaves a file open, the cell and the stack changed, and other registers.
SPOIL ==
  <<169, 0, 32, 30, 240, 32, 18, 240, 162, 9, 160, 8, 230, 32, 72, 24, 169, 3, 32, 15, 240, 0, 3>>
\* Writes to the file of its second argument, and then closes a handle that is not open: aborted.
BADCLOSE ==
  <<169, 1, 32, 30, 240, 32, 33, 240, 170, 169, 65, 32, 36, 240, 230, 32, 72, 160, 8, 24, 169, 9, 32, 21, 240,
    0, 3>>
\* Reads from a handle that is not open: aborted.
BADREAD ==
  <<160, 8, 230, 32, 24, 169, 9, 32, 24, 240, 0, 3>>
\* Writes 0 plus the carry, and ends with the carry set.
ADD ==
  <<169, 0, 105, 0, 32, 9, 240, 56, 169, 0, 32, 15, 240, 0, 3>>
NmosTicks(op) == 3
SomeDisk == (<<105>> :> <<65, 66>>) @@ (<<120>> :> <<1, 2, 3>>)
NmosBase ==
  [mode |-> "input", directIo |-> FALSE, strictApi |-> FALSE, load |-> 768, size |-> <<3, 6>>, repaints |-> FALSE,
   disk |-> SomeDisk, folders |-> <<>>, input |-> <<105>>, interactive |-> FALSE, cycles |-> 0, mask |-> <<>>,
   args |-> <<>>, code |-> CON, typed |-> <<>>, signals |-> 0, sizes |-> {}]
\* Esc, and the sequences of the arrow up and of Delete, each as one burst.
EscKey == <<27>>
UpKey == <<27, 91, 65>>
DeleteKey == <<27, 91, 51, 126>>
NmosSmallSetups == {
  [NmosBase EXCEPT !.mode = "console", !.directIo = TRUE, !.code = EDIT,
                   !.typed = <<UpKey, EscKey, <<79>>, EscKey, DeleteKey, <<120>>, <<113>>>>],
  [NmosBase EXCEPT !.mode = "terminal", !.interactive = TRUE, !.cycles = 30, !.code = TERM,
                   !.typed = <<<<120>>, <<121, 122>>, <<113>>>>],
  [NmosBase EXCEPT !.mode = "console", !.directIo = TRUE, !.signals = 2, !.sizes = {<<2, 4>>},
                   !.typed = <<<<120>>, EscKey, <<120>>, <<113>>>>],
  [NmosBase EXCEPT !.mode = "console", !.directIo = TRUE, !.repaints = TRUE, !.signals = 1,
                   !.typed = <<<<120>>, <<120>>, <<113>>>>],
  [NmosBase EXCEPT !.code = FILE, !.args = <<<<120>>, <<121>>>>],
  [NmosBase EXCEPT !.input = <<122>>], [NmosBase EXCEPT !.load = 65530]}

\* The server: its programs' names, and commands with and without a value.
NameOf == (TERM :> <<116>>) @@ (FILE :> <<102>>) @@ (EDIT :> <<101>>) @@ (COUNT :> <<99>>) @@ (PROBE :> <<112>>)
          @@ (SPOIL :> <<115>>) @@ (BADCLOSE :> <<119>>) @@ (BADREAD :> <<114>>) @@ (ADD :> <<97>>)
Say(name) == [name |-> name, value |-> 0]
Set(name, value) == [name |-> name, value |-> value]
Run == Say("RUN")
TerminalRun == <<Set("KEYS", <<97, 98, 113>>), Say("INLINE_OUTPUT"), Run>>
CountRun == <<Set("INPUT", <<120>>), Set("OUTPUT", <<111>>), Run>>
Inputs == <<Say("INLINE_OUTPUT"), Run>>
\* A run with a byte of input, two arguments and everything in its reply.
Tried(program) ==
  <<Set("BINARY", NameOf[program]), Set("KEYS", <<66>>), Set("ARG", <<120>>), Set("ARG", <<121>>),
    Say("INLINE_OUTPUT"), Say("INLINE_STDERR"), Run>>
ServerSmallScripts == {
  <<Run, Set("LOAD", 768), Set("MODE", "terminal"), Set("ROWS", 3), Set("COLS", 6), Set("BINARY", <<116>>)>>
    \o TerminalRun \o <<Set("KEYS", <<113>>)>> \o Inputs \o TerminalRun
    \o <<Set("MODE", "normal"), Set("BINARY", <<99>>)>> \o Inputs \o Inputs \o CountRun \o CountRun
    \o <<Set("API", "strict"), Set("BINARY", <<102>>), Set("ARG", <<120>>), Set("ARG", <<121>>), Say("INLINE_STDERR")>>
    \o Inputs \o <<Set("CWD", "no"), Set("CWD", "e"), Set("BINARY", <<101>>), Set("MODE", "direct")>>
    \o <<Set("KEYS", <<27, 79, 120, 97, 27>>)>> \o Inputs \o <<Set("BINARY", <<122>>), Run, Say("?"), Say("QUIT")>>,
  <<Set("LOAD", 768), Set("BINARY", <<99>>), Set("INPUT", <<122>>), Run>>,
  FlattenSeq(<<<<Set("LOAD", 768)>>, Tried(PROBE), Tried(BADCLOSE), Tried(PROBE), Tried(SPOIL), Tried(PROBE),
               Tried(BADCLOSE), Tried(PROBE), Tried(BADREAD), Tried(PROBE),
               <<Set("MODE", "terminal"), Set("ROWS", 3), Set("COLS", 6)>>, Tried(TERM), Tried(PROBE)>>)}
\* The two runs of one program, which tells the flags that it finds.
ServerFlagScripts == {<<Set("LOAD", 768), Set("BINARY", NameOf[ADD])>> \o Inputs \o Inputs}
ServerFiles ==
  (<<120>> :> <<1, 2, 3>>)
  @@ [name \in Range(NameOf) |-> CHOOSE program \in DOMAIN NameOf : NameOf[program] = name]
ServerSmallDisks == ("d" :> ServerFiles) @@ ("e" :> ServerFiles)

----
\* michael: a display of 2 columns and 3 lines, with a cell for each pixel

\* Sends a command to the keyboard, then has the FPGA echo a byte again and again, and writes
\* the scan codes down that come by the interrupt; the second also sends a command between.
KeysProgram ==
  <<162, 255, 154, 169, 120, 141, 1, 96, 169, 254, 141, 3, 96, 169, 255, 141, 2, 96, 141, 0, 96, 169, 8, 28, 1, 96,
    12, 1, 96, 169, 96, 28, 1, 96, 32, 154, 62, 32, 130, 61, 100, 16, 100, 17, 100, 18, 100, 21, 169, 2, 141, 12,
    96, 169, 129, 141, 14, 96, 88, 169, 244, 32, 175, 61, 169, 4, 32, 165, 62, 160, 0, 169, 90, 32, 175, 62, 32,
    209, 62, 201, 90, 208, 14, 32, 156, 61, 176, 239, 153, 0, 3, 200, 192, 3, 208, 231, 219, 230, 21, 128, 226, 100,
    19, 100, 20, 96, 218, 166, 19, 232, 228, 20, 240, 10, 202, 157, 0, 2, 232, 134, 19, 24, 128, 1, 56, 250, 96,
    218, 166, 20, 228, 19, 240, 9, 189, 0, 2, 232, 134, 20, 24, 128, 1, 56, 250, 96, 218, 90, 170, 120, 165, 16,
    240, 3, 88, 128, 248, 169, 8, 28, 1, 96, 169, 1, 44, 13, 96, 240, 251, 141, 13, 96, 88, 156, 12, 96, 169, 1, 32,
    244, 62, 172, 1, 96, 169, 96, 28, 1, 96, 138, 32, 20, 62, 176, 4, 169, 64, 128, 2, 169, 0, 12, 1, 96, 142, 0,
    96, 169, 1, 133, 17, 169, 8, 12, 1, 96, 152, 9, 8, 141, 1, 96, 169, 3, 32, 244, 62, 169, 6, 141, 12, 96, 169, 1,
    133, 16, 165, 17, 208, 252, 165, 18, 240, 252, 122, 250, 96, 72, 218, 90, 160, 0, 162, 8, 74, 144, 1, 200, 202,
    208, 249, 152, 74, 122, 250, 104, 96, 169, 1, 44, 13, 96, 208, 1, 96, 141, 13, 96, 165, 16, 240, 89, 169, 2,
    141, 12, 96, 100, 16, 173, 1, 96, 72, 173, 3, 96, 72, 173, 0, 96, 72, 173, 2, 96, 72, 169, 0, 141, 2, 96, 169,
    96, 28, 3, 96, 169, 16, 28, 1, 96, 165, 17, 240, 8, 198, 17, 208, 20, 100, 18, 128, 16, 173, 0, 96, 73, 255,
    201, 250, 240, 5, 32, 135, 61, 128, 2, 230, 18, 169, 16, 12, 1, 96, 104, 141, 2, 96, 104, 141, 0, 96, 104, 141,
    3, 96, 104, 141, 1, 96, 128, 9, 169, 6, 141, 12, 96, 169, 1, 133, 16, 96, 72, 169, 100, 28, 1, 96, 12, 3, 96,
    104, 96, 72, 128, 13, 72, 169, 168, 32, 165, 62, 104, 72, 169, 32, 12, 1, 96, 169, 255, 141, 2, 96, 104, 141, 0,
    96, 72, 169, 4, 12, 1, 96, 28, 1, 96, 169, 32, 28, 1, 96, 104, 96, 218, 128, 6, 218, 169, 32, 12, 1, 96, 156, 2,
    96, 169, 64, 12, 1, 96, 169, 4, 12, 1, 96, 174, 0, 96, 28, 1, 96, 169, 96, 28, 1, 96, 138, 250, 201, 0, 96, 218,
    170, 169, 4, 58, 208, 253, 202, 208, 248, 250, 96, 72, 32, 40, 62, 104, 64>>
KeysAt == 15645
CommandProgram ==
  <<162, 255, 154, 169, 120, 141, 1, 96, 169, 254, 141, 3, 96, 169, 255, 141, 2, 96, 141, 0, 96, 169, 8, 28, 1, 96,
    12, 1, 96, 169, 96, 28, 1, 96, 32, 154, 62, 32, 130, 61, 100, 16, 100, 17, 100, 18, 100, 21, 169, 2, 141, 12,
    96, 169, 129, 141, 14, 96, 88, 169, 244, 32, 175, 61, 169, 4, 32, 165, 62, 160, 0, 169, 90, 32, 175, 62, 32,
    209, 62, 201, 90, 208, 28, 32, 156, 61, 176, 239, 153, 0, 3, 200, 192, 1, 208, 10, 169, 244, 32, 175, 61, 169,
    4, 32, 165, 62, 192, 3, 208, 217, 219, 230, 21, 128, 212, 100, 19, 100, 20, 96, 218, 166, 19, 232, 228, 20, 240,
    10, 202, 157, 0, 2, 232, 134, 19, 24, 128, 1, 56, 250, 96, 218, 166, 20, 228, 19, 240, 9, 189, 0, 2, 232, 134,
    20, 24, 128, 1, 56, 250, 96, 218, 90, 170, 120, 165, 16, 240, 3, 88, 128, 248, 169, 8, 28, 1, 96, 169, 1, 44,
    13, 96, 240, 251, 141, 13, 96, 88, 156, 12, 96, 169, 1, 32, 244, 62, 172, 1, 96, 169, 96, 28, 1, 96, 138, 32,
    20, 62, 176, 4, 169, 64, 128, 2, 169, 0, 12, 1, 96, 142, 0, 96, 169, 1, 133, 17, 169, 8, 12, 1, 96, 152, 9, 8,
    141, 1, 96, 169, 3, 32, 244, 62, 169, 6, 141, 12, 96, 169, 1, 133, 16, 165, 17, 208, 252, 165, 18, 240, 252,
    122, 250, 96, 72, 218, 90, 160, 0, 162, 8, 74, 144, 1, 200, 202, 208, 249, 152, 74, 122, 250, 104, 96, 169, 1,
    44, 13, 96, 208, 1, 96, 141, 13, 96, 165, 16, 240, 89, 169, 2, 141, 12, 96, 100, 16, 173, 1, 96, 72, 173, 3, 96,
    72, 173, 0, 96, 72, 173, 2, 96, 72, 169, 0, 141, 2, 96, 169, 96, 28, 3, 96, 169, 16, 28, 1, 96, 165, 17, 240, 8,
    198, 17, 208, 20, 100, 18, 128, 16, 173, 0, 96, 73, 255, 201, 250, 240, 5, 32, 135, 61, 128, 2, 230, 18, 169,
    16, 12, 1, 96, 104, 141, 2, 96, 104, 141, 0, 96, 104, 141, 3, 96, 104, 141, 1, 96, 128, 9, 169, 6, 141, 12, 96,
    169, 1, 133, 16, 96, 72, 169, 100, 28, 1, 96, 12, 3, 96, 104, 96, 72, 128, 13, 72, 169, 168, 32, 165, 62, 104,
    72, 169, 32, 12, 1, 96, 169, 255, 141, 2, 96, 104, 141, 0, 96, 72, 169, 4, 12, 1, 96, 28, 1, 96, 169, 32, 28, 1,
    96, 104, 96, 218, 128, 6, 218, 169, 32, 12, 1, 96, 156, 2, 96, 169, 64, 12, 1, 96, 169, 4, 12, 1, 96, 174, 0,
    96, 28, 1, 96, 169, 96, 28, 1, 96, 138, 250, 201, 0, 96, 218, 170, 169, 4, 58, 208, 253, 202, 208, 248, 250, 96,
    72, 32, 40, 62, 104, 64>>
CommandAt == 15631
\* Does on the FPGA's bus what the script behind it says: 1, a command; 2, a byte; 3, a reply;
\* 4, the status; 0, the end.
TableProgram ==
  <<162, 255, 154, 169, 120, 141, 1, 96, 169, 254, 141, 3, 96, 169, 255, 141, 2, 96, 141, 0, 96, 169, 8, 28, 1, 96,
    12, 1, 96, 169, 96, 28, 1, 96, 32, 92, 16, 162, 0, 160, 0, 189, 182, 16, 240, 45, 232, 201, 1, 240, 22, 201, 2,
    240, 27, 201, 3, 240, 5, 32, 144, 16, 128, 3, 32, 147, 16, 153, 0, 3, 200, 128, 224, 189, 182, 16, 232, 32, 103,
    16, 128, 215, 189, 182, 16, 232, 32, 113, 16, 128, 206, 219, 72, 169, 100, 28, 1, 96, 12, 3, 96, 104, 96, 72,
    128, 13, 72, 169, 106, 32, 103, 16, 104, 72, 169, 32, 12, 1, 96, 169, 255, 141, 2, 96, 104, 141, 0, 96, 72, 169,
    4, 12, 1, 96, 28, 1, 96, 169, 32, 28, 1, 96, 104, 96, 218, 128, 6, 218, 169, 32, 12, 1, 96, 156, 2, 96, 169, 64,
    12, 1, 96, 169, 4, 12, 1, 96, 174, 0, 96, 28, 1, 96, 169, 96, 28, 1, 96, 138, 250, 201, 0, 96>>
\* Every text operation; and a server on the W5500 that takes a connection and answers it.
TextScript ==
  <<1, 16, 2, 1, 1, 17, 2, 17, 1, 17, 2, 41, 1, 128, 2, 0, 1, 128, 2, 14, 2, 1, 1, 128, 2, 3, 2, 97, 2, 98, 2, 98,
    2, 97, 1, 128, 2, 10, 2, 1, 1, 128, 2, 2, 2, 0, 2, 0, 1, 128, 2, 8, 2, 1, 2, 2, 1, 128, 2, 3, 2, 99, 2, 97, 2,
    97, 1, 128, 2, 10, 2, 1, 1, 128, 2, 2, 2, 1, 2, 0, 1, 128, 2, 6, 2, 1, 1, 128, 2, 15, 2, 1, 1, 128, 2, 3, 2, 97,
    1, 128, 2, 11, 2, 1, 1, 128, 2, 15, 2, 0, 1, 128, 2, 12, 2, 1, 1, 128, 2, 3, 2, 97, 2, 13, 2, 10, 2, 8, 1, 128,
    2, 13, 2, 1, 1, 128, 2, 2, 2, 2, 2, 0, 1, 128, 2, 7, 2, 1, 1, 128, 2, 5, 1, 128, 2, 9, 1, 128, 2, 10, 2, 3, 1,
    128, 2, 3, 2, 99, 1, 128, 2, 14, 2, 0, 1, 128, 2, 1, 0>>
NetScript ==
  <<1, 129, 2, 0, 1, 129, 2, 2, 2, 0, 2, 0, 2, 12, 2, 1, 1, 129, 2, 2, 2, 0, 2, 4, 2, 12, 2, 0, 2, 80, 1, 129, 2, 2,
    2, 0, 2, 1, 2, 12, 2, 1, 1, 129, 2, 2, 2, 0, 2, 1, 2, 12, 2, 2, 4, 1, 129, 2, 1, 2, 0, 2, 38, 2, 8, 2, 2, 3, 3,
    1, 129, 2, 1, 2, 0, 2, 0, 2, 24, 2, 2, 3, 3, 1, 129, 2, 2, 2, 0, 2, 40, 2, 12, 2, 0, 2, 2, 1, 129, 2, 2, 2, 0,
    2, 1, 2, 12, 2, 64, 1, 129, 2, 2, 2, 0, 2, 0, 2, 20, 2, 72, 2, 73, 1, 129, 2, 2, 2, 0, 2, 36, 2, 12, 2, 0, 2, 2,
    1, 129, 2, 2, 2, 0, 2, 1, 2, 12, 2, 32, 1, 129, 2, 2, 2, 0, 2, 1, 2, 12, 2, 8, 1, 129, 2, 1, 2, 0, 2, 3, 2, 8,
    2, 1, 3, 1, 129, 2, 3, 3, 4, 0>>
\* Writes the W5500's registers through the GAL.
GalProgram ==
  <<162, 255, 154, 169, 120, 141, 1, 96, 169, 254, 141, 3, 96, 169, 255, 141, 2, 96, 141, 0, 96, 169, 8, 28, 1, 96,
    12, 1, 96, 169, 96, 28, 1, 96, 169, 4, 28, 1, 96, 32, 162, 16, 100, 36, 100, 37, 162, 0, 160, 15, 169, 165, 32,
    240, 16, 176, 5, 200, 192, 18, 208, 244, 140, 0, 3, 160, 57, 32, 209, 16, 141, 1, 3, 169, 0, 42, 141, 2, 3, 219,
    218, 170, 9, 252, 45, 0, 96, 141, 0, 96, 138, 9, 240, 45, 0, 96, 141, 0, 96, 138, 9, 192, 45, 0, 96, 141, 0, 96,
    142, 0, 96, 138, 250, 96, 32, 80, 16, 169, 4, 12, 1, 96, 28, 1, 96, 96, 32, 80, 16, 169, 4, 12, 1, 96, 156, 2,
    96, 234, 234, 234, 234, 234, 234, 173, 0, 96, 141, 0, 96, 72, 169, 4, 28, 1, 96, 169, 255, 141, 2, 96, 104, 96,
    72, 169, 1, 12, 1, 96, 12, 3, 96, 104, 96, 72, 169, 1, 28, 1, 96, 138, 32, 114, 16, 152, 32, 114, 16, 104, 32,
    126, 16, 73, 3, 201, 1, 96, 72, 169, 1, 12, 1, 96, 104, 96, 169, 0, 76, 126, 16, 169, 8, 133, 33, 32, 27, 17,
    176, 11, 133, 35, 32, 27, 17, 176, 4, 197, 35, 240, 9, 32, 41, 17, 198, 33, 208, 233, 56, 96, 24, 96, 133, 34,
    169, 8, 72, 169, 4, 32, 173, 16, 165, 34, 32, 114, 16, 32, 196, 16, 32, 209, 16, 176, 4, 197, 34, 240, 11, 32,
    41, 17, 104, 58, 208, 226, 165, 34, 56, 96, 104, 165, 34, 24, 96, 169, 0, 32, 173, 16, 8, 32, 204, 16, 32, 196,
    16, 40, 96, 230, 36, 208, 2, 230, 37, 96>>
MichaelTicks(op) == CASE op = 12 -> 6 [] op = 234 -> 2 [] OTHER -> 1
DotFont(c) == IF c = 97 THEN {<<0, 0>>} ELSE {}

MiBase ==
  [mode |-> "plain", ramMap |-> "16k", fault |-> "none", interval |-> 0, keys |-> <<>>, scancodes |-> <<>>, serial |-> <<>>,
   noFpga |-> FALSE, gal |-> FALSE, w5500 |-> FALSE, csRc |-> FALSE, csBounce |-> FALSE, csFlaky |-> FALSE,
   client |-> NoClient, rom |-> <<>>, program |-> <<>>, load |-> 4096, traces |-> FALSE, cap |-> 4000, typed |-> <<>>,
   resets |-> 0, test |-> "", script |-> <<>>]

KeysSetups ==
  {[MiBase EXCEPT !.program = KeysProgram, !.load = KeysAt, !.scancodes = <<28>>, !.keys = <<97>>, !.test = "keys",
                  !.interval = n] : n \in 128 .. 143}
  \cup {[MiBase EXCEPT !.program = KeysProgram, !.load = KeysAt, !.scancodes = <<28, 240, 28>>, !.test = "keys", !.cap = 2000,
                       !.fault = f] : f \in {"noack", "resend", "noedge", "noirq"}}
  \cup {[MiBase EXCEPT !.program = CommandProgram, !.load = CommandAt, !.keys = <<97>>, !.test = "commands", !.cap = 3000,
                       !.interval = n] : n \in {0} \cup 130 .. 150}

\* A program that writes n bytes to be echoed, and then does the rest, which may go on with it.
EchoStepBytes(what) ==
  CASE what = "echo" -> <<2, 85>> [] what = "reply" -> <<3>> [] what = "status" -> <<4>>
EchoProgram(script) == TableProgram \o <<1, 4>> \o FlattenSeq([k \in DOMAIN script |-> EchoStepBytes(script[k])]) \o <<0>>
Times(n, what) == [k \in 1 .. n |-> what]
EchoScripts ==
  {Times(n, "echo") \o Times(m, "reply") \o Times(k, "echo") \o <<"status">> \o Times(4, "reply") :
     n \in 3 .. 5, m \in 0 .. 2, k \in {0, 3}}
EchoSetups == {[MiBase EXCEPT !.program = EchoProgram(s), !.test = "echo", !.script = s] : s \in EchoScripts}

NetSetup == [MiBase EXCEPT !.program = TableProgram \o NetScript, !.w5500 = TRUE,
                           !.client = NetClientInit(80, <<71, 72>>, 2, 0, 5)]
GalSetup == [MiBase EXCEPT !.program = GalProgram, !.w5500 = TRUE, !.gal = TRUE]
TextSetup == [MiBase EXCEPT !.program = TableProgram \o TextScript]

\* A loop in a few bytes, for what is around the board.
LoopSetup == [MiBase EXCEPT !.program = <<234, 128, 253>>, !.cap = 750]
OtherSetups == {
  [LoopSetup EXCEPT !.mode = "live", !.typed = <<<<97>>, <<LIVE_QUIT_KEY>>>>],
  [LoopSetup EXCEPT !.mode = "web", !.typed = <<<<97>>>>, !.resets = 1],
  [LoopSetup EXCEPT !.rom = VectorsRom(4096), !.serial = <<65>>, !.traces = TRUE],
  [LoopSetup EXCEPT !.load = 20000]}
  \cup {[LoopSetup EXCEPT !.ramMap = map, !.noFpga = TRUE] : map \in {"eater", "full", "mirror8k"}}

MichaelSmallSetups ==
  KeysSetups \cup EchoSetups \cup OtherSetups \cup {NetSetup, TextSetup}
  \cup {GalSetup, [GalSetup EXCEPT !.csRc = TRUE], [GalSetup EXCEPT !.csFlaky = TRUE], [GalSetup EXCEPT !.csBounce = TRUE]}

----
\* The web server: pages that do what their scripts say, in the given numbers of parts, and a
\* program that draws in line 0 and 1 so often.

Sends(name, parts) == [name |-> name, parts |-> parts]
WebSetup(scripts, columns, draws0, draws1, sounds, shows) ==
  [machine |-> IF sounds # 0 THEN "wendy2c" ELSE "michael",
   scripts |-> scripts, columns |-> columns, sounds |-> sounds, shows |-> shows, skips |-> IF shows = -1 THEN 0 ELSE 1,
   draws |-> [l \in DisplayLines |-> CASE l = 0 -> draws0 [] l = 1 -> draws1 [] OTHER -> 0]]
WebSmallSetups == {
  WebSetup(<<<<Sends("websocket", 2), Sends("ping", 1)>>>>, {}, 0, 0, 0, -1),
  WebSetup(<<<<Sends("websocket", 1)>>>>, {1}, 1, 1, 0, 3),
  WebSetup(<<<<Sends("websocket", 1)>>, <<Sends("websocket", 1)>>>>, {0, 1}, 1, 1, 0, 2),
  WebSetup(<<<<Sends("file", 1), Sends("file", 1)>>, <<Sends("bad", 1)>>, <<Sends("long", 4)>>>>, {0}, 0, 0, 0, 0),
  WebSetup(<<<<Sends("websocket", 1), Sends("keys", 2), Sends("reset", 1), Sends("button", 1), Sends("close", 1)>>>>,
           {0}, 0, 0, 3, 1),
  WebSetup(<<<<Sends("websocket", 1)>>>>, {1}, -1, 1, 0, -1)}

\* A line in which three colours take turns.
WebTurnsSetups == {WebSetup(<<<<Sends("websocket", 1)>>>>, {0, 1, 3}, 3, 0, 0, -1)}

=============================================================================
