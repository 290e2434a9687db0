------------------------------ MODULE Ili9341 ------------------------------
(* The graphic display's controller, emulator/chips/ili9341.c: the bytes   *)
(* it gets become pixels in its memory, and the glass shows the memory     *)
(* through the hardware scroll.                                            *)
EXTENDS Sequences, Bits

CONSTANTS ILI9341_LINES, ILI9341_WIDTH

\* Of MADCTL, and of the display function control's second parameter.
MADCTL_MY == 128
MADCTL_MX == 64
MADCTL_MV == 32
MADCTL_BGR == 8
ILI9341_GS == 64
ILI9341_SS == 32

\* The commands that do something, by their codes; RAMWRC carries on where RAMWR stopped.
IliCommand(code) ==
  CASE code = 1 -> "SWRESET" [] code = 16 -> "SLPIN" [] code = 17 -> "SLPOUT" [] code = 40 -> "DISPOFF"
    [] code = 41 -> "DISPON" [] code = 42 -> "CASET" [] code = 43 -> "PASET" [] code = 44 -> "RAMWR"
    [] code = 51 -> "VSCRDEF" [] code = 54 -> "MADCTL" [] code = 55 -> "VSCRSADD" [] code = 60 -> "RAMWRC"
    [] code = 182 -> "DFUNCTR" [] OTHER -> "none"

\* A reset puts the registers back; the memory stays.
IliRegisters ==
  [command |-> "none", params |-> <<>>, high |-> <<>>, sc |-> 0, sp |-> 0, col |-> 0, page |-> 0,
   ec |-> ILI9341_WIDTH - 1, ep |-> ILI9341_LINES - 1, madctl |-> 0, scan |-> 130,
   tfa |-> 0, bfa |-> 0, ssa |-> 0, vsa |-> ILI9341_LINES, sleeping |-> TRUE, on |-> FALSE]

Ili9341Init == [reg |-> IliRegisters, inReset |-> FALSE, backlight |-> 255,
                memory |-> [line \in 0 .. ILI9341_LINES - 1 |-> [x \in 0 .. ILI9341_WIDTH - 1 |-> 0]]]

Ili9341ResetLine(p, level) ==
  [p EXCEPT !.inReset = level = 0, !.reg = IF level = 0 THEN IliRegisters ELSE @]

Ili9341Command(p, code) ==
  LET name == IliCommand(code)
      r == [p.reg EXCEPT !.command = name, !.params = <<>>, !.high = <<>>]
      after ==
        CASE name = "SWRESET" -> IliRegisters
          [] name \in {"SLPIN", "SLPOUT"} -> [r EXCEPT !.sleeping = name = "SLPIN"]
          [] name \in {"DISPOFF", "DISPON"} -> [r EXCEPT !.on = name = "DISPON"]
          [] name = "RAMWR" -> [r EXCEPT !.col = r.sc, !.page = r.sp]
          [] OTHER -> r
  IN IF p.inReset THEN p ELSE [p EXCEPT !.reg = after]

----
\* Data: parameters, or pixels

\* Where the window's counters lie in the memory.
PixelLine(r) ==
  LET line == IF HasBit(r.madctl, MADCTL_MV) THEN r.col ELSE r.page
  IN IF HasBit(r.madctl, MADCTL_MY) THEN ILI9341_LINES - 1 - line ELSE line
PixelColumn(r) ==
  LET x == IF HasBit(r.madctl, MADCTL_MV) THEN r.page ELSE r.col
  IN IF HasBit(r.madctl, MADCTL_MX) THEN ILI9341_WIDTH - 1 - x ELSE x

\* Without BGR red and blue change places.
Colour(r, v) ==
  IF HasBit(r.madctl, MADCTL_BGR) THEN v ELSE 32 * ((v \div 32) % 64) + (v \div 2048) + 2048 * (v % 32)

\* The counters run along a page's columns, then to the next page, and around the window.
NextPixel(r) ==
  IF r.col < r.ec THEN [r EXCEPT !.col = @ + 1]
  ELSE [r EXCEPT !.col = r.sc, !.page = IF @ >= r.ep THEN r.sp ELSE @ + 1]

WritePixel(p, v) ==
  LET r == p.reg
      there == PixelLine(r) \in DOMAIN p.memory /\ PixelColumn(r) \in 0 .. ILI9341_WIDTH - 1
      put == IF there THEN [p EXCEPT !.memory[PixelLine(r)][PixelColumn(r)] = Colour(r, v)] ELSE p
  IN [put EXCEPT !.reg = NextPixel(r)]

IliWord(params, k) == 256 * params[k] + params[k + 1]

\* A command acts once it has the parameters it wants; the three areas of VSCRDEF have to
\* add up.
Parameters(r) ==
  LET n == Len(r.params)
      W(k) == IliWord(r.params, k)
  IN CASE r.command = "CASET" /\ n = 4 -> [r EXCEPT !.sc = W(1), !.ec = W(3)]
       [] r.command = "PASET" /\ n = 4 -> [r EXCEPT !.sp = W(1), !.ep = W(3)]
       [] r.command = "MADCTL" /\ n = 1 -> [r EXCEPT !.madctl = r.params[1]]
       [] r.command = "DFUNCTR" /\ n = 2 -> [r EXCEPT !.scan = r.params[2]]
       [] r.command = "VSCRSADD" /\ n = 2 -> [r EXCEPT !.ssa = W(1)]
       [] r.command = "VSCRDEF" /\ n = 6 ->
            IF W(1) + W(3) + W(5) = ILI9341_LINES THEN [r EXCEPT !.tfa = W(1), !.vsa = W(3), !.bfa = W(5)] ELSE r
       [] OTHER -> r

Ili9341Data(p, byte) ==
  LET r == p.reg IN
  CASE p.inReset -> p
    [] ~p.inReset /\ r.command \in {"RAMWR", "RAMWRC"} ->
         IF r.high = <<>> THEN [p EXCEPT !.reg.high = <<byte>>]
         ELSE [WritePixel(p, 256 * r.high[1] + byte) EXCEPT !.reg.high = <<>>]
    [] ~p.inReset /\ r.command \notin {"RAMWR", "RAMWRC"} ->
         IF Len(r.params) < 6 THEN [p EXCEPT !.reg = Parameters([r EXCEPT !.params = Append(@, byte)])] ELSE p

----
\* The glass

Showing(p) == ~p.inReset /\ ~p.reg.sleeping /\ p.reg.on

\* The memory line that row y shows: the areas above and below stand still.
GlassLine(p, y) ==
  LET r == p.reg
      k == IF HasBit(r.scan, ILI9341_GS) THEN ILI9341_LINES - 1 - y ELSE y
  IN IF k \notin r.tfa .. r.tfa + r.vsa - 1 THEN k ELSE r.tfa + ((r.ssa + k - 2 * r.tfa) % r.vsa)

GlassPixel(p, x, y) ==
  IF ~Showing(p) THEN 65535
  ELSE p.memory[GlassLine(p, y)][IF HasBit(p.reg.scan, ILI9341_SS) THEN x ELSE ILI9341_WIDTH - 1 - x]

=============================================================================
