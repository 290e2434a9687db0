------------------------------ MODULE Via6522 ------------------------------
(* The versatile interface adapter, emulator/chips/via_6522.c: a record    *)
(* for its state, and one operator for each of the chip's functions.  The  *)
(* interrupt flags and their enables are sets of the sources; the          *)
(* interrupt line and the bank bits, which the code recomputes after every *)
(* change of what they depend on, are derived.  At the end, the serial     *)
(* chip that drives its CB2.                                               *)
EXTENDS Integers, Sequences, FiniteSets, SequencesExt, Bits

CONSTANT SERIAL_USB_BUF_SIZE      \* the ring's cells, one more than it holds

\* The sources, by their bits of IFR and IER.  Nothing raises CA1 and CB1.
ViaSource == <<"CA2", "CA1", "SR", "CB2", "CB1", "T2", "T1">>

\* The registers, in their order.
ViaRegister == <<"ORB", "ORA", "DDRB", "DDRA", "T1CL", "T1CH", "T1LL", "T1LH", "T2CL", "T2CH",
                 "SR", "ACR", "PCR", "IFR", "IER", "ORANH">>

BitOf(b, k) == (b \div 2 ^ k) % 2
HighByte(w) == w \div 256
LowByte(w) == w % 256
Inverted(b) == 255 - b

Sources(b) == {ViaSource[k] : k \in {j \in 1 .. 7 : BitOf(b, j - 1) = 1}}
SourceBits(set) ==
  LET bit[k \in 0 .. 7] == IF k = 0 THEN 0
                           ELSE bit[k - 1] + (IF ViaSource[k] \in set THEN 2 ^ (k - 1) ELSE 0)
  IN bit[7]

ViaCleared ==
  [orb |-> 0, ora |-> 0, ddrb |-> 0, ddra |-> 0,
   t1c |-> 0, t1l |-> 0, t2c |-> 0, t2l |-> 0, sr |-> 0, acr |-> 0, pcr |-> 0,
   ifr |-> {}, ier |-> {}, pb7 |-> 0,
   t1 |-> "off", t1Armed |-> FALSE, t2 |-> "off", t2Armed |-> FALSE,
   srBits |-> 0, srTotal |-> 0,
   cb2 |-> 0, ca2 |-> 0, prevRes |-> FALSE, portaInput |-> 0]

\* Of ACR: T1's two bits, and whether the shift register shifts in under T2.
T1Continuous(via) == BitOf(via.acr, 6) = 1
T1Out(via) == BitOf(via.acr, 7) = 1
ShiftsIn(via) == (via.acr \div 4) % 8 = 1

ViaIrq(via) == via.ifr \cap via.ier # {}
ViaBankConfig(via) == AndByte(via.orb, via.ddrb) % 32

Raise(via, source) == [via EXCEPT !.ifr = @ \cup {source}]
Acknowledge(via, source) == [via EXCEPT !.ifr = @ \ {source}]

\* The pins: outputs show the latch, inputs what drives them; T1 may take PB7.
PortBPins(via, input) ==
  LET v == AndByte(via.orb, via.ddrb) + AndByte(input, Inverted(via.ddrb))
  IN IF T1Out(via) THEN (v % 128) + 128 * via.pb7 ELSE v

PortAPins(via) == AndByte(via.ora, via.ddra) + AndByte(via.portaInput, Inverted(via.ddra))

\* An ORA access clears IFR.CA2 unless CA2 is an independent input.
OraAccess(via) == IF BitOf(via.pcr, 1) = 0 /\ BitOf(via.pcr, 3) = 0 THEN Acknowledge(via, "CA2") ELSE via

----
\* A read: the byte, and the chip after it.  input is what drives port B's inputs.
ViaRead(via, register, input) ==
  LET Gives(b) == [value |-> b, via |-> via]
      Clears(b, source) == [value |-> b, via |-> Acknowledge(via, source)]
  IN
  CASE register = "ORB" -> Gives(PortBPins(via, input))
    [] register = "ORA" -> [value |-> PortAPins(via), via |-> OraAccess(via)]
    [] register = "ORANH" -> Gives(PortAPins(via))
    [] register = "DDRB" -> Gives(via.ddrb)
    [] register = "DDRA" -> Gives(via.ddra)
    [] register = "T1CL" -> Clears(LowByte(via.t1c), "T1")
    [] register = "T1CH" -> Gives(HighByte(via.t1c))
    [] register = "T1LL" -> Gives(LowByte(via.t1l))
    [] register = "T1LH" -> Gives(HighByte(via.t1l))
    [] register = "T2CL" -> Clears(LowByte(via.t2c), "T2")
    [] register = "T2CH" -> Gives(HighByte(via.t2c))
    [] register = "SR" ->
         LET c == Clears(via.sr, "SR")
         IN IF ShiftsIn(via) THEN [c EXCEPT !.via.srBits = 8] ELSE c
    [] register = "ACR" -> Gives(via.acr)
    [] register = "PCR" -> Gives(via.pcr)
    [] register = "IFR" -> Gives(SourceBits(via.ifr) + (IF ViaIrq(via) THEN 128 ELSE 0))
    [] register = "IER" -> Gives(128 + SourceBits(via.ier))

ViaWrite(via, register, b) ==
  CASE register = "ORB" -> [via EXCEPT !.orb = b]
    [] register = "ORA" -> [OraAccess(via) EXCEPT !.ora = b]
    [] register = "ORANH" -> [via EXCEPT !.ora = b]
    [] register = "DDRB" -> [via EXCEPT !.ddrb = b]
    [] register = "DDRA" -> [via EXCEPT !.ddra = b]
    [] register \in {"T1CL", "T1LL"} -> [via EXCEPT !.t1l = 256 * HighByte(@) + b]
    [] register = "T1CH" ->
         LET latch == LowByte(via.t1l) + 256 * b
         IN [Acknowledge(via, "T1") EXCEPT !.t1l = latch, !.t1c = latch, !.t1 = "loaded", !.t1Armed = TRUE,
                                           !.pb7 = IF T1Out(via) THEN 0 ELSE @]
    [] register = "T1LH" -> [Acknowledge(via, "T1") EXCEPT !.t1l = LowByte(@) + 256 * b]
    [] register = "T2CL" -> [via EXCEPT !.t2l = b]
    [] register = "T2CH" ->
         [Acknowledge(via, "T2") EXCEPT !.t2c = via.t2l + 256 * b, !.t2 = "loaded", !.t2Armed = TRUE]
    [] register = "SR" -> [Acknowledge(via, "SR") EXCEPT !.sr = b]
    [] register = "ACR" -> [via EXCEPT !.acr = b]
    [] register = "PCR" -> [via EXCEPT !.pcr = b]
    [] register = "IFR" -> [via EXCEPT !.ifr = @ \ Sources(b)]
    [] register = "IER" -> [via EXCEPT !.ier = IF b >= 128 THEN @ \cup Sources(b) ELSE @ \ Sources(b)]

----
\* A cycle of the processor

\* T1 holds for a cycle once it is loaded, counts down, times out as it rolls over to
\* $FFFF, and reloads from its latch in the cycle behind that.
T1Cycle(via) ==
  CASE via.t1 = "off" -> via
    [] via.t1 = "loaded" -> [via EXCEPT !.t1 = "counts"]
    [] via.t1 = "reload" -> [via EXCEPT !.t1 = "counts", !.t1c = via.t1l]
    [] via.t1 = "counts" /\ via.t1c > 0 -> [via EXCEPT !.t1c = @ - 1]
    [] OTHER ->
         LET out == [via EXCEPT !.t1c = 65535, !.t1 = "reload"]
         IN IF T1Continuous(via)
              THEN [Raise(out, "T1") EXCEPT !.pb7 = IF T1Out(via) THEN 1 - @ ELSE @]
            ELSE IF via.t1Armed
              THEN [Raise(out, "T1") EXCEPT !.t1Armed = FALSE, !.pb7 = IF T1Out(via) THEN 1 ELSE @]
            ELSE out

\* A bit from CB2, if any is still wanted.
ShiftIn(via) ==
  IF via.srBits = 0 THEN via
  ELSE LET s == [via EXCEPT !.sr = LowByte(2 * @ + via.cb2), !.srBits = @ - 1, !.srTotal = @ + 1]
       IN IF s.srBits = 0 THEN Raise(s, "SR") ELSE s

\* T2 sets its flag once for a load, or clocks the shift register and starts over.
T2Cycle(via) ==
  CASE via.t2 = "off" -> via
    [] via.t2 = "loaded" -> [via EXCEPT !.t2 = "counts"]
    [] via.t2 = "counts" /\ ShiftsIn(via) ->
         IF via.t2c = 0 THEN [ShiftIn(Raise(via, "T2")) EXCEPT !.t2c = via.t2l]
         ELSE [via EXCEPT !.t2c = @ - 1]
    [] OTHER ->
         LET down == [via EXCEPT !.t2c = (@ - 1) % 65536]
         IN IF via.t2c = 0 /\ via.t2Armed THEN [Raise(down, "T2") EXCEPT !.t2Armed = FALSE] ELSE down

\* A reset clears the chip; what the world outside drives stays.
ViaReset(via) == [ViaCleared EXCEPT !.cb2 = via.cb2, !.ca2 = via.ca2, !.portaInput = via.portaInput]

ViaTick(via, res, cycle) ==
  LET r == [(IF res /\ ~via.prevRes THEN ViaReset(via) ELSE via) EXCEPT !.prevRes = res]
  IN IF cycle THEN T2Cycle(T1Cycle(r)) ELSE r

----
\* The pins that others drive

\* A falling edge of CB2 is an interrupt in the two modes of PCR that take one.
ViaSetCb2(via, level) ==
  LET s == [via EXCEPT !.cb2 = level]
  IN IF via.pcr \div 64 = 0 /\ via.cb2 = 1 /\ level = 0 THEN Raise(s, "CB2") ELSE s

ViaSetCb2Quiet(via, level) == [via EXCEPT !.cb2 = level]

ViaSetCa2(via, level) ==
  LET s == [via EXCEPT !.ca2 = level]
      positive == BitOf(via.pcr, 2) = 1
  IN IF BitOf(via.pcr, 3) = 0 /\ via.ca2 # level /\ (level = 1) = positive THEN Raise(s, "CA2") ELSE s

ViaSetPortAInput(via, bit, level) ==
  [via EXCEPT !.portaInput = AndByte(@, Inverted(bit)) + level * bit]

-----------------------------------------------------------------------------
(* The USB serial chip, emulator/chips/serial_usb.c: it feeds the bytes    *)
(* that the host queues to the VIA, bit by bit on CB2.  It sends a byte    *)
(* when the program listens and has taken the last one, and moves on to    *)
(* the next bit whenever the VIA has shifted one in.                       *)

SerialUsbStart == [queue |-> <<>>, state |-> "idle", byte |-> 0, bit |-> 0, prevShifts |-> 0]

\* An idle line is high.
SerialUsbInit(via) == ViaSetCb2Quiet(via, 1)

\* A byte that finds the queue full is dropped.
SerialUsbQueueByte(ser, byte) ==
  IF Len(ser.queue) = SERIAL_USB_BUF_SIZE - 1 THEN ser ELSE [ser EXCEPT !.queue = Append(@, byte)]

\* As much of a file as fits.
SerialUsbQueueFile(ser, file) == FoldLeft(SerialUsbQueueByte, ser, file)

SerialUsbListened(via) == "CB2" \in via.ier /\ {"CB2", "SR"} \cap via.ifr = {}

\* The edge of the start bit raises CB2's interrupt; the first bit stands on the pin at once.
SerialUsbBegin(ser, via) ==
  LET byte == Head(ser.queue) IN
  [ser |-> [queue |-> Tail(ser.queue), state |-> "shifting", byte |-> byte, bit |-> 0,
            prevShifts |-> via.srTotal],
   via |-> ViaSetCb2Quiet(ViaSetCb2(via, 0), BitOf(byte, 0))]

\* The bits since the last tick; behind the eighth the line is idle again.  The count of
\* shifts is a reset VIA's too: then it is behind, and the chip waits for it to catch up.
SerialUsbShift(ser, via) ==
  LET bit == ser.bit + (via.srTotal - ser.prevShifts) IN
  IF via.srTotal <= ser.prevShifts THEN [ser |-> ser, via |-> via]
  ELSE IF bit < 8
    THEN [ser |-> [ser EXCEPT !.bit = bit, !.prevShifts = via.srTotal],
          via |-> ViaSetCb2Quiet(via, BitOf(ser.byte, bit))]
  ELSE [ser |-> [ser EXCEPT !.bit = 8, !.prevShifts = @ + 8 - ser.bit, !.state = "idle"],
        via |-> ViaSetCb2Quiet(via, 1)]

SerialUsbTick(ser, via) ==
  CASE ser.state = "shifting" -> SerialUsbShift(ser, via)
    [] ser.state = "idle" /\ ser.queue # <<>> /\ SerialUsbListened(via) -> SerialUsbBegin(ser, via)
    [] ser.state = "idle" /\ (ser.queue = <<>> \/ ~SerialUsbListened(via)) -> [ser |-> ser, via |-> via]

=============================================================================
