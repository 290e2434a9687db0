----------------------------- MODULE SerialPort -----------------------------
(* The nmos machine's serial line in --terminal mode: the two FIFOs of     *)
(* emulator/console.c, which fill and drain at the baud rate in emulated   *)
(* time, and serial_wait_ready of emulator/emulator.c, which lets that     *)
(* time jump to the next arrival instead of passing.  m is the record of   *)
(* the emulator's variables.  A FIFO is the sequence of its bytes.         *)
EXTENDS Console, FileIO

CONSTANTS
  SERIAL_BUF_SIZE,      \* a FIFO holds one byte less
  TicksPerMs            \* cycles of the emulated processor in a millisecond

Never == -1
Later(a, b) == IF a > b THEN a ELSE b
Sooner(a, b) == IF a < b THEN a ELSE b

\* cycles: a byte's on the line, 0 without a baud rate.  sent and taken are of the model:
\* what has left by the line, and the bytes that have come by it.
SerialStart(interactive, cycles, input, mask) ==
  [interactive |-> interactive, cycles |-> cycles, input |-> input,
   rx |-> <<>>, tx |-> <<>>, rxNext |-> 0, txNext |-> 0, sent |-> <<>>, taken |-> 0,
   mask |-> mask, fillIndex |-> 0, hold |-> mask # <<>>, waited |-> FALSE]

\* The answers to the program come before what the line brings.
Injected(m) == m.screen.injectPos < Len(m.screen.inject)
ReadInjected(m) ==
  LET pos == m.screen.injectPos + 1
  IN [m EXCEPT !.screen.injectPos = IF pos < Len(m.screen.inject) THEN pos ELSE 0,
               !.screen.inject = IF pos < Len(@) THEN @ ELSE <<>>]

\* The line's other end: the user who types, or a file.  A user who has gone is ready, and
\* has nothing.
LineReady(m) == IF m.serial.interactive THEN m.typed # <<>> \/ m.gone ELSE FPeek(m.serial.input) # EOF
LineHasByte(m) == IF m.serial.interactive THEN m.typed # <<>> ELSE FPeek(m.serial.input) # EOF
LineByte(m) == IF m.serial.interactive THEN Head(m.typed) ELSE FPeek(m.serial.input)
LineTaken(m) ==
  IF m.serial.interactive THEN [m EXCEPT !.typed = Tail(@), !.serial.taken = @ + 1]
  ELSE [m EXCEPT !.serial.input = FGot(@), !.serial.taken = @ + 1]

\* A program is idle that asks for input when there is none, with all its output sent.
ProgramIdle(m) == m.serial.rx = <<>> /\ m.serial.tx = <<>> /\ ~Injected(m)

\* The mask says after which bytes the next is held until the program is idle.
Holds(serial, index) == index < Len(serial.mask) /\ serial.mask[index + 1]

RxDue(m) == m.ticks >= m.serial.rxNext /\ Len(m.serial.rx) < SERIAL_BUF_SIZE - 1 /\ LineHasByte(m)

RECURSIVE Fill(_)
Fill(m) ==
  IF ~RxDue(m) THEN m
  ELSE LET t == [LineTaken(m) EXCEPT !.serial.rx = Append(@, LineByte(m)), !.serial.rxNext = @ + m.serial.cycles,
                                     !.serial.fillIndex = @ + 1]
       IN IF Holds(m.serial, m.serial.fillIndex) THEN [t EXCEPT !.serial.hold = TRUE, !.serial.waited = FALSE]
          ELSE Fill(t)

\* serial_rx_fill.  Time that passed without a byte gives no credit for later ones.
RxFill(m) ==
  IF m.serial.hold
    THEN IF ~ProgramIdle(m) THEN m
         ELSE [m EXCEPT !.serial.hold = FALSE, !.serial.waited = FALSE,
                        !.serial.rxNext = m.ticks + m.serial.cycles]
  ELSE IF RxDue(m) THEN Fill(m)
  ELSE [m EXCEPT !.serial.rxNext = Later(@, m.ticks)]

\* serial_rx_next_arrival: when a byte can be in the FIFO.
RxNextArrival(m) ==
  LET left == Len(m.serial.tx)
  IN CASE m.serial.rx # <<>> -> m.ticks
       [] m.serial.rx = <<>> /\ ~LineReady(m) -> Never
       [] OTHER ->
            Later(m.ticks, IF ~m.serial.hold THEN m.serial.rxNext
                           ELSE IF left = 0 THEN 0 ELSE m.serial.txNext + (left - 1) * m.serial.cycles)

\* What leaves is shown on the terminal, and moves the screen.
Sent(m, byte) ==
  [m EXCEPT !.serial.sent = Append(@, byte), !.screen = HandleByte(@, byte, m.now),
            !.term = IF m.serial.interactive THEN HandleByte(@, byte, m.now) ELSE @]

RECURSIVE Drain(_)
Drain(m) ==
  IF m.serial.tx = <<>> \/ m.ticks < m.serial.txNext THEN m
  ELSE Drain(Sent([m EXCEPT !.serial.tx = Tail(@), !.serial.txNext = @ + m.serial.cycles], Head(m.serial.tx)))

\* serial_tx_drain.
TxDrained(m) == IF m.serial.tx = <<>> THEN [m EXCEPT !.serial.txNext = Later(@, m.ticks)] ELSE m
TxDrain(m) == TxDrained(Drain(m))

\* serial_tx_flush, at the end.
TxFlush(m) == FoldLeft(Sent, [m EXCEPT !.serial.tx = <<>>], m.serial.tx)

\* serial_write.  A program that does not ask whether there is room runs the ring's head
\* into its tail, and the FIFO is empty.
SerialWrite(m, byte) ==
  LET t == TxDrain(m)
  IN IF m.serial.cycles = 0 THEN Sent(m, byte)
     ELSE [t EXCEPT !.serial.tx = IF Len(@) = SERIAL_BUF_SIZE - 1 THEN <<>> ELSE Append(@, byte)]

----
\* serial_wait_ready: $FF when a byte is ready, 0 when the time is over

Ready == 255
NotReady == 0
Woken(m, value) == [m |-> m, value |-> value]

\* In a hold the key is not typed yet: the first wait times out.
TimesOut(m) == m.serial.rx = <<>> /\ m.serial.hold /\ ~m.serial.waited

\* A user who has not typed is waited for on the wall clock, asleep.  Of a user who has gone
\* the line says that a byte is ready, and has none: that ends with a signal only.
Asleep == -1
Spinning == -2
Sleeps(m) == m.serial.interactive /\ RxNextArrival(m) = Never
Spins(m) == m.serial.interactive /\ LineReady(m) /\ ~LineHasByte(m) /\ RxNextArrival(m) = m.ticks

RECURSIVE WaitUntil(_, _)
WaitTurn(d, t, deadline) ==
  LET next == RxNextArrival(t)
  IN CASE Injected(d) -> Woken(d, Ready)
       [] ~Injected(d) /\ TimesOut(d) -> Woken([d EXCEPT !.serial.waited = TRUE, !.ticks = deadline], NotReady)
       [] ~Injected(d) /\ ~TimesOut(d) /\ t.serial.rx # <<>> -> Woken(t, Ready)
       [] OTHER -> IF t.ticks >= deadline \/ t.signals.int \/ t.signals.stop THEN Woken(t, NotReady)
                   ELSE IF Sleeps(t) THEN Woken(t, Asleep)
                   ELSE IF Spins(t) THEN Woken(t, Spinning)
                   ELSE WaitUntil([t EXCEPT !.ticks = IF next = Never THEN deadline ELSE Sooner(next, deadline)],
                                  deadline)

WaitUntil(m, deadline) == LET d == TxDrain(m) IN WaitTurn(d, RxFill(d), deadline)

\* deadline: so many milliseconds from the start of the wait.
SerialWaitReady(m, deadline) ==
  IF m.serial.cycles > 0 THEN WaitUntil(m, deadline)
  ELSE Woken(m, IF Injected(m) \/ LineReady(m) THEN Ready ELSE IF m.serial.interactive THEN Asleep ELSE NotReady)

----
\* The ports

InputReady(m, t) ==
  IF Injected(m) THEN Woken(m, Ready)
  ELSE IF m.serial.cycles > 0 THEN Woken(t, IF t.serial.rx # <<>> THEN Ready ELSE NotReady)
  ELSE Woken(m, IF LineReady(m) THEN Ready ELSE NotReady)
PortSerialReady(m) ==
  LET d == IF m.serial.cycles > 0 THEN TxDrain(m) ELSE m IN InputReady(d, RxFill(d))

PortSerialData(m) ==
  LET t == RxFill(m)
  IN IF Injected(m) THEN Woken(ReadInjected(m), m.screen.inject[m.screen.injectPos + 1])
     ELSE IF m.serial.cycles > 0
       THEN IF t.serial.rx = <<>> THEN Woken(t, 0) ELSE Woken([t EXCEPT !.serial.rx = Tail(@)], Head(t.serial.rx))
     ELSE IF LineHasByte(m) THEN Woken(LineTaken(m), LineByte(m)) ELSE Woken(m, 0)

HasRoom(m) == Woken(m, IF Len(m.serial.tx) < SERIAL_BUF_SIZE - 1 THEN Ready ELSE NotReady)
PortSerialWriteReady(m) == IF m.serial.cycles = 0 THEN Woken(m, Ready) ELSE HasRoom(TxDrain(m))

=============================================================================
