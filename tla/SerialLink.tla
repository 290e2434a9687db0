---------------------------- MODULE SerialLink ----------------------------
(* The serial link, emulator/serial_link.c: a client on a socket drives    *)
(* the wire, CB2, with commands that set its level and say how much        *)
(* emulated time passes until the next one.  The stream is a sequence of   *)
(* bytes, of which a command's first holds all of it: its name and its     *)
(* nanoseconds; the eight behind a timed command's first are only counted. *)
EXTENDS Integers, Sequences, Via6522

CONSTANTS
  RX_BUF_SIZE,                 \* the receive buffer's bytes
  OscTicks, OscNanoseconds     \* so many ticks of the oscillator in so many nanoseconds

TimedOps == {"LOW", "HIGH", "DELAY"}
OtherOps == {"RESET_ON", "RESET_OFF", "PING", "TX_START", "TX_END"}
LinkByte == [op |-> "...", ns |-> 0]

\* What a client sends for a command.
CommandBytes(op, ns) ==
  <<[op |-> op, ns |-> ns]>> \o (IF op \in TimedOps THEN [k \in 1 .. 8 |-> LinkByte] ELSE <<>>)

\* The client's end of the socket, outside the emulator: what it has sent and nobody has
\* received, whether it has closed, and the echoes it has got.
Peer == [sent |-> <<>>, closed |-> FALSE, pongs |-> 0]

LinkStart == [client |-> FALSE, rx |-> <<>>, unblock |-> 0, hasUnblock |-> FALSE,
              residue |-> 0, inTx |-> FALSE, lastCb2 |-> -1, broken |-> FALSE]

\* The line keeps its level.
DropClient(link) == [link EXCEPT !.client = FALSE, !.rx = <<>>, !.inTx = FALSE, !.hasUnblock = FALSE]

TryAccept(link) ==
  [link EXCEPT !.client = TRUE, !.rx = <<>>, !.hasUnblock = FALSE, !.inTx = FALSE,
               !.residue = 0, !.lastCb2 = -1]

\* Ticks for nanoseconds; what is not a whole tick is kept for the next command.
NsToOsc(link, ns) ==
  LET exact == ns * OscTicks + link.residue
  IN [whole |-> exact \div OscNanoseconds, residue |-> exact % OscNanoseconds]

\* How long the first command in the buffer is: 0 while it is not complete, -1 if it is none.
CommandLen(link) ==
  LET op == Head(link.rx).op IN
  CASE op \in TimedOps -> IF Len(link.rx) >= 9 THEN 9 ELSE 0
    [] op \in OtherOps -> 1
    [] OTHER -> -1

Waits(link, osc) == link.hasUnblock /\ osc < link.unblock

----
\* What a command does to the link, to the VIA and to the reset line.  s holds the three,
\* and the client's end.

\* Only a change of the level reaches the VIA.
ApplyCb2(s, level) ==
  IF s.link.lastCb2 = level THEN s
  ELSE [s EXCEPT !.via = ViaSetCb2(@, level), !.link.lastCb2 = level]

\* The bytes of the command are consumed.  A failed send has dropped the client and
\* emptied the buffer by then: its count would fall below nothing.
Consumed(s, len) ==
  IF s.link.client THEN [s EXCEPT !.link.rx = SubSeq(@, len + 1, Len(@))] ELSE [s EXCEPT !.link.broken = TRUE]

\* The time starts where the command is applied.
WithDelay(s, osc, ns) ==
  LET ticks == NsToOsc(s.link, ns)
  IN [s EXCEPT !.link.unblock = osc + ticks.whole, !.link.residue = ticks.residue, !.link.hasUnblock = TRUE]

Pong(s) == IF s.peer.closed THEN [s EXCEPT !.link = DropClient(@)] ELSE [s EXCEPT !.peer.pongs = @ + 1]

\* Mutant: the end of a transmission does not end it.
ApplyOneNoEnd(s, osc) ==
  LET op == Head(s.link.rx).op  ns == Head(s.link.rx).ns IN
  Consumed(CASE op = "LOW" -> WithDelay(ApplyCb2(s, 0), osc, ns)
             [] op = "HIGH" -> WithDelay(ApplyCb2(s, 1), osc, ns)
             [] op = "TX_START" -> [s EXCEPT !.link.inTx = TRUE]
             [] OTHER -> s,
           CommandLen(s.link))
ApplyOne(s, osc) ==
  LET op == Head(s.link.rx).op  ns == Head(s.link.rx).ns IN
  Consumed(CASE op = "LOW" -> WithDelay(ApplyCb2(s, 0), osc, ns)
             [] op = "HIGH" -> WithDelay(ApplyCb2(s, 1), osc, ns)
             [] op = "DELAY" -> WithDelay(s, osc, ns)
             [] op = "RESET_ON" -> [s EXCEPT !.res = TRUE]
             [] op = "RESET_OFF" -> [s EXCEPT !.res = FALSE]
             [] op = "PING" -> Pong(s)
             [] op = "TX_START" -> [s EXCEPT !.link.inTx = TRUE]
             [] op = "TX_END" -> [s EXCEPT !.link.inTx = FALSE],
           CommandLen(s.link))

----
\* serial_link_poll

\* What there is, as far as the buffer has room; the end of the stream drops the client.
TryRecv(s) ==
  LET room == RX_BUF_SIZE - Len(s.link.rx)
      n == IF Len(s.peer.sent) < room THEN Len(s.peer.sent) ELSE room
  IN IF room > 0 /\ s.peer.sent = <<>> /\ s.peer.closed THEN [s EXCEPT !.link = DropClient(@)]
     ELSE [s EXCEPT !.link.rx = @ \o SubSeq(s.peer.sent, 1, n), !.peer.sent = SubSeq(@, n + 1, Len(@))]

RECURSIVE ApplyAll(_, _)
ApplyAll(s, osc) ==
  IF s.link.broken \/ s.link.rx = <<>> \/ Waits(s.link, osc) \/ CommandLen(s.link) = 0 THEN s
  ELSE IF CommandLen(s.link) < 0 THEN [s EXCEPT !.link = DropClient(@)]
  ELSE ApplyAll(ApplyOne(s, osc), osc)

\* connecting: a client waits to be accepted.
LinkPoll(s, osc, connecting) ==
  LET t == IF ~s.link.client /\ connecting THEN [s EXCEPT !.link = TryAccept(@)] ELSE s
  IN IF t.link.client THEN ApplyAll(TryRecv(t), osc) ELSE t

\* In a transmission time stands still once the last command's time is over and no byte
\* of a next one is there.
ShouldStall(link, osc) == link.client /\ link.inTx /\ ~Waits(link, osc) /\ link.rx = <<>>

\* Mutant: the link is polled between two batches only, as outside a transmission.
NeedsRepollNever(link, osc) == FALSE
NeedsRepoll(link, osc) == link.client /\ link.inTx /\ link.hasUnblock /\ osc >= link.unblock

=============================================================================
