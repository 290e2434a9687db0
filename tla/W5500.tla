------------------------------ MODULE W5500 -------------------------------
(* The W5500 network controller as an SPI device, emulator/chips/w5500.c,  *)
(* with the client on the network that a server program is run against,    *)
(* net_client.c: client is in the record that client's calls change.       *)
(* Memories are functions on the addresses that were written; the others   *)
(* hold 0.  And the GAL that makes port B an SPI master, gal_spi.c, with   *)
(* its shift register: a strobe of E starts a burst of eight pulses, and   *)
(* the byte that they bring stays on port B until E is low.                *)
EXTENDS Via6522, SequencesExt

CONSTANTS W5500_SOCKETS, W5500_BUFFER

W5500Sockets == 0 .. W5500_SOCKETS - 1

\* A socket's registers, and the states of Sn_SR.
SN_MR == 0
SN_CR == 1
SN_IR == 2
SN_SR == 3
SN_PORT == 4
SN_TX_FSR == 32
SN_TX_RD == 34
SN_TX_WR == 36
SN_RX_RSR == 38
SN_RX_RD == 40
SN_RX_WR == 42
IR_CON == 1
IR_DISCON == 2
IR_RECV == 4
IR_SEND_OK == 16
SOCK_CLOSED == 0
SOCK_INIT == 19
SOCK_LISTEN == 20
SOCK_ESTABLISHED == 23
SOCK_CLOSE_WAIT == 28
VERSIONR == 57

Cell(memory, at) == IF at \in DOMAIN memory THEN memory[at] ELSE 0
Written(memory, at, b) == (at :> b) @@ memory
Get16(memory, at) == 256 * Cell(memory, at) + Cell(memory, at + 1)
Put16(memory, at, word) == Written(Written(memory, at, HighByte(word % 65536)), at + 1, LowByte(word))

CommonReset == (25 :> 7) @@ (26 :> 208) @@ (27 :> 8) @@ (46 :> 191) @@ (VERSIONR :> 4)
SocketReset == [k \in 6 .. 11 |-> 255] @@ (22 :> 128) @@ (30 :> 2) @@ (31 :> 2) @@ (32 :> 8) @@ (45 :> 64)

\* No client: nobody connects, or hears of anything.
NoClient == [on |-> FALSE, port |-> 0, request |-> <<>>, connections |-> 0, idle |-> 0, latency |-> 0,
             socket |-> -1, wait |-> 0, sent |-> 0, made |-> 0, closed |-> 0, response |-> <<>>,
             idleSockets |-> <<>>, idleClosed |-> 0]

\* At most as many idle connections as there are sockets.
NetClientInit(port, request, connections, idle, latency) ==
  [NoClient EXCEPT !.on = TRUE, !.port = port, !.request = request, !.connections = connections,
                   !.idle = IF idle < W5500_SOCKETS THEN idle ELSE W5500_SOCKETS, !.latency = latency]

ResetRegisters(w) == [w EXCEPT !.common = CommonReset, !.socket = [n \in W5500Sockets |-> SocketReset]]

\* The next byte is a frame's first; MISO counts the header's bytes.
EndFrame(w) == [w EXCEPT !.phase = 0, !.bits = 0, !.out = 1]

\* csPin is of port A, or 0: then the FPGA drives the chip select.
W5500Init(csPin, csDelay, client) ==
  EndFrame(ResetRegisters(
    [csPin |-> csPin, csDelay |-> csDelay, selected |-> FALSE, pinSelected |-> FALSE, pinTicks |-> 0,
     in |-> 0, out |-> 0, bits |-> 0, phase |-> 0, addr |-> 0, control |-> 0, dataLeft |-> 0,
     common |-> <<>>, socket |-> <<>>, tx |-> [n \in W5500Sockets |-> <<>>], rx |-> [n \in W5500Sockets |-> <<>>],
     client |-> client]))

W5500ResetLine(w) == ResetRegisters(EndFrame(w))

----
\* The client's callbacks

\* receive: what the server sends to the connection.
ClientReceives(client, n, data) ==
  IF client.on /\ n = client.socket THEN [client EXCEPT !.response = @ \o data] ELSE client

\* closed: the server's end of an idle connection, or of the connection.
ClientClosed(client, n) ==
  LET idle == {k \in DOMAIN client.idleSockets : client.idleSockets[k] = n}
      k == CHOOSE k \in idle : \A j \in idle : k <= j
  IN CASE client.on /\ idle # {} -> [client EXCEPT !.idleSockets[k] = -1, !.idleClosed = @ + 1]
       [] client.on /\ idle = {} /\ n = client.socket -> [client EXCEPT !.socket = -1, !.closed = @ + 1]
       [] OTHER -> client

----
\* The sockets

Connected(w, n) == Cell(w.socket[n], SN_SR) \in {SOCK_ESTABLISHED, SOCK_CLOSE_WAIT}

\* reg is a register of two bytes.
SetReg(w, n, reg, b) == [w EXCEPT !.socket[n] = Written(@, reg, b)]
SetReg16(w, n, reg, word) == [w EXCEPT !.socket[n] = Put16(@, reg, word)]
Reg16(w, n, reg) == Get16(w.socket[n], reg)
RaiseIr(w, n, bit) == SetReg(w, n, SN_IR, OrByte(Cell(w.socket[n], SN_IR), bit))

UpdateFree(w, n) ==
  SetReg16(w, n, SN_TX_FSR, W5500_BUFFER - ((Reg16(w, n, SN_TX_WR) - Reg16(w, n, SN_TX_RD)) % 65536))

CloseSocket(w, n) ==
  SetReg(IF Connected(w, n) THEN [w EXCEPT !.client = ClientClosed(@, n)] ELSE w, n, SN_SR, SOCK_CLOSED)

\* Of the TX buffer what lies between its two pointers, at most all of it.
SendData(w, n) ==
  LET rd == Reg16(w, n, SN_TX_RD)
      wr == Reg16(w, n, SN_TX_WR)
      len == IF (wr - rd) % 65536 > W5500_BUFFER THEN W5500_BUFFER ELSE (wr - rd) % 65536
      data == [k \in 1 .. len |-> Cell(w.tx[n], (rd + k - 1) % W5500_BUFFER)]
      told == [w EXCEPT !.client = ClientReceives(@, n, data)]
  IN RaiseIr(SetReg16(told, n, SN_TX_RD, wr), n, IR_SEND_OK)

\* OPEN, LISTEN, DISCON, CLOSE, SEND and RECV; each acts at once.
SocketCommand(w, n, cmd) ==
  LET state == Cell(w.socket[n], SN_SR)
      opened == SetReg(CloseSocket(w, n), n, SN_SR, SOCK_INIT)
      emptied == SetReg16(SetReg16(opened, n, SN_TX_RD, Reg16(w, n, SN_TX_WR)), n, SN_RX_WR, Reg16(w, n, SN_RX_RD))
      acted ==
        CASE cmd = 1 /\ Cell(w.socket[n], SN_MR) % 16 = 1 -> SetReg16(emptied, n, SN_RX_RSR, 0)
          [] cmd = 2 /\ state = SOCK_INIT -> SetReg(w, n, SN_SR, SOCK_LISTEN)
          [] cmd = 8 -> CloseSocket(IF Connected(w, n) THEN RaiseIr(w, n, IR_DISCON) ELSE w, n)
          [] cmd = 16 -> CloseSocket(w, n)
          [] cmd = 32 /\ Connected(w, n) -> SendData(w, n)
          [] cmd = 64 -> SetReg16(w, n, SN_RX_RSR, (Reg16(w, n, SN_RX_WR) - Reg16(w, n, SN_RX_RD)) % 65536)
          [] OTHER -> w
  IN UpdateFree(acted, n)

\* Sn_CR acts, Sn_IR's ones clear, and what the chip keeps cannot be written.
WriteSocket(w, n, reg, b) ==
  CASE reg = SN_CR -> SocketCommand(w, n, b)
    [] reg = SN_IR -> SetReg(w, n, SN_IR, AndByte(Cell(w.socket[n], SN_IR), Inverted(b)))
    [] reg \in {SN_SR, SN_TX_FSR, SN_TX_FSR + 1, SN_TX_RD, SN_TX_RD + 1, SN_RX_RSR, SN_RX_RSR + 1,
                SN_RX_WR, SN_RX_WR + 1} -> w
    [] OTHER -> UpdateFree(SetReg(w, n, reg, b), n)

----
\* The SPI device

\* The control byte's block: the common registers, or of a socket the registers or a buffer.
Block(w) ==
  LET bsb == w.control \div 8
      n == (bsb - 1) \div 4
      kind == <<"registers", "tx", "rx", "none">>[((bsb - 1) % 4) + 1]
      size == IF bsb = 0 THEN 64 ELSE 48
  IN CASE bsb = 0 -> [kind |-> IF w.addr < size THEN "common" ELSE "none", socket |-> 0]
       [] bsb > 0 /\ n \notin W5500Sockets -> [kind |-> "none", socket |-> 0]
       [] bsb > 0 /\ n \in W5500Sockets ->
            [kind |-> IF kind = "registers" /\ w.addr >= size THEN "none" ELSE kind, socket |-> n]

ReadCell(w) ==
  LET b == Block(w) IN
  CASE b.kind = "common" -> Cell(w.common, w.addr)
    [] b.kind = "registers" -> Cell(w.socket[b.socket], w.addr)
    [] b.kind = "tx" -> Cell(w.tx[b.socket], w.addr % W5500_BUFFER)
    [] b.kind = "rx" -> Cell(w.rx[b.socket], w.addr % W5500_BUFFER)
    [] b.kind = "none" -> 0

\* MR's top bit resets the chip.
WriteCell(w, byte) ==
  LET b == Block(w) IN
  CASE b.kind = "common" /\ w.addr = 0 /\ byte >= 128 -> ResetRegisters(w)
    [] b.kind = "common" /\ ~(w.addr = 0 /\ byte >= 128) ->
         IF w.addr = VERSIONR THEN w ELSE [w EXCEPT !.common = Written(@, w.addr, byte)]
    [] b.kind = "registers" -> WriteSocket(w, b.socket, w.addr, byte)
    [] b.kind = "tx" -> [w EXCEPT !.tx[b.socket] = Written(@, w.addr % W5500_BUFFER, byte)]
    [] b.kind = "rx" -> [w EXCEPT !.rx[b.socket] = Written(@, w.addr % W5500_BUFFER, byte)]
    [] b.kind = "none" -> w

\* A byte of the data, which may be the last; put is the chip with it.
DataDone(w, put) ==
  LET next == [put EXCEPT !.addr = (@ + 1) % 65536, !.dataLeft = IF @ > 0 THEN @ - 1 ELSE 0]
  IN IF w.dataLeft = 1 THEN EndFrame(next)
     ELSE IF HasBit(w.control, 4) THEN next
     ELSE [next EXCEPT !.out = ReadCell(next)]

\* A frame: the address's two bytes, the control byte, data; of a fixed length it ends itself.
ByteDone(w, b) ==
  LET header == [w EXCEPT !.control = b, !.dataLeft = <<0, 1, 2, 4>>[(b % 4) + 1], !.phase = 3]
  IN CASE w.phase = 0 -> [w EXCEPT !.addr = 256 * b, !.phase = 1, !.out = 2]
       [] w.phase = 1 -> [w EXCEPT !.addr = @ + b, !.phase = 2, !.out = 3]
       [] w.phase = 2 -> [header EXCEPT !.out = IF HasBit(b, 4) THEN 0 ELSE ReadCell(header)]
       [] w.phase = 3 -> DataDone(w, IF HasBit(w.control, 4) THEN WriteCell(w, b) ELSE w)

\* w5500_pulse: a bit each way.  Deselected, MISO is pulled up.
Shifts(w, mosi) ==
  LET shifted == [w EXCEPT !.out = LowByte(2 * @), !.in = LowByte(2 * @ + mosi), !.bits = @ + 1]
  IN IF shifted.bits = 8 THEN ByteDone([shifted EXCEPT !.bits = 0], shifted.in) ELSE shifted
W5500Pulse(w, mosi) ==
  IF w.selected THEN [miso |-> BitOf(w.out, 7), device |-> Shifts(w, mosi)] ELSE [miso |-> 1, device |-> w]

\* spi_byte
WithBit(s, pulse) == [in |-> LowByte(2 * s.in + pulse.miso), device |-> pulse.device]
SpiByte(device, b) ==
  FoldLeft(LAMBDA s, k : WithBit(s, W5500Pulse(s.device, BitOf(b, 8 - k))), [in |-> 0, device |-> device],
           <<1, 2, 3, 4, 5, 6, 7, 8>>)

W5500Select(w, selected) ==
  [(IF w.selected /\ ~selected THEN EndFrame(w) ELSE w) EXCEPT !.selected = selected]

\* w5500_cs_glitch: a frame under way starts again.
CsGlitch(w) == IF w.selected THEN EndFrame(w) ELSE w

\* The chip select follows its pin once that has held a level for csDelay ticks.
W5500Tick(w, via) ==
  LET pin == HasBit(via.ddra, w.csPin) /\ ~HasBit(PortAPins(via), w.csPin)
      turned == pin # w.pinSelected
      ticks == IF turned THEN 0 ELSE IF w.pinTicks < w.csDelay THEN w.pinTicks + 1 ELSE w.pinTicks
      watched == [w EXCEPT !.pinSelected = pin, !.pinTicks = ticks]
  IN IF w.csPin = 0 THEN w
     ELSE IF ticks >= w.csDelay THEN W5500Select(watched, pin) ELSE watched

----
\* The network's side

ListeningOn(w, port) ==
  {n \in W5500Sockets : Cell(w.socket[n], SN_SR) = SOCK_LISTEN /\ Reg16(w, n, SN_PORT) = port}

\* w5500_peer_connect: the first socket that listens on the port; it is the caller's if there is one.
PeerConnect(w, n) == RaiseIr(SetReg(w, n, SN_SR, SOCK_ESTABLISHED), n, IR_CON)

\* w5500_peer_send: as many bytes as the RX buffer has room for.
PeerRoom(w, n, data) ==
  IF Cell(w.socket[n], SN_SR) # SOCK_ESTABLISHED THEN 0
  ELSE LET room == W5500_BUFFER - Reg16(w, n, SN_RX_RSR) IN IF Len(data) > room THEN room ELSE Len(data)

PeerSend(w, n, data) ==
  LET len == PeerRoom(w, n, data)
      wr == Reg16(w, n, SN_RX_WR)
      Put(memory, k) == Written(memory, (wr + k - 1) % W5500_BUFFER, data[k])
      put == [w EXCEPT !.rx[n] = FoldLeft(Put, @, [k \in 1 .. len |-> k])]
      counted == SetReg16(SetReg16(put, n, SN_RX_WR, wr + len), n, SN_RX_RSR, Reg16(w, n, SN_RX_RSR) + len)
  IN IF len = 0 THEN w ELSE RaiseIr(counted, n, IR_RECV)

\* net_client_tick: first the idle connections; then a connection at a time, and its request
\* when the latency is over, in as many pieces as it takes.
ClientConnects(w) ==
  LET c == w.client
      free == ListeningOn(w, c.port)
      n == CHOOSE n \in free : \A k \in free : n <= k
      idle == Len(c.idleSockets) < c.idle
      connected == PeerConnect(w, n)
  IN CASE free = {} \/ (~idle /\ c.made = c.connections) -> w
       [] free # {} /\ idle -> [connected EXCEPT !.client.idleSockets = Append(@, n)]
       [] OTHER -> [connected EXCEPT !.client.socket = n, !.client.made = @ + 1, !.client.wait = c.latency,
                                     !.client.sent = 0]

ClientSends(w) ==
  LET c == w.client
      data == SubSeq(c.request, c.sent + 1, Len(c.request))
  IN IF data = <<>> THEN w
     ELSE [PeerSend(w, c.socket, data) EXCEPT !.client.sent = @ + PeerRoom(w, c.socket, data)]

NetClientTick(w) ==
  LET c == w.client
      waited == [w EXCEPT !.client.wait = IF @ > 0 THEN @ - 1 ELSE 0]
  IN CASE ~c.on -> w
       [] c.on /\ (Len(c.idleSockets) < c.idle \/ c.socket = -1) -> ClientConnects(w)
       [] OTHER -> IF waited.client.wait > 0 THEN waited ELSE ClientSends(waited)

----
\* The GAL

GAL_E == 4

GalSpiInit == [on |-> FALSE, brst |-> FALSE, output |-> FALSE, count |-> 0, misor |-> 0, sr |-> 0]

GalReset(gal) == [gal EXCEPT !.brst = FALSE, !.output = FALSE, !.count = 0, !.misor = 0]

GalPulse(gal, pulse) == [gal |-> [gal EXCEPT !.misor = pulse.miso], device |-> pulse.device]

\* A cycle: the registers all see what they were before it; then the pulse of the burst.
GalSpiTick(gal, device, via, portB) ==
  LET e == HasBit(via.ddra, GAL_E) /\ HasBit(PortAPins(via), GAL_E)
      last == gal.brst /\ gal.count = 7
      sr == CASE gal.output -> gal.sr
              [] ~gal.output /\ gal.brst -> LowByte(2 * gal.sr + gal.misor)
              [] ~gal.output /\ ~gal.brst -> PortBPins(via, portB)
      stepped == [gal EXCEPT !.sr = sr, !.count = IF gal.brst THEN (@ + 1) % 8 ELSE 0,
                             !.brst = (e /\ ~gal.output /\ gal.count = 0) \/ (gal.brst /\ ~last),
                             !.output = e /\ (gal.output \/ last)]
  IN IF stepped.brst THEN GalPulse(stepped, W5500Pulse(device, BitOf(sr, 7))) ELSE [gal |-> stepped, device |-> device]

GalSpiDrives(gal) == gal.on /\ gal.output

=============================================================================
