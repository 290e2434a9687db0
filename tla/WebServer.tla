------------------------------ MODULE WebServer ------------------------------
(* The server of the --web modes, emulator/web_server.c: pages connect to  *)
(* it, send keys, and are sent what the board shows.  The emulator's one   *)
(* thread polls it between two batches, so nothing here may wait: what a   *)
(* page does not read piles up in its buffer, and the page is dropped when *)
(* that is full.  A connection is a stream of parts; a frame is its        *)
(* header, and the parts of its payload with its meaning in the last one.  *)
EXTENDS Machine, WebDisplay

CONSTANTS
  WEB_MAX_CLIENTS, CLIENT_INBUF_SIZE, CLIENT_OUTBUF_SIZE, EVENT_QUEUE_SIZE,
  AUDIO_RING_CAPACITY, AUDIO_FRAME,     \* the samples that wait for the pages, and that a frame has
  DISPLAY_BUDGET, DISPLAY_LEAST,        \* the most that a message of the display has, and the least worth one
  SNAPSHOT, FILE_SIZE,                  \* how long a snapshot is, and a file
  SOCKET_ROOM,                          \* what the network takes ahead of the reader
  WebColours,                           \* what the program draws with
  WebSetups                             \* the pages and the program: a set of records

\* A setup has the machine: michael has a display that the pages are sent, wendy2c a sound, and
\* none has both.  It has the script of each page, a sequence of requests and frames; how often
\* the program draws in a line, and in which columns, and sounds; how often the board is shown,
\* and how many batches may go by without (skips).  A number of -1 is no bound.
SetupType ==
  [machine : {"michael", "wendy2c"}, scripts : Seq(Seq([name : STRING, parts : Nat \ {0}])), columns : SUBSET DisplayColumns,
   draws : [DisplayLines -> Int], sounds : Int, shows : Int, skips : Nat]

\* At the least the answer to a handshake, and the hello behind it, fit into a client's buffer.
ASSUME WebAssumption ==
  /\ {WEB_MAX_CLIENTS, SOCKET_ROOM, FILE_SIZE, DISPLAY_BUDGET, DISPLAY_LEAST} \subseteq Nat
  /\ {CLIENT_INBUF_SIZE, AUDIO_RING_CAPACITY, AUDIO_FRAME, SNAPSHOT} \subseteq Nat \ {0}
  /\ EVENT_QUEUE_SIZE \in Nat /\ EVENT_QUEUE_SIZE >= 2
  /\ CLIENT_OUTBUF_SIZE \in Nat /\ CLIENT_OUTBUF_SIZE >= 3
  /\ WebColours \subseteq Pixel /\ WebSetups \subseteq SetupType

Places == 1 .. WEB_MAX_CLIENTS
Pages == DOMAIN host.setup.scripts
Least(a, b) == IF a < b THEN a ELSE b

FreeClient == [state |-> "free", page |-> 0, in |-> <<>>, asked |-> <<>>, out |-> <<>>, rateSent |-> FALSE, display |-> <<>>]

\* A page, and its connection: what is on the way, each way, and whether the server closed it.
NewPage == [at |-> "away", toServer |-> <<>>, toPage |-> <<>>, closed |-> FALSE, script |-> 0, part |-> 0,
            picture |-> ShadowForget.pixels, need |-> 0, torn |-> FALSE]

WebStarts ==
  \E setup \in WebSetups :
    Starts("web",
           [machine |-> setup.machine, memory |-> ShadowForget.pixels, clients |-> [c \in Places |-> FreeClient],
            events |-> <<>>, audio |-> 0, event |-> <<>>, broken |-> FALSE],
           [pages |-> [p \in DOMAIN setup.scripts |-> NewPage], at |-> "batch", skipped |-> 0, setup |-> setup])

----
\* A client: w is [server, pages]

Client(w, c) == w.server.clients[c]
Free(w, c) == Client(w, c).state = "free"
Page(w, c) == w.pages[Client(w, c).page]

\* close_client; a page that has left is forgotten.
Shut(page) == IF page.at = "gone" THEN [NewPage EXCEPT !.at = "gone"] ELSE [page EXCEPT !.closed = TRUE]
\* Mutant: the slot keeps the shadow of the page that had it.
CloseClientKeepsShadow(w, c) ==
  LET shut == IF Client(w, c).page = 0 THEN w ELSE [w EXCEPT !.pages[Client(w, c).page] = Shut(@)]
  IN [shut EXCEPT !.server.clients[c] = [FreeClient EXCEPT !.display = Client(w, c).display]]
CloseClient(w, c) ==
  LET shut == IF Client(w, c).page = 0 THEN w ELSE [w EXCEPT !.pages[Client(w, c).page] = Shut(@)]
  IN [shut EXCEPT !.server.clients[c] = FreeClient]

\* flush_outbuf: as much as the network takes; nobody is at the other end of a free slot.
FlushOutbuf(w, c) ==
  LET out == Client(w, c).out
      n == Least(SOCKET_ROOM - Len(Page(w, c).toPage), Len(out))
  IN CASE out = <<>> -> w
       [] out # <<>> /\ (Free(w, c) \/ Page(w, c).at = "gone") -> CloseClient(w, c)
       [] out # <<>> /\ ~(Free(w, c) \/ Page(w, c).at = "gone") ->
            [w EXCEPT !.server.clients[c].out = SubSeq(out, n + 1, Len(out)),
                      !.pages[Client(w, c).page].toPage = @ \o SubSeq(out, 1, n)]

\* queue_bytes: a page that is too slow is dropped, rather than sent a part.
QueueBytes(w, c, parts) ==
  IF Len(Client(w, c).out) + Len(parts) > CLIENT_OUTBUF_SIZE THEN CloseClient(w, c)
  ELSE [w EXCEPT !.server.clients[c].out = @ \o parts]

Payload(size, frame) == [i \in 1 .. size |-> IF i = size THEN frame ELSE <<"part">>]

\* ws_send_text and ws_send_binary: the header first, then the payload, whatever has become
\* of the client in between.
WsSend(w, c, size, frame) ==
  IF Client(w, c).state # "open" THEN w
  ELSE QueueBytes(QueueBytes(w, c, <<<<"header", size>>>>), c, Payload(size, frame))

----
\* What pages send

SendSimple(w, c) == QueueBytes(QueueBytes(w, c, <<<<"status">>>>), c, <<<<"body">>>>)
SendFile(w, c) ==
  LET headed == QueueBytes(w, c, <<<<"status">>>>)
  IN IF Len(Client(headed, c).out) + FILE_SIZE > CLIENT_OUTBUF_SIZE THEN SendSimple(headed, c)
     ELSE [headed EXCEPT !.server.clients[c].out = @ \o Payload(FILE_SIZE, <<"file">>)]

DoWsHandshake(w, c) ==
  LET answered == QueueBytes(w, c, <<<<"switching">>>>)
  IN WsSend([answered EXCEPT !.server.clients[c].state = "open"], c, 1, <<"hello">>)

\* The first request, or frame, in inbuf ends with the first last part there is.
FrameLength(in) == Min({i \in DOMAIN in : in[i].last})
HasFrame(in) == \E i \in DOMAIN in : in[i].last

\* try_complete_request and what follows it.  The blank line that ends a request is overwritten
\* when it is found and ends no other (EndTaken).  After a plain answer the connection is closed
\* only if the answer is out; the request stays, and the next blank line asks for it again.
EndTaken(in) == [in EXCEPT ![FrameLength(in)].last = FALSE]
AskedFor(w, c, asked, in) == [w EXCEPT !.server.clients[c].asked = asked, !.server.clients[c].in = EndTaken(in)]
Answered(w, c, asked) ==
  CASE asked[1] = "websocket" -> [DoWsHandshake(w, c) EXCEPT !.server.clients[c].in = <<>>]
    [] asked[1] = "file" -> AskedFor(SendFile(w, c), c, asked, Client(w, c).in)
    [] OTHER -> AskedFor(SendSimple(w, c), c, asked, Client(w, c).in)
OnceAnswered(w, c) == IF Client(w, c).state # "open" /\ Client(w, c).out = <<>> THEN CloseClient(w, c) ELSE w
Requested(w, c) ==
  LET in == Client(w, c).in
      done == HasFrame(in)
      asked == IF Client(w, c).asked = <<>> THEN <<in[1].name>> ELSE Client(w, c).asked
  IN IF done THEN OnceAnswered(FlushOutbuf(Answered(w, c, asked), c), c)
     ELSE IF Len(in) >= CLIENT_INBUF_SIZE - 1 THEN CloseClient(SendSimple(w, c), c) ELSE w

\* queue_event: the oldest is lost when the queue is full.
QueueEvent(w, event) ==
  [w EXCEPT !.server.events = Append(IF Len(@) = EVENT_QUEUE_SIZE - 1 THEN Tail(@) ELSE @, event)]

\* The first frame of inbuf is there up to its last part: one turn of ws_parse_frame and of
\* handle_text_msg.  What a text says is "keys", "button" or "reset", or nothing it knows.
WsFrame(w, c) ==
  LET name == Head(Client(w, c).in).name IN
  CASE name \in {"keys", "button", "reset"} -> QueueEvent(w, <<name, Client(w, c).page>>)
    [] name = "ping" -> QueueBytes(w, c, <<<<"pong">>>>)
    [] name \in {"pong", "text"} -> w
    [] OTHER -> CloseClient(w, c)       \* a close, and what is not allowed

\* The loop of read_from_client, once around.  A pong that does not fit closes the client, and
\* then the loop moves an inbuf that is empty by the frame's length: the process ends (broken).
NextFrame(w, c) ==
  LET in == Client(w, c).in
      n == FrameLength(in)
      after == WsFrame(w, c)
  IN IF Free(w, c) \/ w.server.broken \/ ~HasFrame(in) THEN w
     ELSE IF Client(after, c).state = "open" THEN [after EXCEPT !.server.clients[c].in = SubSeq(in, n + 1, Len(in))]
     ELSE IF Head(in).name = "ping" THEN [after EXCEPT !.server.broken = TRUE]
     ELSE after
FrameTurns(w, c) == Turns(LAMBDA v, k : NextFrame(v, c), w, Len(Client(w, c).in))
WsFrames(w, c) == FrameTurns(w, c)[Len(Client(w, c).in)]

\* read_from_client, for a client that select says is readable.
ReadFromClient(w, c) ==
  LET room == CLIENT_INBUF_SIZE - Len(Client(w, c).in)
      stream == Page(w, c).toServer
      n == Least(room, Len(stream))
      read == [w EXCEPT !.server.clients[c].in = @ \o SubSeq(stream, 1, n),
                        !.pages[Client(w, c).page].toServer = SubSeq(stream, n + 1, Len(stream))]
  IN CASE Free(w, c) \/ w.server.broken -> w
       [] OTHER ->
            IF stream = <<>> THEN IF Page(w, c).at = "gone" THEN CloseClient(w, c) ELSE w
            ELSE IF n <= 0 THEN CloseClient(w, c)
            ELSE IF Client(w, c).state = "open" THEN WsFrames(read, c)
            ELSE Requested(read, c)

----
\* The poll

\* try_accept: the lowest free slot; there is an answer, and no place, for one too many.
Accept(w, p) ==
  LET free == {c \in Places : Free(w, c)}
  IN IF w.pages[p].at # "connects" THEN w
     ELSE IF free = {} THEN [w EXCEPT !.pages[p].at = "here", !.pages[p].closed = TRUE, !.pages[p].toPage = <<<<"busy">>>>]
     ELSE [w EXCEPT !.pages[p].at = "here", !.server.clients[Min(free)] = [@ EXCEPT !.state = "http", !.page = p, !.in = <<>>, !.out = <<>>]]

AcceptTurns(w) == Turns(Accept, w, Len(w.pages))
ReadTurns(w) == Turns(ReadFromClient, w, WEB_MAX_CLIENTS)

\* web_server_poll; the event it returns is the batch's.
FlushPlace(w, c) == IF Free(w, c) THEN w ELSE FlushOutbuf(w, c)
FlushTurns(w) == Turns(FlushPlace, w, WEB_MAX_CLIENTS)
FlushClients(w) == IF w.server.broken THEN w ELSE FlushTurns(w)[WEB_MAX_CLIENTS]
ReturnEvent(w) ==
  CASE w.server.broken -> w
    [] ~w.server.broken /\ w.server.events = <<>> -> [w EXCEPT !.server.event = <<>>]
    [] OTHER -> [w EXCEPT !.server.event = Head(w.server.events), !.server.events = Tail(@)]
WebServerPoll(w) == ReturnEvent(FlushClients(ReadTurns(AcceptTurns(w)[Len(w.pages)])[WEB_MAX_CLIENTS]))

----
\* What pages are sent

Known(w, c, shadow) == [w EXCEPT !.server.clients[c].display = <<shadow>>]
\* The message is made in display_msg; what is beyond its end belongs to others (broken).
MessageWritten(w, e) == [w EXCEPT !.server.broken = @ \/ e.wrote > DISPLAY_BUDGET + WEB_DISPLAY_RECT_MAX]
SendRects(w, c, e) ==
  IF e.rects = <<>> THEN Known(w, c, e.shadow) ELSE WsSend(Known(w, c, e.shadow), c, e.size, <<"display", e.rects>>)

\* send_display: what the outbuf has room for, beside the rest and the largest rectangle.
SendDisplay(w, c, reserve) ==
  LET client == Client(w, c)
      shadow == IF client.display = <<>> THEN ShadowForget ELSE client.display[1]
      room == CLIENT_OUTBUF_SIZE - Len(client.out) - reserve - WEB_DISPLAY_RECT_MAX - 2
      budget == Least(room, DISPLAY_BUDGET)
      e == WebDisplayEncode(shadow, w.server.memory, budget)
  IN IF w.server.machine # "michael" THEN w
     ELSE IF budget < DISPLAY_LEAST THEN Known(w, c, shadow)
     ELSE SendRects(MessageWritten(w, e), c, e)

\* The rate of the samples, once, then the display, then the snapshot.
SendRate(w, c) ==
  IF w.server.machine # "wendy2c" \/ Client(w, c).rateSent THEN w
  ELSE [WsSend(w, c, 1, <<"rate">>) EXCEPT !.server.clients[c].rateSent = TRUE]
SendBoard(w, c) ==
  IF Client(w, c).state # "open" THEN w
  ELSE FlushOutbuf(WsSend(SendDisplay(SendRate(w, c), c, SNAPSHOT + 1), c, SNAPSHOT, <<"snapshot">>), c)

BoardTurns(w) == Turns(SendBoard, w, WEB_MAX_CLIENTS)
WebServerBroadcast(w) == BoardTurns(w)[WEB_MAX_CLIENTS]

\* web_server_flush_audio: frames of what waits, to every page; without one it is forgotten.
SendSamples(w, c, n) == IF Client(w, c).state = "open" THEN FlushOutbuf(WsSend(w, c, n, <<"audio">>), c) ELSE w
FrameToClients(w, n) == Turns(LAMBDA v, c : SendSamples(v, c, n), w, WEB_MAX_CLIENTS)
SendAudio(w) ==
  LET n == Least(w.server.audio, AUDIO_FRAME)
  IN IF w.server.audio = 0 THEN w ELSE [FrameToClients(w, n)[WEB_MAX_CLIENTS] EXCEPT !.server.audio = @ - n]
AudioTurns(w) == Turns(LAMBDA v, k : SendAudio(v), w, w.server.audio)
WebServerFlushAudio(w) ==
  IF \A c \in Places : Client(w, c).state # "open" THEN [w EXCEPT !.server.audio = 0]
  ELSE AudioTurns(w)[w.server.audio]

----
\* The emulator's loop

WebHere == [server |-> chips, pages |-> host.pages]
WebNow(w, at) == chips' = w.server /\ host' = [host EXCEPT !.pages = w.pages, !.at = at]
WebAt(at) == Runs("web") /\ host.at = at /\ ~chips.broken

\* How often something may still happen.
May(count) == count # 0
Less(count) == IF count > 0 THEN count - 1 ELSE count

\* A batch: the program may draw, and the tap may get a sample.
WebDraws ==
  /\ WebAt("batch") /\ chips.machine = "michael"
  /\ \E l \in DisplayLines, x \in host.setup.columns, v \in WebColours :
       /\ May(host.setup.draws[l]) /\ chips.memory[l][x] # v
       /\ chips' = [chips EXCEPT !.memory[l][x] = v]
       /\ host' = [host EXCEPT !.at = "poll", !.setup.draws[l] = Less(@)]

\* web_server_audio_tap: the oldest sample is lost when the ring is full.
WebSounds ==
  /\ WebAt("batch") /\ chips.machine = "wendy2c" /\ May(host.setup.sounds)
  /\ chips' = [chips EXCEPT !.audio = Least(@ + 1, AUDIO_RING_CAPACITY - 1)]
  /\ host' = [host EXCEPT !.at = "poll", !.setup.sounds = Less(@)]

WebRests == WebAt("batch") /\ host' = [host EXCEPT !.at = "poll"] /\ UNCHANGED chips

WebPolls == WebAt("poll") /\ \E w \in {WebServerPoll(WebHere)} : WebNow(w, "show")

\* Thirty times a second.
WebShows ==
  /\ WebAt("show") /\ May(host.setup.shows)
  /\ \E w \in {WebServerFlushAudio(WebServerBroadcast(WebHere))} :
       chips' = w.server /\ host' = [host EXCEPT !.pages = w.pages, !.at = "batch", !.skipped = 0, !.setup.shows = Less(@)]
WebTooSoon ==
  /\ WebAt("show") /\ (host.skipped < host.setup.skips \/ ~May(host.setup.shows))
  /\ host' = [host EXCEPT !.at = "batch", !.skipped = Least(@ + 1, host.setup.skips)]
  /\ UNCHANGED chips

WebBreaks == Exits("web") /\ chips.broken /\ UNCHANGED host

----
\* The pages: the server meets what they do at its next poll

PageHere(p) == WebAt("batch") /\ host.pages[p].at = "here" /\ UNCHANGED chips

PageConnects(p) ==
  /\ WebAt("batch") /\ UNCHANGED chips /\ host.pages[p].at = "away"
  /\ host' = [host EXCEPT !.pages[p].at = "connects"]

\* A part of what it has to send, in order.
PageSends(p) ==
  /\ PageHere(p)
  /\ LET page == host.pages[p]
         item == host.setup.scripts[p][page.script + 1]
         last == page.part + 1 = item.parts
         sent == [page EXCEPT !.toServer = Append(@, [name |-> item.name, last |-> last]),
                              !.script = IF last THEN @ + 1 ELSE @,
                              !.part = IF last THEN 0 ELSE @ + 1]
     IN page.script < Len(host.setup.scripts[p]) /\ host' = [host EXCEPT !.pages[p] = sent]

\* A part arrives: a header only between two frames, and the meaning in the last part.
PageTakes(page, part) ==
  CASE page.need = 0 /\ part[1] = "header" -> [page EXCEPT !.need = part[2]]
    [] page.need = 0 /\ part[1] # "header" -> [page EXCEPT !.torn = @ \/ part[1] \in {"part", "display", "snapshot", "audio"}]
    [] page.need = 1 -> [page EXCEPT !.need = 0, !.torn = @ \/ part[1] \in {"part", "header"},
                                     !.picture = IF part[1] = "display" THEN ApplyDisplay(@, part[2]) ELSE @]
    [] OTHER -> [page EXCEPT !.need = @ - 1, !.torn = @ \/ part[1] # "part"]

PartTurns(page, parts) == Turns(LAMBDA v, k : PageTakes(v, parts[k]), page, Len(parts))
AfterParts(page, parts) == PartTurns(page, parts)[Len(parts)]

PageReads(p) ==
  /\ PageHere(p) /\ host.pages[p].toPage # <<>>
  /\ host' = [host EXCEPT !.pages[p] = [AfterParts(@, @.toPage) EXCEPT !.toPage = <<>>]]

\* It leaves, or finds that the server has closed the connection.
PageLeaves(p) ==
  /\ PageHere(p)
  /\ host' = [host EXCEPT !.pages[p] = [(IF @.closed THEN NewPage ELSE @) EXCEPT !.at = "gone"]]

WebEmulates == WebDraws \/ WebSounds \/ WebRests \/ WebPolls \/ WebShows \/ WebTooSoon \/ WebBreaks
WebReads == machine = "web" /\ \E p \in Pages : PageReads(p)
WebPeople == WebReads \/ (machine = "web" /\ \E p \in Pages : PageConnects(p) \/ PageSends(p) \/ PageLeaves(p))
WebNext == WebStarts \/ WebEmulates \/ WebPeople

\* A process of these modes alone.
WebInit == machine = "none" /\ chips = <<>> /\ host = <<>>
WebSpec == WebInit /\ [][WebNext]_machineVars

----
\* Properties

OpenPage(p) == host.pages[p].at = "here" /\ \E c \in Places : chips.clients[c].page = p /\ chips.clients[c].state = "open"

\* The parts that are on their way to a client's page.
OnTheWay(c) == Page(WebHere, c).toPage \o chips.clients[c].out

\* What a page will show once it has read what was sent to it is what the server believes it
\* shows: a message that is lost, cut short or sent to the wrong page, or a shadow that
\* outlives its page, leaves a picture that nothing corrects.
PageShowsTheShadow ==
  machine = "web" =>
    \A c \in Places :
      (chips.clients[c].state = "open" /\ chips.clients[c].display # <<>>) =>
        LET page == AfterParts(Page(WebHere, c), OnTheWay(c))
            shadow == chips.clients[c].display[1]
        IN ~page.torn /\ page.need = 0 /\ \A l \in shadow.known : page.picture[l] = shadow.pixels[l]

\* web_display.h:33: WEB_DISPLAY_RECT_MAX is the most a rectangle can take.  The room that a
\* client's buffer is left, and display_msg's length, count on it.
RectanglesFit ==
  machine = "web" =>
    \A c \in Places : chips.clients[c].state = "open" =>
      LET way == OnTheWay(c)
          IsMessage(i, j) == way[i][1] = "display" /\ way[j][1] = "header" /\ j + way[j][2] = i
      IN \A i, j \in DOMAIN way : IsMessage(i, j) /\ Len(way[i][2]) = 1 => way[j][2] - 1 <= WEB_DISPLAY_RECT_MAX

\* The loop does not stop anywhere: each of its steps can be taken wherever the loop is, and
\* leaves it there, so that this is the weak fairness of all of them.
WebStays(at) == machine = "web" /\ ~chips.broken /\ host.at = at
WebGoesOn == []<>~WebStays("batch") /\ []<>~WebStays("poll") /\ []<>~WebStays("show")

\* A page keeps up: again and again it has read all that it was sent.
Behind(c) == chips.clients[c].state = "open" /\ Page(WebHere, c).at = "here" /\ OnTheWay(c) # <<>>
PagesKeepUp == []<>(machine # "web" \/ \A c \in Places : ~Behind(c))

\* A line that the program leaves alone is shown, in the end, by every page that stays and
\* reads, however often the program draws elsewhere: the messages, which are too short for
\* all that changes, may not begin with the same lines each time.
Settles(l) == May(host.setup.shows) /\ ~May(host.setup.draws[l])      \* within the bounds
PagesCatchUp ==
  \A l \in DisplayLines :
    <>[](machine = "web" /\ Settles(l) => \A p \in Pages : OpenPage(p) => host.pages[p].picture[l] = chips.memory[l])

=============================================================================
