----------------------------- MODULE WebDisplay -----------------------------
(* The graphic display's pixels on their way to a page: the messages of    *)
(* emulator/web_display.c, made from what a shadow says the page does not  *)
(* have, and their decoder, applyDisplay of emulator/web/board.js.         *)
EXTENDS Integers, Sequences, SequencesExt, Ili9341

CONSTANT WEB_DISPLAY_BAND

ASSUME DisplayAssumption == ILI9341_LINES \in Nat \ {0} /\ ILI9341_WIDTH \in Nat \ {0} /\ WEB_DISPLAY_BAND \in Nat \ {0}

Pixel == 0 .. 65535
DisplayLines == 0 .. ILI9341_LINES - 1
DisplayColumns == 0 .. ILI9341_WIDTH - 1
Black == 0
White == 65535
WEB_DISPLAY_RECT_MAX == 5 + 3 + 2 * WEB_DISPLAY_BAND * ILI9341_WIDTH

ShadowForget == [pixels |-> [l \in DisplayLines |-> [x \in DisplayColumns |-> Black]], known |-> {}, nextLine |-> 0]

\* A loop: what start has become after so many of n turns of Op, the first with 1.
Turns(Op(_, _), start, n) == LET after[k \in 0 .. n] == IF k = 0 THEN start ELSE Op(after[k - 1], k) IN after

----
\* Runs

\* The remembered colours after v was a run; the second is given up, or changes places.
Remember(colours, v) == IF v = colours[1] THEN colours ELSE <<v, colours[1]>>

\* How many pixels from i on are the same.
RunLength(px, i) == Min({n \in 1 .. Len(px) - i + 1 : i + n > Len(px) \/ px[i + n] # px[i]})

\* Alone: the next pixel differs, and it is not remembered.
Lone(px, colours, i) == (i = Len(px) \/ px[i + 1] # px[i]) /\ px[i] \notin {colours[1], colours[2]}

\* put_run, and the colours behind it, into the message.
PutRun(w, run) ==
  [w EXCEPT !.runs = Append(@, run), !.size = @ + (IF run.n < 64 THEN 1 ELSE 3) + 2 * Len(run.px)]

\* put_literal: the pixels before i that wait go as themselves.
PutLiteral(w, px, i) ==
  IF w.literal = 0 THEN w
  ELSE PutRun([w EXCEPT !.literal = 0], [kind |-> "literal", n |-> w.literal, px |-> SubSeq(px, i - w.literal, i - 1)])

PutColour(w, px, i) ==
  LET v == px[i]
      kind == IF v = w.colours[1] THEN "first" ELSE IF v = w.colours[2] THEN "second" ELSE "colour"
      put == PutRun(w, [kind |-> kind, n |-> RunLength(px, i), px |-> IF kind = "colour" THEN <<v>> ELSE <<>>])
  IN [put EXCEPT !.colours = Remember(@, v), !.next = i + RunLength(px, i)]

\* Pixel i, unless it went with a run before it.
PutPixel(w, px, i) ==
  IF i < w.next THEN w
  ELSE IF Lone(px, w.colours, i) /\ (w.literal > 0 \/ (i < Len(px) /\ Lone(px, w.colours, i + 1)))
    THEN [w EXCEPT !.literal = @ + 1, !.next = i + 1]
  ELSE PutColour(PutLiteral(w, px, i), px, i)

\* put_pixels: the runs, their bytes and the colours that are remembered after them.
PutTurns(px, colours) ==
  Turns(LAMBDA w, i : PutPixel(w, px, i), [runs |-> <<>>, size |-> 0, colours |-> colours, literal |-> 0, next |-> 1], Len(px))
PutPixels(px, colours) == PutLiteral(PutTurns(px, colours)[Len(px)], px, Len(px) + 1)

----
\* The encoder

\* The columns where a line differs from what the page has of it; none, all, or from the
\* first to the last.
Changed(s, memory, l) ==
  IF l \notin s.known THEN DisplayColumns
  ELSE LET differ == {x \in DisplayColumns : memory[l][x] # s.pixels[l][x]}
       IN {x \in DisplayColumns : (\E a \in differ : a <= x) /\ (\E b \in differ : x <= b)}

\* put_rect: the pixels of some lines, from column x0 to x1, in a run after the other.
RectPixels(memory, band, x0, x1) ==
  LET width == x1 - x0 + 1
  IN [i \in 1 .. width * Len(band) |-> memory[band[1] + ((i - 1) \div width)][x0 + ((i - 1) % width)]]

\* shadow_rect: the page has it.
ShadowRect(s, memory, band, x0, x1) ==
  LET rows == {band[i] : i \in DOMAIN band}
  IN [s EXCEPT !.pixels = [l \in DisplayLines |-> [x \in DisplayColumns |->
                             IF l \in rows /\ x \in x0 .. x1 THEN memory[l][x] ELSE s.pixels[l][x]]],
               !.known = @ \cup rows]

\* The band that is gathered goes into the message, or, over the budget, starts the next one;
\* its bytes are written before that is known.
PutBand(e, memory, budget) ==
  LET x0 == Min(e.columns)
      x1 == Max(e.columns)
      put == PutPixels(RectPixels(memory, e.band, x0, x1), e.msg.colours)
      size == e.msg.size + 5 + put.size
      rect == [line |-> e.band[1], x |-> x0, width |-> x1 - x0 + 1, height |-> Len(e.band), runs |-> put.runs]
  IN IF e.band = <<>> THEN e
     ELSE IF size > budget /\ e.msg.size > 1 THEN [e EXCEPT !.full = TRUE, !.wrote = size, !.shadow.nextLine = e.band[1]]
     ELSE [e EXCEPT !.wrote = size, !.shadow = ShadowRect(@, memory, e.band, x0, x1),
                    !.msg = [size |-> size, colours |-> put.colours, rects |-> Append(@.rects, rect)]]

\* One line on the way around the memory: it joins the band, or the band ends before it.
EncodeLine(e, memory, budget, l) ==
  LET columns == Changed(e.shadow, memory, l)
      joins == columns # {} /\ e.band # <<>> /\ l = e.band[Len(e.band)] + 1 /\ Len(e.band) < WEB_DISPLAY_BAND
      put == PutBand(e, memory, budget)
  IN IF e.full THEN e
     ELSE IF joins THEN [e EXCEPT !.band = Append(@, l), !.columns = @ \cup columns]
     ELSE [put EXCEPT !.band = IF columns = {} THEN <<>> ELSE <<l>>, !.columns = columns]

LastBand(e, memory, budget) == IF e.full THEN e ELSE PutBand(e, memory, budget)
NewMessage(s) ==
  [shadow |-> s, band |-> <<>>, columns |-> {}, full |-> FALSE, wrote |-> 1,
   msg |-> [size |-> 1, colours |-> <<Black, White>>, rects |-> <<>>]]
Message(e) == [shadow |-> e.shadow, size |-> e.msg.size, rects |-> e.msg.rects, wrote |-> e.wrote]

\* web_display_encode, from a line on: the shadow after it, and the message, of one byte if
\* there is nothing.
LineTurns(s, memory, budget, first) ==
  Turns(LAMBDA e, i : EncodeLine(e, memory, budget, (first + i - 1) % ILI9341_LINES), NewMessage(s), ILI9341_LINES)
EncodeFrom(s, memory, budget, first) ==
  Message(LastBand(LineTurns(s, memory, budget, first)[ILI9341_LINES], memory, budget))

\* Mutant: every message begins with the first line.
WebDisplayEncodeFromTop(s, memory, budget) == EncodeFrom(s, memory, budget, 0)
WebDisplayEncode(s, memory, budget) == EncodeFrom(s, memory, budget, s.nextLine)

----
\* The page

\* What a run does to the decoder: d has the colours, and the pixels so far.
DecodeRun(d, run) ==
  LET v == CASE run.kind = "colour" -> run.px[1] [] run.kind = "second" -> d.colours[2] [] OTHER -> d.colours[1]
  IN IF run.kind = "literal" THEN [d EXCEPT !.px = @ \o run.px]
     ELSE [px |-> d.px \o [i \in 1 .. run.n |-> v], colours |-> IF run.kind = "first" THEN d.colours ELSE <<v, d.colours[1]>>]
RunTurns(colours, runs) == Turns(LAMBDA d, k : DecodeRun(d, runs[k]), [px |-> <<>>, colours |-> colours], Len(runs))

\* The pixels of a rectangle, row by row, as many as there are.
DecodeRect(d, rect) ==
  LET r == RunTurns(d.colours, rect.runs)[Len(rect.runs)]
      At(l, x) == (l - rect.line) * rect.width + (x - rect.x) + 1
      In(l, x) == l \in rect.line .. rect.line + rect.height - 1 /\ x \in rect.x .. rect.x + rect.width - 1
  IN [colours |-> r.colours,
      picture |-> [l \in DisplayLines |-> [x \in DisplayColumns |->
                     IF In(l, x) /\ At(l, x) <= Len(r.px) THEN r.px[At(l, x)] ELSE d.picture[l][x]]]]
RectTurns(picture, rects) ==
  Turns(LAMBDA d, k : DecodeRect(d, rects[k]), [colours |-> <<Black, White>>, picture |-> picture], Len(rects))

\* applyDisplay: the picture after a message.
ApplyDisplay(picture, rects) == RectTurns(picture, rects)[Len(rects)].picture

=============================================================================
