----------------------------- MODULE Ps2Board -----------------------------
(* Michael's keyboard.  What a keyboard sends, as scan codes, for a key    *)
(* that was typed at the terminal: emulator/ps2_keys.c; a character is its *)
(* code.                                                                   *)
(* And the keyboard board with a keyboard plugged in, at the level of      *)
(* frames, emulator/chips/ps2_keyboard_board.c: a frame lies on the wire   *)
(* from start to end; times are ticks of the oscillator.                   *)
EXTENDS Via6522, Sequences, SequencesExt, FiniteSetsExt

CONSTANTS
  PS2_QUEUE_SIZE, MICHAEL_TICKS_PER_US,
  PS2_BIT_US, DETECT_IDLE_US, START_DELAY_US, REPLY_DELAY_US, BYTE_GAP_US, KEY_QUIET_US, KEY_INTERVAL_US

PS2_SHIFT == 18
PS2_CTRL == 20
PS2_ALT == 17
PS2_RELEASE == 240
PS2_PREFIX == 224
Esc == 27

\* The main keys: their scan codes, and their characters without shift and with it.
MainKeyCode == <<28, 50, 33, 35, 36, 43, 52, 51, 67, 59, 66, 75, 58, 49, 68, 77, 21, 45, 27, 44, 60, 42, 29, 34,
                 53, 26, 22, 30, 38, 37, 46, 54, 61, 62, 70, 69, 14, 78, 85, 84, 91, 93, 76, 82, 65, 73, 74, 41>>
MainKeyPlain == [k \in 1 .. 26 |-> 96 + k] \o [k \in 1 .. 9 |-> 48 + k]
                \o <<48, 96, 45, 61, 91, 93, 92, 59, 39, 44, 46, 47, 32>>
MainKeyShifted == [k \in 1 .. 26 |-> 64 + k]
                  \o <<33, 64, 35, 36, 37, 94, 38, 42, 40, 41, 126, 95, 43, 123, 125, 124, 58, 34, 60, 62, 63, 32>>

\* The keys with a prefix: by the last letter of ESC [ and ESC O, and by the digit of ESC [ digit ~.
LetterKey == (65 :> 117) @@ (66 :> 114) @@ (67 :> 116) @@ (68 :> 107) @@ (72 :> 108) @@ (70 :> 105)
TildeKey == <<108, 112, 113, 105, 125, 122, 108, 105>>

Key(code, extended, modifier) == [code |-> code, extended |-> extended, modifier |-> modifier]

\* The sequences behind an ESC, and what they stand for.  None is the start of another.
Ps2Sequences ==
  {[seq |-> <<lead, letter>>, key |-> Key(LetterKey[letter], TRUE, 0)] : lead \in {91, 79}, letter \in DOMAIN LetterKey}
  \cup {[seq |-> <<91, 48 + k, 126>>, key |-> Key(TildeKey[k], TRUE, 0)] : k \in DOMAIN TildeKey}
  \cup {[seq |-> <<91, 49, 59, 53, letter>>, key |-> Key(LetterKey[letter], TRUE, PS2_CTRL)] : letter \in {67, 68}}

\* A key goes down and up, with its modifier held around it.
Ps2Press(key) ==
  LET prefix == IF key.extended THEN <<PS2_PREFIX>> ELSE <<>>
      Held(codes) == IF key.modifier = 0 THEN codes
                     ELSE <<key.modifier>> \o codes \o <<PS2_RELEASE, key.modifier>>
  IN Held(prefix \o <<key.code>> \o prefix \o <<PS2_RELEASE, key.code>>)

Encoded(used, codes) == [used |-> used, codes |-> codes]

\* The key of a character that is no ESC; nothing for one that no key has.
CharacterKeys(c) ==
  LET Of(table) == {k \in DOMAIN table : table[k] = c} IN
  CASE c \in {13, 10} -> <<Key(90, FALSE, 0)>>
    [] c \in {8, 127} -> <<Key(102, FALSE, 0)>>
    [] c = 9 -> <<Key(13, FALSE, 0)>>
    [] c \in (1 .. 26) \ {8, 9, 10, 13} -> <<Key(MainKeyCode[c], FALSE, PS2_CTRL)>>
    [] Of(MainKeyPlain) # {} -> <<Key(MainKeyCode[Min(Of(MainKeyPlain))], FALSE, 0)>>
    [] Of(MainKeyPlain) = {} /\ Of(MainKeyShifted) # {} ->
         <<Key(MainKeyCode[Min(Of(MainKeyShifted))], FALSE, PS2_SHIFT)>>
    [] OTHER -> <<>>

CharacterCodes(c) == FlattenSeq([k \in DOMAIN CharacterKeys(c) |-> Ps2Press(CharacterKeys(c)[k])])

\* alt_key: ESC [ code ; 3 u, the printable character that has the code, with Alt held.
AltRun(text) ==
  LET digits == {k \in 3 .. Len(text) : \A j \in 3 .. k : text[j] \in 48 .. 57} IN IF digits = {} THEN 2 ELSE Max(digits)
AltCode(text) == FoldLeft(LAMBDA n, d : IF n < 256 THEN 10 * n + d - 48 ELSE n, 0, SubSeq(text, 3, AltRun(text)))
IsAltKey(text) ==
  /\ Len(text) >= 2 /\ text[2] = 91 /\ AltCode(text) \in 32 .. 126
  /\ SubSeq(text, AltRun(text) + 1, AltRun(text) + 3) = <<59, 51, 117>>

\* ps2_encode_key: the text's first key.  How much of the text it takes, and its codes.
EncodeKey(text) ==
  LET known == {s \in Ps2Sequences : IsPrefix(s.seq, Tail(text))}
      sequence == CHOOSE s \in known : TRUE
  IN CASE text[1] # Esc -> Encoded(1, CharacterCodes(text[1]))
       [] text[1] = Esc /\ IsAltKey(text) ->
            Encoded(AltRun(text) + 3, <<PS2_ALT>> \o CharacterCodes(AltCode(text)) \o <<PS2_RELEASE, PS2_ALT>>)
       [] text[1] = Esc /\ ~IsAltKey(text) /\ known # {} ->
            Encoded(Len(sequence.seq) + 1, Ps2Press(sequence.key))
       [] OTHER -> Encoded(1, Ps2Press(Key(118, FALSE, 0)))

----
\* The board

HOST_FRAME_BITS == 12
DEVICE_FRAME_BITS == 11
SCAN_CODE_SET == 2
PS2_SOLB == 8
PS2_SOEB == 16
PS2_START == 32

Us(n) == n * MICHAEL_TICKS_PER_US

NoFrame == [on |-> FALSE, fromHost |-> FALSE, byte |-> 0, last |-> FALSE, start |-> 0, end |-> 0]

Ps2BoardStart(fault) ==
  [fault |-> fault, shiftRegister |-> 0, prevSolbLow |-> FALSE, ca2 |-> 1, frame |-> NoFrame, detectorUntil |-> 0,
   replies |-> <<>>, keys |-> <<>>, nextSend |-> 0, keysAfter |-> 0, keyInterval |-> KEY_INTERVAL_US,
   awaiting |-> 0, commands |-> 0]

\* A pin is low only while the VIA drives it low.
DrivenLow(via, pin) == HasBit(via.ddra, pin) /\ ~HasBit(PortAPins(via), pin)

\* A frame's byte, and whether it is the last of its key's.
Framed(byte, last) == [byte |-> byte, last |-> last]
QueuePut(queue, entries) == SubSeq(queue \o entries, 1, Min({PS2_QUEUE_SIZE, Len(queue \o entries)}))

StartFrame(kbd, at, entry, fromHost) ==
  [kbd EXCEPT !.frame = [on |-> TRUE, fromHost |-> fromHost, byte |-> entry.byte, last |-> entry.last, start |-> at,
                         end |-> at + Us(PS2_BIT_US * (IF fromHost THEN HOST_FRAME_BITS ELSE DEVICE_FRAME_BITS))]]

\* What the keyboard answers to a command, or to the argument of one.
KbdAnswer(kbd, byte) ==
  CASE kbd.fault = "noack" -> <<>>
    [] kbd.fault = "resend" -> <<254>>
    [] kbd.fault \notin {"noack", "resend"} /\ kbd.awaiting # 0 ->
         IF kbd.awaiting = 240 /\ byte = 0 THEN <<250, SCAN_CODE_SET>> ELSE <<250>>
    [] kbd.fault \notin {"noack", "resend"} /\ kbd.awaiting = 0 ->
         CASE byte = 238 -> <<238>>
           [] byte = 255 -> <<250, 170>>
           [] byte = 242 -> <<250, 171, 131>>
           [] OTHER -> <<250>>

\* The commands that take an argument: $ED, $F0 and $F3.
NowAwaiting(kbd, byte) ==
  CASE kbd.fault \in {"noack", "resend"} -> kbd.awaiting
    [] kbd.fault \notin {"noack", "resend"} /\ kbd.awaiting = 0 /\ byte \in {237, 240, 243} -> byte
    [] OTHER -> 0

ReceiveCommand(kbd, byte, now) ==
  [kbd EXCEPT !.commands = @ + 1, !.nextSend = now + Us(REPLY_DELAY_US), !.keysAfter = now + Us(KEY_QUIET_US),
              !.replies = QueuePut(@, [k \in DOMAIN KbdAnswer(kbd, byte) |-> Framed(KbdAnswer(kbd, byte)[k], FALSE)]),
              !.awaiting = NowAwaiting(kbd, byte)]

----
\* A tick, in the code's order: the host lets go of the clock; a frame ends; the keyboard
\* begins one; the detector follows the clock, onto CA2.

ClockReleased(kbd, via, portB, now) ==
  LET low == DrivenLow(via, PS2_SOLB)
      held == [kbd EXCEPT !.prevSolbLow = low]
      released == [held EXCEPT !.detectorUntil = now + Us(DETECT_IDLE_US)]
  IN IF low \/ ~kbd.prevSolbLow THEN held
     ELSE IF DrivenLow(via, PS2_START) /\ ~kbd.frame.on
       THEN StartFrame(released, now + Us(START_DELAY_US), Framed(PortBPins(via, portB), FALSE), TRUE)
     ELSE released


\* The frame's byte is in the shift register now; the host's is a command.
FrameEnded(kbd, now) ==
  LET over == [kbd EXCEPT !.frame.on = FALSE, !.detectorUntil = now + Us(DETECT_IDLE_US),
                          !.shiftRegister = kbd.frame.byte]
  IN IF ~kbd.frame.on \/ now < kbd.frame.end THEN kbd
     ELSE IF kbd.frame.fromHost THEN ReceiveCommand(over, kbd.frame.byte, now)
     ELSE [over EXCEPT !.nextSend = now + Us(IF kbd.frame.last THEN kbd.keyInterval ELSE BYTE_GAP_US)]

FrameBegun(kbd, now) ==
  CASE kbd.frame.on \/ kbd.prevSolbLow \/ now < kbd.nextSend -> kbd
    [] ~kbd.frame.on /\ ~kbd.prevSolbLow /\ now >= kbd.nextSend ->
         CASE kbd.replies # <<>> -> [StartFrame(kbd, now, Head(kbd.replies), FALSE) EXCEPT !.replies = Tail(@)]
           [] kbd.replies = <<>> /\ kbd.keys # <<>> /\ kbd.commands > 0 /\ now >= kbd.keysAfter ->
                [StartFrame(kbd, now, Head(kbd.keys), FALSE) EXCEPT !.keys = Tail(@)]
           [] OTHER -> kbd

ClockBusy(kbd, now) ==
  kbd.prevSolbLow \/ (kbd.frame.on /\ now >= kbd.frame.start) \/ now < kbd.detectorUntil

Detected(kbd, via, now) ==
  LET level == IF kbd.fault = "noedge" \/ ~ClockBusy(kbd, now) THEN 1 ELSE 0
  IN [kbd |-> [kbd EXCEPT !.ca2 = level], via |-> IF level = kbd.ca2 THEN via ELSE ViaSetCa2(via, level)]

KbdTick(kbd, via, portB, now) ==
  Detected(FrameBegun(FrameEnded(ClockReleased(kbd, via, portB, now), now), now), via, now)

\* While SOEB is low the board drives port B, with the byte's complement.
KbdDrives(via) == DrivenLow(via, PS2_SOEB)
KbdOutput(kbd) == Inverted(kbd.shiftRegister)

\* ps2_board_queue_key: a key's codes, or nothing of it.
KbdFits(kbd, codes) == Len(kbd.keys) + Len(codes) <= PS2_QUEUE_SIZE
QueueKey(kbd, codes) == [kbd EXCEPT !.keys = @ \o [k \in DOMAIN codes |-> Framed(codes[k], k = Len(codes))]]

\* type_keys: the keys of a text, up to the first that does not fit.
RECURSIVE TypeKey(_, _, _)
TypeKeys(kbd, text) == IF text = <<>> THEN [kbd |-> kbd, fits |-> TRUE] ELSE TypeKey(kbd, text, EncodeKey(text))
TypeKey(kbd, text, key) ==
  IF KbdFits(kbd, key.codes) THEN TypeKeys(QueueKey(kbd, key.codes), SubSeq(text, key.used + 1, Len(text)))
  ELSE [kbd |-> kbd, fits |-> FALSE]

=============================================================================
