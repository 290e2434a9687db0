-------------------------------- MODULE Audio --------------------------------
(* The sound of wendy2c's PB7, emulator/audio.c: audio_step, at every tick *)
(* of the bus, adds up the time; a sample is due when there is a sample's  *)
(* worth of it, and what is over is kept for the next.  It goes into a WAV *)
(* file, to the sound card's thread through the ring, and to a tap.  What  *)
(* a sample is, the level's mean through a filter, is left open.           *)
EXTENDS Machine, AudioRing

CONSTANTS
  OSC_TICK, OSC_PER_SAMPLE,   \* a tick, and a sample, in the same small unit of time
  AudioSamples                \* no more samples than this (the model's bound)

\* audio_init: each output may be asked for, and may fail.
AudioStarts ==
  /\ UNCHANGED ringVars
  /\ \E wav, live \in BOOLEAN :
       Starts("audio",
              [wav |-> IF wav THEN "open" ELSE "none", samples |-> 0, size |-> 0, live |-> live, enabled |-> wav \/ live,
               time |-> 0, tap |-> FALSE, tapped |-> 0],
              <<>>)

\* The emulator's side does one thing after the other.
Emulates == Runs("audio") /\ pushing = "no" /\ chips.wav # "closed"

\* audio_step, at the next tick.
AudioTick ==
  /\ Emulates /\ chips.enabled /\ chips.time < OSC_PER_SAMPLE /\ chips.samples < AudioSamples
  /\ chips' = [chips EXCEPT !.time = @ + OSC_TICK]
  /\ UNCHANGED <<host, ringVars>>

\* emit_sample; the count is wav_samples_written, kept here also without a file.
EmitSample ==
  /\ Emulates /\ chips.enabled /\ chips.time >= OSC_PER_SAMPLE
  /\ chips' = [chips EXCEPT !.time = @ - OSC_PER_SAMPLE, !.samples = @ + 1, !.tapped = IF chips.tap THEN @ + 1 ELSE @]
  /\ IF chips.live THEN \E s \in Sample : Push(s) ELSE UNCHANGED ringVars
  /\ UNCHANGED host

\* audio_set_tap, by the web server of a run: a tap alone is enough to have samples.
AudioSetTap ==
  /\ Emulates
  /\ \E on \in BOOLEAN : chips' = [chips EXCEPT !.tap = on, !.enabled = @ \/ on]
  /\ UNCHANGED <<host, ringVars>>

RbPush == Runs("audio") /\ (PushWrites \/ PushPublishes) /\ UNCHANGED <<chips, host>>

\* The sound card's thread: live_data_callback.
LiveDataCallback ==
  /\ Runs("audio") /\ chips.live
  /\ (\E n \in FrameCounts : Pop(n)) \/ PopCopies \/ PopPublishes
  /\ UNCHANGED <<chips, host>>

\* audio_close: ma_device_uninit waits for the callback, and the file gets its sizes.
AudioClose ==
  /\ Emulates /\ popping = "no"
  /\ chips' = [chips EXCEPT !.wav = "closed", !.size = IF chips.wav = "open" THEN 2 * chips.samples ELSE 0,
                            !.live = FALSE, !.enabled = FALSE]
  /\ UNCHANGED <<host, ringVars>>

AudioNext ==
  AudioStarts \/ AudioTick \/ EmitSample \/ AudioSetTap \/ RbPush \/ LiveDataCallback \/ AudioClose

=============================================================================
