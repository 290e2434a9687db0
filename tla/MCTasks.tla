------------------------------- MODULE MCTasks -------------------------------
EXTENDS Tasks, TLC

ReaderAndWriter == <<"reader", "writer">>
CounterReaderWriter == <<"counter", "reader", "writer">>
CounterAndLed == <<"counter", "led">>
CountersAndLed == <<"counter", "counter", "led">>

\* One cursor position and one character each.
ShortTexts == [p \in {"counter", "reader"} |-> <<"cursor", "char">>]

\* A reader that only moves the cursor can spoil the counter's characters.
CursorAndText == [ShortTexts EXCEPT !["reader"] = <<"cursor">>]

\* One byte each: enough to hold the screen lock for a while.
OneByte == [p \in {"counter", "reader"} |-> <<"cursor">>]

\* Characters are only moved around.
ValueSymmetry == Permutations(Values)

\* Only the distance from TICKS_COUNTER to a sleeper's WAKE_AT matters to any
\* action and property of Tasks, and an awake bank's WAKE_AT is never read:
\* states that differ in nothing else behave alike.  (The run multitasking checks the
\* counter's wrap with the absolute values.)
Relative ==
  <<cpu, bank, firstUnused, masked, t2, sleeping,
    [b \in Banks |-> IF sleeping[b] THEN (wakeAt[b] - ticks) % TickMod ELSE 0], frame, taskVars>>
=============================================================================
