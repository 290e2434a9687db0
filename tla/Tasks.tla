-------------------------------- MODULE Tasks --------------------------------
(***************************************************************************)
(* Programs that run under the kernel of Multitasking.tla and what they    *)
(* share: the screen and its lock, the ring buffer and its lock, and the   *)
(* 6522 port that the display and the control LED sit on.                  *)
(*                                                                         *)
(*   "main"     the first bank's own loop (program_start)                  *)
(*   "counter"  run_counter, run_chase: show something, sleep              *)
(*   "reader"   write_morse_buffer: buffer_read, console_show              *)
(*   "writer"   send_morse_message: buffer_write, sleep                    *)
(*   "led"      led_control: toggle an LED when a button goes down         *)
(*                                                                         *)
(* An action is a run of instructions with one access to shared state.     *)
(* The kernel may pre-empt between any two actions of a task that has      *)
(* interrupts enabled, and only there.                                     *)
(***************************************************************************)
EXTENDS Multitasking, Sequences

CONSTANTS
  Programs,     \* the programs added after boot, in order
  Screen,       \* what a program shows each time: a sequence of "cursor"
                \* (move_cursor) and "char" (display_character)
  Values,       \* the characters that go through the buffer
  NoValue,
  BufferSize,   \* the positions wrap at this (256 on the board: one byte)
  LongSleep     \* ticks of the sleeps between two rounds of a program

ASSUME ProgramsAssumption ==
  Programs \in Seq({"counter", "reader", "writer", "led"})
\* A program begins what it shows with move_cursor.
ASSUME ScreenAssumption ==
  /\ Screen \in [{"counter", "reader"} -> Seq({"cursor", "char"})]
  /\ \A p \in {"counter", "reader"} : Screen[p] # <<>> /\ Screen[p][1] = "cursor"
ASSUME BufferAssumption ==
  BufferSize \in Nat /\ BufferSize > 1 /\ NoValue \notin Values
ASSUME LongSleepAssumption == LongSleep \in 0 .. MaxSleep

VARIABLES
  pc,           \* where each task is
  at,           \* how much of Screen a task has shown this time
  hold,         \* the register that carries a character or a port value
  screenLock,   \* SCREEN_LOCK
  bufferLock,   \* BUFFER_LOCK
  readPos,      \* BUFFER_READ_POS
  writePos,     \* BUFFER_WRITE_POS
  data,         \* BUFFER_DATA
  ora,          \* the display bits of PORTA's output register
  driven,       \* the display data pins are outputs (DDRA)
  lcd           \* what the display controller has latched

bufferVars == <<bufferLock, readPos, writePos, data>>
displayVars == <<ora, driven, lcd>>
taskVars == <<pc, at, hold, screenLock, bufferVars, displayVars>>
vars == <<kernelVars, taskVars>>

Program(b) == IF b = BANK_START THEN "main" ELSE Programs[b - BANK_START]

\* The banks for which there is a program to add.
Assigned == {b \in Banks : b <= BANK_START + Len(Programs)}

EntryLabel ==
  [main |-> "main", counter |-> "lock", reader |-> "buf_lock", writer |-> "buf_lock", led |-> "led"]

Entry(b) == IF b \in Assigned THEN EntryLabel[Program(b)] ELSE "main"

\* A nybble that a task puts on the port, and the byte's kind, are tokens: a
\* set of tokens is the OR of their bits.  OpenPins stands for what the data
\* pins read as inputs when nobody drives them.
Nybble(b, half) == <<b, half>>
RS == <<BANK_STOP, "RS">>
OpenPins == <<BANK_STOP, "pins">>
RSFlag(kind) == IF kind = "char" THEN {RS} ELSE {}

Tokens == (Banks \X {"high", "low"}) \cup {RS, OpenPins}

Labels ==
  {"main", "lock", "lock_acquired", "lock_busy", "lock_sleep", "wait", "clear", "drive",
   "high", "clear_high", "low", "clear_low", "unlock", "count_sleep",
   "buf_lock", "buf_take", "buf_spin", "buf_test", "buf_retry", "buf_sleep",
   "buf_data", "buf_pos", "buf_unlock", "next_char", "led", "led_write", "led_wait"}

Positions == 0 .. BufferSize - 1

TaskTypeOK ==
  /\ TypeOK
  /\ pc \in [Banks -> Labels]
  /\ at \in [Banks -> Nat]
  /\ hold \in [Banks -> Values \cup {NoValue} \cup SUBSET Tokens]
  /\ screenLock \in Nat
  /\ bufferLock \in {0, 1}
  /\ readPos \in Positions
  /\ writePos \in Positions
  /\ data \in [Positions -> Values \cup {NoValue}]
  /\ ora \subseteq Tokens
  /\ driven \in BOOLEAN
  /\ lcd.first \subseteq Tokens /\ lcd.cursor \in Banks
  /\ lcd.shown = <<>> \/ lcd.shown \in (SUBSET Tokens) \X (SUBSET Tokens)

Init ==
  /\ KernelInit
  /\ pc = [b \in Banks |-> Entry(b)]
  /\ at = [b \in Banks |-> 1]
  /\ hold \in [Banks -> Values \cup {NoValue}]
  /\ \A b \in Banks : hold[b] \in Values <=> (b \in Assigned /\ Program(b) = "writer")
  /\ screenLock = 0
  /\ bufferLock = 0
  /\ readPos = 0
  /\ writePos = 0
  /\ data = [i \in Positions |-> NoValue]
  /\ ora = {}
  /\ driven = TRUE
  /\ lcd = [first |-> {}, shown |-> <<>>, cursor |-> BANK_START]

-----------------------------------------------------------------------------

At(l) == CanExecute /\ pc[bank] = l
Goto(l) == pc' = [pc EXCEPT ![bank] = l]

\* Instructions with interrupts enabled that leave the kernel's state alone.
Plain == CanExecute /\ UNCHANGED kernelVars

(***************************************************************************)
(* lock_screen and unlock_screen (utilities.inc)                           *)
(***************************************************************************)
\* Mutant: the lock is tested with interrupts enabled.
LockScreenWithoutSei ==
  /\ At("lock")
  /\ Plain
  /\ Goto(IF screenLock = 0 THEN "lock_acquired" ELSE "lock_busy")
  /\ UNCHANGED <<at, hold, screenLock, bufferVars, displayVars>>

LockScreen ==
  /\ At("lock")
  /\ Sei
  /\ Goto(IF screenLock = 0 THEN "lock_acquired" ELSE "lock_busy")
  /\ UNCHANGED <<at, hold, screenLock, bufferVars, displayVars>>

LockAcquired ==
  /\ At("lock_acquired")
  /\ Cli
  /\ screenLock' = screenLock + 1
  /\ at' = [at EXCEPT ![bank] = 1]
  /\ Goto("wait")
  /\ UNCHANGED <<hold, bufferVars, displayVars>>

LockBusy ==
  /\ At("lock_busy")
  /\ Cli
  /\ Goto("lock_sleep")
  /\ UNCHANGED <<at, hold, screenLock, bufferVars, displayVars>>

LockSleep ==
  /\ At("lock_sleep")
  /\ Sleep(0)
  /\ Goto("lock")
  /\ UNCHANGED <<at, hold, screenLock, bufferVars, displayVars>>

\* Mutant: a reader that has shown its text keeps the lock.
UnlockScreenForgotten ==
  /\ At("unlock")
  /\ Plain
  /\ Goto(IF Program(bank) = "reader" THEN "buf_lock" ELSE "count_sleep")
  /\ UNCHANGED <<at, hold, screenLock, bufferVars, displayVars>>

UnlockScreen ==
  /\ At("unlock")
  /\ Plain
  /\ screenLock' = 0
  /\ Goto(IF Program(bank) = "reader" THEN "buf_lock" ELSE "count_sleep")
  /\ UNCHANGED <<at, hold, bufferVars, displayVars>>

CountSleep ==
  /\ At("count_sleep")
  /\ Sleep(LongSleep)
  /\ Goto("lock")
  /\ UNCHANGED <<at, hold, screenLock, bufferVars, displayVars>>

(***************************************************************************)
(* send_to_display, for a display on four data lines.  wait_for_not_busy   *)
(* turns the data pins to inputs; TSB and TRB on PORTA read the pins, so   *)
(* raising RW leaves in the output register what the open pins read.       *)
(***************************************************************************)
Kind(b) == Screen[Program(b)][at[b]]

OpenReadings == {(ora \cap {RS}) \cup p : p \in {{}, {OpenPins}}}

Pins == IF driven THEN {ora} ELSE OpenReadings

WaitBusy ==
  /\ At("wait")
  /\ Plain
  /\ driven' = FALSE
  /\ ora' \in OpenReadings
  /\ Goto("clear")
  /\ UNCHANGED <<at, hold, screenLock, bufferVars, lcd>>

ClearBits ==
  /\ At("clear")
  /\ Plain
  /\ ora' = {}
  /\ Goto("drive")
  /\ UNCHANGED <<at, hold, screenLock, bufferVars, driven, lcd>>

StillBusy ==
  /\ At("drive")
  /\ Plain
  /\ driven' = TRUE
  /\ Goto("wait")
  /\ UNCHANGED <<at, hold, screenLock, bufferVars, ora, lcd>>

NotBusy ==
  /\ At("drive")
  /\ Plain
  /\ driven' = TRUE
  /\ Goto("high")
  /\ UNCHANGED <<at, hold, screenLock, bufferVars, ora, lcd>>

SendHigh ==
  /\ At("high")
  /\ Plain
  /\ ora' = ora \cup {Nybble(bank, "high")} \cup RSFlag(Kind(bank))
  /\ lcd' = [lcd EXCEPT !.first = ora']
  /\ Goto("clear_high")
  /\ UNCHANGED <<at, hold, screenLock, bufferVars, driven>>

\* Mutant: the first nybble stays on the port.
ClearHighForgotten ==
  /\ At("clear_high")
  /\ Plain
  /\ Goto("low")
  /\ UNCHANGED <<at, hold, screenLock, bufferVars, displayVars>>

ClearHigh ==
  /\ At("clear_high")
  /\ Plain
  /\ ora' = ora \cap {RS}
  /\ Goto("low")
  /\ UNCHANGED <<at, hold, screenLock, bufferVars, driven, lcd>>

\* The second nybble completes the byte: the controller moves its cursor, or
\* writes a character where the cursor is.
SendLow ==
  /\ At("low")
  /\ Plain
  /\ ora' = ora \cup {Nybble(bank, "low")}
  /\ lcd' = [first |-> {}, shown |-> <<lcd.first, ora'>>,
             cursor |-> IF RS \in ora' THEN lcd.cursor ELSE bank]
  /\ Goto("clear_low")
  /\ UNCHANGED <<at, hold, screenLock, bufferVars, driven>>

ClearLow ==
  /\ At("clear_low")
  /\ Plain
  /\ ora' = {}
  /\ IF at[bank] = Len(Screen[Program(bank)])
       THEN Goto("unlock") /\ UNCHANGED at
       ELSE Goto("wait") /\ at' = [at EXCEPT ![bank] = @ + 1]
  /\ UNCHANGED <<hold, screenLock, bufferVars, driven, lcd>>

ScreenStep ==
  \/ LockScreen \/ LockAcquired \/ LockBusy \/ LockSleep
  \/ UnlockScreen \/ CountSleep
  \/ WaitBusy \/ ClearBits \/ StillBusy \/ NotBusy
  \/ SendHigh \/ ClearHigh \/ SendLow \/ ClearLow

(***************************************************************************)
(* buffer.inc: buffer_read and buffer_write                                *)
(***************************************************************************)
\* Mutant: the position is not kept to its width.
NextPosWithoutWrap(p) == p + 1

NextPos(p) == IF p = BufferSize - 1 THEN 0 ELSE p + 1

\* Mutant: the lock is tested with interrupts enabled.
BufferLockWithoutSei ==
  /\ At("buf_lock")
  /\ Plain
  /\ Goto(IF bufferLock = 0 THEN "buf_take" ELSE "buf_spin")
  /\ UNCHANGED <<at, hold, screenLock, bufferVars, displayVars>>

BufferLock ==
  /\ At("buf_lock")
  /\ Sei
  /\ Goto(IF bufferLock = 0 THEN "buf_take" ELSE "buf_spin")
  /\ UNCHANGED <<at, hold, screenLock, bufferVars, displayVars>>

BufferTake ==
  /\ At("buf_take")
  /\ Cli
  /\ bufferLock' = 1
  /\ Goto("buf_test")
  /\ UNCHANGED <<at, hold, screenLock, readPos, writePos, data, displayVars>>

BufferSpin ==
  /\ At("buf_spin")
  /\ Cli
  /\ Goto("buf_lock")
  /\ UNCHANGED <<at, hold, screenLock, bufferVars, displayVars>>

\* Mutant: the last free place is used, and a full buffer looks empty.
MustWaitTooLate == IF Program(bank) = "reader" THEN writePos = readPos ELSE FALSE

\* A reader must wait while the buffer is empty, a writer while it is full.
MustWait ==
  IF Program(bank) = "reader" THEN writePos = readPos ELSE NextPos(writePos) = readPos

BufferTest ==
  /\ At("buf_test")
  /\ Plain
  /\ Goto(IF MustWait THEN "buf_retry" ELSE "buf_data")
  /\ UNCHANGED <<at, hold, screenLock, bufferVars, displayVars>>

\* Mutant: a task that must wait goes to sleep with the lock.
BufferRetryLocked ==
  /\ At("buf_retry")
  /\ Plain
  /\ Goto("buf_sleep")
  /\ UNCHANGED <<at, hold, screenLock, bufferVars, displayVars>>

BufferRetry ==
  /\ At("buf_retry")
  /\ Plain
  /\ bufferLock' = 0
  /\ Goto("buf_sleep")
  /\ UNCHANGED <<at, hold, screenLock, readPos, writePos, data, displayVars>>

\* One millisecond is half a tick, which sleep_milliseconds rounds to none.
BufferSleep ==
  /\ At("buf_sleep")
  /\ Sleep(0)
  /\ Goto("buf_lock")
  /\ UNCHANGED <<at, hold, screenLock, bufferVars, displayVars>>

BufferData ==
  /\ At("buf_data")
  /\ Plain
  /\ IF Program(bank) = "reader"
       THEN hold' = [hold EXCEPT ![bank] = data[readPos]] /\ UNCHANGED data
       ELSE data' = [data EXCEPT ![writePos] = hold[bank]] /\ UNCHANGED hold
  /\ Goto("buf_pos")
  /\ UNCHANGED <<at, screenLock, bufferLock, readPos, writePos, displayVars>>

BufferPos ==
  /\ At("buf_pos")
  /\ Plain
  /\ IF Program(bank) = "reader"
       THEN readPos' = NextPos(readPos) /\ UNCHANGED writePos
       ELSE writePos' = NextPos(writePos) /\ UNCHANGED readPos
  /\ Goto("buf_unlock")
  /\ UNCHANGED <<at, hold, screenLock, bufferLock, data, displayVars>>

\* The reader goes on to show the character, the writer to make the next one.
BufferUnlock ==
  /\ At("buf_unlock")
  /\ Plain
  /\ bufferLock' = 0
  /\ Goto(IF Program(bank) = "reader" THEN "lock" ELSE "next_char")
  /\ UNCHANGED <<at, hold, screenLock, readPos, writePos, data, displayVars>>

NextChar ==
  /\ At("next_char")
  /\ Sleep(LongSleep)
  /\ \E v \in Values : hold' = [hold EXCEPT ![bank] = v]
  /\ Goto("buf_lock")
  /\ UNCHANGED <<at, screenLock, bufferVars, displayVars>>

BufferStep ==
  \/ BufferLock \/ BufferTake \/ BufferSpin \/ BufferTest \/ BufferRetry
  \/ BufferSleep \/ BufferData \/ BufferPos \/ BufferUnlock \/ NextChar

(***************************************************************************)
(* led_control.  The LED shares PORTA with the display: the new value of   *)
(* the port is made from its pins, with interrupts disabled.               *)
(***************************************************************************)
LedButtonUp ==
  /\ At("led")
  /\ Sleep(LongSleep)
  /\ UNCHANGED taskVars

\* Mutant: the port is changed with interrupts enabled.
LedReadWithoutSei ==
  /\ At("led")
  /\ Plain
  /\ \E p \in Pins : hold' = [hold EXCEPT ![bank] = p]
  /\ Goto("led_write")
  /\ UNCHANGED <<at, screenLock, bufferVars, displayVars>>

LedRead ==
  /\ At("led")
  /\ Sei
  /\ \E p \in Pins : hold' = [hold EXCEPT ![bank] = p]
  /\ Goto("led_write")
  /\ UNCHANGED <<at, screenLock, bufferVars, displayVars>>

LedWrite ==
  /\ At("led_write")
  /\ Cli
  /\ ora' = hold[bank]
  /\ hold' = [hold EXCEPT ![bank] = NoValue]
  /\ Goto("led_wait")
  /\ UNCHANGED <<at, screenLock, bufferVars, driven, lcd>>

\* Wait until the button has been up for a while.
LedWait ==
  /\ At("led_wait")
  /\ Sleep(LongSleep)
  /\ Goto("led_wait") \/ Goto("led")
  /\ UNCHANGED <<at, hold, screenLock, bufferVars, displayVars>>

LedStep == LedButtonUp \/ LedRead \/ LedWrite \/ LedWait

MainLoop ==
  /\ At("main")
  /\ Sleep(LongSleep)
  /\ UNCHANGED taskVars

-----------------------------------------------------------------------------

TaskStep == MainLoop \/ ScreenStep \/ BufferStep \/ LedStep

AllAdded == firstUnused = BANK_STOP \/ firstUnused > BANK_START + Len(Programs)

KernelStep ==
  /\ \/ AddProcess /\ ~ AllAdded
     \/ StartTimer /\ AllAdded
     \/ T2Expire
     \/ Interrupt
     \/ WaiWake
  /\ UNCHANGED taskVars

Next == KernelStep \/ TaskStep

Spec == Init /\ [][Next]_vars

(***************************************************************************)
(* Fairness.  Timer 2 runs for thousands of cycles, so a task that gets    *)
(* the CPU again and again executes instructions again and again, though   *)
(* not in every turn: a turn that begins after a `sleep` has only what is  *)
(* left of the timer.  The display controller is not busy for ever.        *)
(***************************************************************************)
Fairness ==
  /\ WF_vars(KernelStep)
  /\ \A b \in Banks : SF_vars(TaskStep /\ ~ StillBusy /\ bank = b)

FairSpec == Spec /\ Fairness

-----------------------------------------------------------------------------

\* The task is between taking the screen lock and releasing it.
InScreen(b) ==
  pc[b] \in {"wait", "clear", "drive", "high", "clear_high", "low", "clear_low", "unlock"}

InBuffer(b) == pc[b] \in {"buf_test", "buf_retry", "buf_data", "buf_pos", "buf_unlock"}

\* No two tasks are ever between lock_screen and unlock_screen, and the lock is
\* free exactly when none is: SCREEN_LOCK is counted up, never tested again.
ScreenExclusion ==
  /\ \A a, b \in Banks : InScreen(a) /\ InScreen(b) => a = b
  /\ screenLock = IF \E b \in Banks : InScreen(b) THEN 1 ELSE 0

\* The same for BUFFER_LOCK.
BufferExclusion ==
  /\ \A a, b \in Banks : InBuffer(a) /\ InBuffer(b) => a = b
  /\ bufferLock = IF \E b \in Banks : InBuffer(b) THEN 1 ELSE 0

\* The buffer is a FIFO of BufferSize - 1 places.  A reader that holds the byte
\* it loaded but has not advanced BUFFER_READ_POS has taken it.
QueueStart == IF \E b \in Assigned : Program(b) = "reader" /\ pc[b] = "buf_pos"
           THEN NextPos(readPos) ELSE readPos

Queue == [i \in 1 .. (writePos - QueueStart) % BufferSize |-> data[(QueueStart + i - 1) % BufferSize]]

Readers == {b \in Assigned : Program(b) = "reader"}

Fifo == INSTANCE BoundedFIFO WITH
          Capacity <- BufferSize - 1,
          queue <- Queue,
          taken <- [b \in Readers |-> hold[b]]

\* buffer_read and buffer_write, pre-empted anywhere, implement that FIFO: no
\* value is lost, duplicated, reordered or overwritten when positions wrap.
BufferIsFifo == Fifo!Spec

\* The byte the display controller received last, less what open pins read, is
\* one that a task sent: both nybbles are that task's, of the same kind, and a
\* character goes where that same task moved the cursor.
Sent(b, kind) ==
  << {Nybble(b, "high")} \cup RSFlag(kind), {Nybble(b, "low")} \cup RSFlag(kind) >>

ScreenNeverMixesTasks ==
  lcd.shown # <<>> =>
    \E b \in Banks, kind \in {"cursor", "char"} :
      /\ <<lcd.shown[1] \ {OpenPins}, lcd.shown[2] \ {OpenPins}>> = Sent(b, kind)
      /\ lcd.cursor = b

\* Without led_control the display receives exactly the bytes that were sent.
ScreenShowsWhatWasSent ==
  "led" \notin {Programs[i] : i \in DOMAIN Programs} =>
    (lcd.shown # <<>> =>
       \E b \in Banks, kind \in {"cursor", "char"} : lcd.shown = Sent(b, kind) /\ lcd.cursor = b)

\* A lock that somebody waits for is taken again and again; no combination of
\* polling, sleeping and pre-emption leaves all the tasks waiting.
ScreenProgress ==
  (\E b \in Banks : pc[b] \in {"lock", "lock_busy", "lock_sleep"} /\ b \in Used)
    ~> (\E b \in Banks : InScreen(b))

BufferProgress ==
  (\E b \in Banks : pc[b] \in {"buf_lock", "buf_spin"} /\ b \in Used)
    ~> (\E b \in Banks : InBuffer(b))

\* display_update_routines_4bit.inc promises the data bits are 0 for the next
\* send once it has cleared them.
DataBitsClearForNextSend ==
  \A b \in Banks : pc[b] = "high" => ora = {}

=============================================================================
