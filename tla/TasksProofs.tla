----------------------------- MODULE TasksProofs -----------------------------
(***************************************************************************)
(* The programs of Tasks.tla, for any number and mix of them, any texts    *)
(* and any buffer size, pre-empted at any instruction: they use the kernel *)
(* as Multitasking.tla describes it, the two locks exclude, the display    *)
(* receives the bytes that were sent, and the ring buffer is a FIFO.       *)
(***************************************************************************)
EXTENDS Tasks, MultitaskingProofs

\* Every step of a program is a step of the kernel or leaves it alone.
LEMMA TaskStepIsKernelStep == TaskStep => [KernelNext]_kernelVars
<1> SUFFICES ASSUME TaskStep PROVE [KernelNext]_kernelVars
  OBVIOUS
<1>1. LongSleep \in 0 .. MaxSleep /\ 0 \in 0 .. MaxSleep
  BY LongSleepAssumption, TickAssumption
<1>2. CASE MainLoop
  BY <1>1, <1>2 DEF MainLoop, KernelNext, SleepSome
<1>3. CASE ScreenStep
  BY <1>1, <1>3
     DEF ScreenStep, LockScreen, LockAcquired, LockBusy, LockSleep, UnlockScreen,
         CountSleep, WaitBusy, ClearBits, StillBusy, NotBusy, SendHigh, ClearHigh, SendLow, ClearLow,
         Plain, KernelNext, SleepSome
<1>4. CASE BufferStep
  BY <1>1, <1>4
     DEF BufferStep, BufferLock, BufferTake, BufferSpin, BufferTest, BufferRetry,
         BufferSleep, BufferData, BufferPos, BufferUnlock, NextChar,
         Plain, KernelNext, SleepSome
<1>5. CASE LedStep
  BY <1>1, <1>5
     DEF LedStep, LedButtonUp, LedRead, LedWrite, LedWait, KernelNext, SleepSome
<1> QED
  BY <1>2, <1>3, <1>4, <1>5 DEF TaskStep

\* The programs run under the kernel: whatever they do, the kernel's own
\* specification holds of them, and with it all that is proved of the kernel.
THEOREM TasksRefineKernel == Spec => KernelSpec
<1>1. Init => KernelInit
  BY DEF Init
<1>2. [Next]_vars => [KernelNext]_kernelVars
  BY TaskStepIsKernelStep DEF Next, KernelStep, KernelNext, vars, kernelVars
<1> QED
  BY <1>1, <1>2, PTL DEF Spec, KernelSpec

-----------------------------------------------------------------------------

\* A task in the middle of a test-and-set runs, with interrupts disabled.
MaskedLabels == {"lock_acquired", "lock_busy", "buf_take", "buf_spin", "led_write"}

(***************************************************************************)
(* Exclusion is inductive once it says why a test is still good when the   *)
(* lock is taken: nothing else can run between the two.                    *)
(***************************************************************************)
TestIsGood ==
  \A b \in Banks :
    /\ pc[b] \in MaskedLabels => masked /\ cpu = "run" /\ bank = b
    /\ pc[b] = "lock_acquired" => screenLock = 0
    /\ pc[b] = "buf_take" => bufferLock = 0

LockInv ==
  /\ bank \in Banks
  /\ pc \in [Banks -> Labels]
  /\ TestIsGood
  /\ ScreenExclusion
  /\ BufferExclusion

LEMMA InitLocks == Init => LockInv
<1> SUFFICES ASSUME Init PROVE LockInv
  OBVIOUS
<1>1. bank \in Banks
  BY BankAssumption DEF Init, KernelInit, Banks
<1>2. ASSUME NEW b \in Banks
      PROVE  Entry(b) \in {"main", "lock", "buf_lock", "led"}
  <2>1. b \in Assigned => Program(b) \in {"main", "counter", "reader", "writer", "led"}
    BY ProgramsAssumption, BankAssumption DEF Assigned, Program, Banks
  <2> QED
    BY <2>1 DEF Entry, EntryLabel
<1>3. pc \in [Banks -> {"main", "lock", "buf_lock", "led"}]
  BY <1>2 DEF Init
<1> QED
  BY <1>1, <1>3 DEF Init, LockInv, TestIsGood, ScreenExclusion, BufferExclusion,
                    InScreen, InBuffer, MaskedLabels, Labels

\* The kernel's own steps change neither a program counter nor a lock; they
\* switch tasks only when no task is in a test-and-set.
LEMMA KernelStepLocks ==
  ASSUME LockInv, KernelInv', KernelStep
  PROVE  LockInv'
<1>1. UNCHANGED <<pc, screenLock, bufferLock>>
  BY DEF KernelStep, taskVars, bufferVars
<1>2. bank' \in Banks
  BY DEF KernelInv, TypeOK
<1>3. TestIsGood'
  <2>1. CASE AddProcess \/ StartTimer \/ T2Expire
    BY <1>1, <2>1 DEF AddProcess, StartTimer, T2Expire, LockInv, TestIsGood
  <2>2. CASE Interrupt \/ WaiWake
    <3>1. \A b \in Banks : pc[b] \notin MaskedLabels
      BY <2>2 DEF Interrupt, WaiWake, LockInv, TestIsGood
    <3> QED
      BY <1>1, <3>1 DEF TestIsGood, MaskedLabels
  <2> QED
    BY <2>1, <2>2 DEF KernelStep
<1> QED
  BY <1>1, <1>2, <1>3 DEF LockInv, ScreenExclusion, BufferExclusion, InScreen, InBuffer

\* Every step of a program keeps the locks.
LEMMA TaskStepLocks ==
  ASSUME LockInv, KernelInv', TaskStep
  PROVE  LockInv'
<1>1. bank' \in Banks
  BY DEF KernelInv, TypeOK
<1> USE <1>1 DEF LockInv, TestIsGood, ScreenExclusion, BufferExclusion, InScreen, InBuffer,
                 MaskedLabels, Labels, At, Goto, CanExecute
<1>2. CASE MainLoop
  BY <1>2 DEF MainLoop, taskVars, bufferVars
<1>3. CASE ScreenStep
  <2>1. CASE LockScreen
    BY <2>1 DEF LockScreen, Sei, bufferVars
  <2>2. CASE LockAcquired
    BY <2>2 DEF LockAcquired, Cli, bufferVars
  <2>3. CASE LockBusy
    BY <2>3 DEF LockBusy, Cli, bufferVars
  <2>4. CASE LockSleep
    BY <2>4 DEF LockSleep, Sleep, bufferVars
  <2>5. CASE UnlockScreen
    BY <2>5 DEF UnlockScreen, Plain, kernelVars, bufferVars
  <2>6. CASE CountSleep
    BY <2>6 DEF CountSleep, Sleep, bufferVars
  <2>7. CASE WaitBusy
    BY <2>7 DEF WaitBusy, Plain, kernelVars, bufferVars
  <2>8. CASE ClearBits
    BY <2>8 DEF ClearBits, Plain, kernelVars, bufferVars
  <2>9. CASE StillBusy
    BY <2>9 DEF StillBusy, Plain, kernelVars, bufferVars
  <2>10. CASE NotBusy
    BY <2>10 DEF NotBusy, Plain, kernelVars, bufferVars
  <2>11. CASE SendHigh
    BY <2>11 DEF SendHigh, Plain, kernelVars, bufferVars
  <2>12. CASE ClearHigh
    BY <2>12 DEF ClearHigh, Plain, kernelVars, bufferVars
  <2>13. CASE SendLow
    BY <2>13 DEF SendLow, Plain, kernelVars, bufferVars
  <2>14. CASE ClearLow
    BY <2>14 DEF ClearLow, Plain, kernelVars, bufferVars
  <2> QED
    BY <1>3, <2>1, <2>2, <2>3, <2>4, <2>5, <2>6, <2>7, <2>8, <2>9, <2>10, <2>11, <2>12, <2>13, <2>14 DEF ScreenStep
<1>4. CASE BufferStep
  <2>1. CASE BufferLock
    BY <2>1 DEF BufferLock, Sei, bufferVars
  <2>2. CASE BufferTake
    BY <2>2 DEF BufferTake, Cli
  <2>3. CASE BufferSpin
    BY <2>3 DEF BufferSpin, Cli, bufferVars
  <2>4. CASE BufferTest
    BY <2>4 DEF BufferTest, Plain, kernelVars, bufferVars
  <2>5. CASE BufferRetry
    BY <2>5 DEF BufferRetry, Plain, kernelVars
  <2>6. CASE BufferSleep
    BY <2>6 DEF BufferSleep, Sleep, bufferVars
  <2>7. CASE BufferData
    BY <2>7 DEF BufferData, Plain, kernelVars
  <2>8. CASE BufferPos
    BY <2>8 DEF BufferPos, Plain, kernelVars
  <2>9. CASE BufferUnlock
    BY <2>9 DEF BufferUnlock, Plain, kernelVars
  <2>10. CASE NextChar
    BY <2>10 DEF NextChar, Sleep, bufferVars
  <2> QED
    BY <1>4, <2>1, <2>2, <2>3, <2>4, <2>5, <2>6, <2>7, <2>8, <2>9, <2>10 DEF BufferStep
<1>5. CASE LedStep
  <2>1. CASE LedButtonUp
    BY <2>1 DEF LedButtonUp, Sleep, taskVars, bufferVars
  <2>2. CASE LedRead
    BY <2>2 DEF LedRead, Sei, bufferVars
  <2>3. CASE LedWrite
    BY <2>3 DEF LedWrite, Cli, bufferVars
  <2>4. CASE LedWait
    BY <2>4 DEF LedWait, Sleep, bufferVars
  <2> QED
    BY <1>5, <2>1, <2>2, <2>3, <2>4 DEF LedStep
<1> QED
  BY <1>2, <1>3, <1>4, <1>5 DEF TaskStep

LEMMA StutterLocks ==
  ASSUME LockInv, UNCHANGED vars
  PROVE  LockInv'
BY DEF LockInv, TestIsGood, ScreenExclusion, BufferExclusion, InScreen, InBuffer,
       vars, kernelVars, taskVars, bufferVars

\* The invariant holds in every reachable state of the programs.
THEOREM LockInvariant == Spec => []LockInv
<1>1. LockInv /\ KernelInv' /\ [Next]_vars => LockInv'
  BY KernelStepLocks, TaskStepLocks, StutterLocks DEF Next
<1>2. Spec => []KernelInv
  BY TasksRefineKernel, KernelInvariant, PTL
<1> QED
  BY <1>1, <1>2, InitLocks, PTL DEF Spec

\* No two tasks are between lock_screen and unlock_screen at once, and the lock
\* is free exactly when none is.
THEOREM ScreenMutualExclusion == Spec => []ScreenExclusion
<1>1. LockInv => ScreenExclusion
  BY DEF LockInv
<1> QED
  BY <1>1, LockInvariant, PTL

\* The same for the ring buffer's lock.
THEOREM BufferMutualExclusion == Spec => []BufferExclusion
<1>1. LockInv => BufferExclusion
  BY DEF LockInv
<1> QED
  BY <1>1, LockInvariant, PTL

-----------------------------------------------------------------------------
(***************************************************************************)
(* What reaches the display: the bytes that were sent, to one task at a    *)
(* time.                                                                   *)
(***************************************************************************)
(***************************************************************************)
(* Where the programs can be                                               *)
(***************************************************************************)
InScreenLabels == {"wait", "clear", "drive", "high", "clear_high", "low", "clear_low", "unlock"}
ScreenLabels == {"lock", "lock_acquired", "lock_busy", "lock_sleep"} \cup InScreenLabels
BufferLabels ==
  {"buf_lock", "buf_take", "buf_spin", "buf_test", "buf_retry", "buf_sleep",
   "buf_data", "buf_pos", "buf_unlock"}

LabelsOf ==
  [main |-> {"main"},
   counter |-> ScreenLabels \cup {"count_sleep"},
   reader |-> BufferLabels \cup ScreenLabels,
   writer |-> BufferLabels \cup {"next_char"},
   led |-> {"led", "led_write", "led_wait"}]

\* A bank without a program never runs; its program counter says "main".
MyLabels(b) == IF b \in Assigned THEN LabelsOf[Program(b)] ELSE {"main"}

LabelInv == pc \in [Banks -> Labels] /\ \A b \in Banks : pc[b] \in MyLabels(b)

LEMMA ProgramKinds ==
  ASSUME NEW b \in Assigned
  PROVE  Program(b) \in {"main", "counter", "reader", "writer", "led"}
BY ProgramsAssumption, BankAssumption DEF Assigned, Program, Banks

LEMMA InitLabels == Init => LabelInv
<1> SUFFICES ASSUME Init PROVE LabelInv
  OBVIOUS
<1>1. ASSUME NEW b \in Banks
      PROVE  Entry(b) \in MyLabels(b) /\ Entry(b) \in Labels
  <2>1. CASE b \in Assigned
    BY <2>1, ProgramKinds
       DEF Entry, EntryLabel, MyLabels, LabelsOf, Labels, ScreenLabels, InScreenLabels, BufferLabels
  <2> QED
    BY <2>1 DEF Entry, MyLabels, Labels
<1> QED
  BY <1>1 DEF Init, LabelInv

-----------------------------------------------------------------------------
(***************************************************************************)
(* Types                                                                   *)
(***************************************************************************)
Bytes == SUBSET Tokens
LcdStates == [first : Bytes, shown : {<<>>} \cup (Bytes \X Bytes), cursor : Banks]

\* What a task that holds a register's content has there: a writer always a
\* character, a reader one or none yet, led_control what the pins read.
HoldInv ==
  \A b \in Banks :
    /\ b \in Assigned /\ Program(b) = "writer" => hold[b] \in Values
    /\ b \in Assigned /\ Program(b) = "reader" => hold[b] \in Values \cup {NoValue}
    /\ pc[b] = "led_write" => hold[b] \in Pins

\* A task that shows its text is somewhere in it.
AtInv == \A b \in Banks : InScreen(b) => at[b] \in 1 .. Len(Screen[Program(b)])

VarsInv ==
  /\ LabelInv
  /\ at \in [Banks -> Nat]
  /\ hold \in [Banks -> Values \cup {NoValue} \cup Bytes]
  /\ readPos \in Positions
  /\ writePos \in Positions
  /\ data \in [Positions -> Values \cup {NoValue}]
  /\ ora \in Bytes
  /\ driven \in BOOLEAN
  /\ lcd \in LcdStates
  /\ HoldInv
  /\ AtInv

LEMMA InitVarsInv == Init => VarsInv
<1> SUFFICES ASSUME Init PROVE VarsInv
  OBVIOUS
<1>1. LabelInv
  BY InitLabels
<1>2. \A b \in Banks : pc[b] \in {"main", "lock", "buf_lock", "led"}
  <2>1. \A b \in Banks : Entry(b) \in {"main", "lock", "buf_lock", "led"}
    BY ProgramKinds DEF Entry, EntryLabel
  <2> QED
    BY <2>1 DEF Init
<1>3. 0 \in Positions
  BY BufferAssumption DEF Positions
<1>4. BANK_START \in Banks
  BY BankAssumption DEF Banks
<1>5. lcd \in LcdStates
  BY <1>4 DEF Init, LcdStates, Bytes
<1>6. HoldInv
  BY <1>2 DEF Init, HoldInv
<1>7. AtInv
  BY <1>2 DEF AtInv, InScreen
<1> QED
  BY <1>1, <1>3, <1>5, <1>6, <1>7 DEF Init, VarsInv, Bytes

\* The text of a program that uses the screen.
LEMMA TextOf ==
  ASSUME LabelInv, NEW b \in Banks, pc[b] \in ScreenLabels
  PROVE  /\ b \in Assigned
         /\ Program(b) \in {"counter", "reader"}
         /\ Screen[Program(b)] \in Seq({"cursor", "char"})
         /\ Len(Screen[Program(b)]) \in Nat \ {0}
         /\ Screen[Program(b)][1] = "cursor"
<1>1. b \in Assigned /\ Program(b) \in {"counter", "reader"}
  BY ProgramKinds DEF LabelInv, MyLabels, LabelsOf, ScreenLabels, InScreenLabels, BufferLabels
<1>2. Screen[Program(b)] \in Seq({"cursor", "char"}) /\ Screen[Program(b)] # <<>>
  BY <1>1, ScreenAssumption
<1>3. Screen[Program(b)][1] = "cursor"
  BY <1>1, ScreenAssumption
<1>4. Len(Screen[Program(b)]) \in Nat \ {0}
  BY <1>2
<1> QED
  BY <1>1, <1>2, <1>3, <1>4

\* The pins read one byte or another, whatever drives them.
LEMMA PinsAreBytes ==
  ASSUME ora \in Bytes
  PROVE  Pins \subseteq Bytes /\ OpenReadings \subseteq Bytes
BY DEF Pins, OpenReadings, Bytes, Tokens, RS, OpenPins

\* Where a step of the scheduled task may lead.
LEMMA TaskStepLabels ==
  ASSUME LabelInv, bank \in Banks, TaskStep
  PROVE  LabelInv'
<1> USE DEF LabelInv, At, Goto, MyLabels, LabelsOf, ScreenLabels, InScreenLabels, BufferLabels, Labels
<1>0. bank \in Assigned => Program(bank) \in {"main", "counter", "reader", "writer", "led"}
  BY ProgramKinds
<1>1. CASE MainLoop
  BY <1>1 DEF MainLoop, taskVars
<1>2. CASE ScreenStep
  BY <1>0, <1>2
     DEF ScreenStep, LockScreen, LockAcquired, LockBusy, LockSleep, UnlockScreen, CountSleep,
         WaitBusy, ClearBits, StillBusy, NotBusy, SendHigh, ClearHigh, SendLow, ClearLow
<1>3. CASE BufferStep
  BY <1>0, <1>3
     DEF BufferStep, BufferLock, BufferTake, BufferSpin, BufferTest, BufferRetry,
         BufferSleep, BufferData, BufferPos, BufferUnlock, NextChar
<1>4. CASE LedStep
  BY <1>0, <1>4 DEF LedStep, LedButtonUp, LedRead, LedWrite, LedWait, taskVars
<1> QED
  BY <1>1, <1>2, <1>3, <1>4 DEF TaskStep

\* A step of a program keeps the types.  A task between the test and the store of
\* the control LED's port is alone, so what it read of the pins still holds.
LEMMA ScreenStepVars ==
  ASSUME VarsInv, LockInv, bank \in Banks, ScreenStep
  PROVE  VarsInv'
<1>1. LabelInv'
  BY TaskStepLabels DEF TaskStep, VarsInv
<1>2. UNCHANGED <<hold, readPos, writePos, data>>
  BY DEF ScreenStep, LockScreen, LockAcquired, LockBusy, LockSleep, UnlockScreen, CountSleep,
         WaitBusy, ClearBits, StillBusy, NotBusy, SendHigh, ClearHigh, SendLow, ClearLow, bufferVars
<1>3. pc[bank] \in ScreenLabels \cup {"count_sleep"}
  BY DEF ScreenStep, LockScreen, LockAcquired, LockBusy, LockSleep, UnlockScreen, CountSleep,
         WaitBusy, ClearBits, StillBusy, NotBusy, SendHigh, ClearHigh, SendLow, ClearLow, At,
         ScreenLabels, InScreenLabels
<1>4. \A b \in Banks : b # bank => pc'[b] = pc[b]
  BY DEF ScreenStep, LockScreen, LockAcquired, LockBusy, LockSleep, UnlockScreen, CountSleep,
         WaitBusy, ClearBits, StillBusy, NotBusy, SendHigh, ClearHigh, SendLow, ClearLow, Goto,
         VarsInv, LabelInv
<1>5. ora' \in Bytes /\ driven' \in BOOLEAN /\ lcd' \in LcdStates
  <2> USE DEF VarsInv
  <2>1. CASE LockScreen \/ LockAcquired \/ LockBusy \/ LockSleep \/ UnlockScreen \/ CountSleep
    BY <2>1 DEF LockScreen, LockAcquired, LockBusy, LockSleep, UnlockScreen, CountSleep, displayVars
  <2>2. CASE WaitBusy \/ ClearBits \/ StillBusy \/ NotBusy \/ ClearHigh \/ ClearLow
    BY <2>2, PinsAreBytes DEF WaitBusy, ClearBits, StillBusy, NotBusy, ClearHigh, ClearLow, Bytes
  <2>3. Nybble(bank, "high") \in Tokens /\ Nybble(bank, "low") \in Tokens /\ RSFlag(Kind(bank)) \subseteq Tokens
    BY DEF Nybble, Tokens, RSFlag
  <2>4. CASE SendHigh
    BY <2>3, <2>4 DEF SendHigh, Bytes, LcdStates
  <2>5. CASE SendLow
    BY <2>3, <2>5 DEF SendLow, Bytes, LcdStates
  <2> QED
    BY <2>1, <2>2, <2>4, <2>5 DEF ScreenStep
<1>6. HoldInv'
  <2>1. ASSUME NEW b \in Banks, pc'[b] = "led_write"
        PROVE  FALSE
    <3>1. b # bank
      BY <2>1, <1>3, <1>1, TextOf DEF ScreenStep, LockScreen, LockAcquired, LockBusy, LockSleep, UnlockScreen, CountSleep,
         WaitBusy, ClearBits, StillBusy, NotBusy, SendHigh, ClearHigh, SendLow, ClearLow, Goto, VarsInv, LabelInv
    <3> QED
      BY <3>1, <2>1, <1>4 DEF LockInv, TestIsGood, MaskedLabels
  <2> QED
    BY <1>2, <2>1 DEF HoldInv, VarsInv
<1>7. at' \in [Banks -> Nat] /\ AtInv'
  <2>1. CASE LockAcquired
    <3>1. Len(Screen[Program(bank)]) \in Nat \ {0}
      BY <2>1, TextOf DEF LockAcquired, At, VarsInv, ScreenLabels
    <3> QED
      BY <2>1, <3>1, <1>4 DEF LockAcquired, VarsInv, AtInv, InScreen
  <2>2. CASE ClearLow
    <3>1. at[bank] \in 1 .. Len(Screen[Program(bank)]) /\ Len(Screen[Program(bank)]) \in Nat \ {0}
      BY <2>2, TextOf DEF ClearLow, At, VarsInv, AtInv, InScreen, ScreenLabels, InScreenLabels
    <3>2. CASE at[bank] = Len(Screen[Program(bank)])
      BY <2>2, <3>1, <3>2, <1>4 DEF ClearLow, Goto, At, VarsInv, AtInv, InScreen
    <3>3. CASE at[bank] # Len(Screen[Program(bank)])
      <4>1. at' = [at EXCEPT ![bank] = @ + 1]
        BY <2>2, <3>3 DEF ClearLow
      <4>2. at[bank] + 1 \in 1 .. Len(Screen[Program(bank)])
        BY <3>1, <3>3
      <4> QED
        BY <4>1, <4>2, <1>4 DEF VarsInv, AtInv, InScreen
    <3> QED
      BY <3>2, <3>3
  <2>3. CASE ~ LockAcquired /\ ~ ClearLow
    <3>1. at' = at
      BY <2>3 DEF ScreenStep, LockScreen, LockBusy, LockSleep, UnlockScreen, CountSleep,
         WaitBusy, ClearBits, StillBusy, NotBusy, SendHigh, ClearHigh, SendLow
    <3>2. pc'[bank] \in InScreenLabels => InScreen(bank)
      BY <2>3 DEF ScreenStep, LockScreen, LockBusy, LockSleep, UnlockScreen, CountSleep,
         WaitBusy, ClearBits, StillBusy, NotBusy, SendHigh, ClearHigh, SendLow, At, Goto, InScreen, InScreenLabels, VarsInv, LabelInv
    <3> QED
      BY <1>4, <3>1, <3>2 DEF VarsInv, AtInv, InScreen, InScreenLabels
  <2> QED
    BY <2>1, <2>2, <2>3
<1> QED
  BY <1>1, <1>2, <1>5, <1>6, <1>7 DEF VarsInv

LEMMA BufferStepVars ==
  ASSUME VarsInv, LockInv, bank \in Banks, BufferStep
  PROVE  VarsInv'
<1>1. LabelInv'
  BY TaskStepLabels DEF TaskStep, VarsInv
<1>2. UNCHANGED <<at, ora, driven, lcd>>
  BY DEF BufferStep, BufferLock, BufferTake, BufferSpin, BufferTest, BufferRetry,
         BufferSleep, BufferData, BufferPos, BufferUnlock, NextChar, displayVars
<1>3. pc[bank] \in BufferLabels \cup {"next_char"} /\ pc'[bank] \notin InScreenLabels
  BY DEF BufferStep, BufferLock, BufferTake, BufferSpin, BufferTest, BufferRetry,
         BufferSleep, BufferData, BufferPos, BufferUnlock, NextChar, At, Goto, BufferLabels, InScreenLabels,
         VarsInv, LabelInv
<1>4. \A b \in Banks : b # bank => pc'[b] = pc[b] /\ hold'[b] = hold[b]
  BY DEF BufferStep, BufferLock, BufferTake, BufferSpin, BufferTest, BufferRetry,
         BufferSleep, BufferData, BufferPos, BufferUnlock, NextChar, Goto, VarsInv, LabelInv
<1>5. bank \in Assigned /\ Program(bank) \in {"reader", "writer"}
  BY <1>3, ProgramKinds DEF VarsInv, LabelInv, MyLabels, LabelsOf, BufferLabels, ScreenLabels, InScreenLabels
<1>6. /\ hold' \in [Banks -> Values \cup {NoValue} \cup Bytes]
      /\ Program(bank) = "writer" => hold'[bank] \in Values
      /\ Program(bank) = "reader" => hold'[bank] \in Values \cup {NoValue}
      /\ data' \in [Positions -> Values \cup {NoValue}]
  <2>1. CASE BufferData
    BY <2>1, <1>5 DEF BufferData, VarsInv, HoldInv
  <2>2. CASE NextChar
    <3>1. Program(bank) = "writer"
      BY <2>2, <1>5 DEF NextChar, At, VarsInv, LabelInv, MyLabels, LabelsOf, BufferLabels, ScreenLabels, InScreenLabels
    <3> QED
      BY <2>2, <3>1 DEF NextChar, VarsInv, HoldInv, bufferVars
  <2>3. CASE ~ BufferData /\ ~ NextChar
    <3>1. UNCHANGED <<hold, data>>
      BY <2>3 DEF BufferStep, BufferLock, BufferTake, BufferSpin, BufferTest, BufferRetry,
         BufferSleep, BufferPos, BufferUnlock, bufferVars
    <3> QED
      BY <3>1, <1>5 DEF VarsInv, HoldInv
  <2> QED
    BY <2>1, <2>2, <2>3
<1>7. HoldInv'
  <2>1. ASSUME NEW b \in Banks, pc'[b] = "led_write"
        PROVE  FALSE
    <3>1. b # bank
      BY <2>1, <1>1, <1>5 DEF LabelInv, MyLabels, LabelsOf, BufferLabels, ScreenLabels, InScreenLabels
    <3> QED
      BY <3>1, <2>1, <1>4, <1>3 DEF LockInv, TestIsGood, MaskedLabels
  <2> QED
    BY <1>4, <1>6, <2>1 DEF HoldInv, VarsInv
<1>8. AtInv'
  BY <1>2, <1>3, <1>4 DEF VarsInv, AtInv, InScreen, InScreenLabels
<1>9. readPos' \in Positions /\ writePos' \in Positions
  BY BufferAssumption
     DEF BufferStep, BufferLock, BufferTake, BufferSpin, BufferTest, BufferRetry,
         BufferSleep, BufferData, BufferPos, BufferUnlock, NextChar, bufferVars, NextPos, Positions, VarsInv
<1> QED
  BY <1>1, <1>2, <1>6, <1>7, <1>8, <1>9 DEF VarsInv

LEMMA LedStepVars ==
  ASSUME VarsInv, LockInv, bank \in Banks, MainLoop \/ LedStep
  PROVE  VarsInv'
<1>1. LabelInv'
  BY TaskStepLabels DEF TaskStep, VarsInv
<1>2. UNCHANGED <<at, readPos, writePos, data, driven, lcd>>
  BY DEF MainLoop, LedStep, LedButtonUp, LedRead, LedWrite, LedWait, bufferVars, displayVars, taskVars
<1>3. \A b \in Banks : b # bank => pc'[b] = pc[b] /\ hold'[b] = hold[b]
  BY DEF MainLoop, LedStep, LedButtonUp, LedRead, LedWrite, LedWait, Goto, taskVars, VarsInv, LabelInv
<1>4. pc'[bank] \notin InScreenLabels /\ pc[bank] \in {"main", "led", "led_write", "led_wait"}
  BY DEF MainLoop, LedStep, LedButtonUp, LedRead, LedWrite, LedWait, At, Goto, InScreenLabels, taskVars, VarsInv, LabelInv
<1>5. bank \in Assigned => Program(bank) \in {"main", "led"}
  BY <1>4, ProgramKinds DEF VarsInv, LabelInv, MyLabels, LabelsOf, BufferLabels, ScreenLabels, InScreenLabels
<1>6. \A b \in Banks : b # bank => pc[b] # "led_write" \/ pc[bank] # "led_write"
  BY DEF LockInv, TestIsGood, MaskedLabels
<1>7. /\ ora' \in Bytes /\ hold' \in [Banks -> Values \cup {NoValue} \cup Bytes]
      /\ pc'[bank] = "led_write" => hold'[bank] \in Pins'
      /\ ora' # ora => pc[bank] = "led_write"
  <2>1. CASE LedRead
    <3>1. ora' = ora /\ driven' = driven
      BY <2>1 DEF LedRead, displayVars
    <3>2. Pins' = Pins
      BY <3>1 DEF Pins, OpenReadings
    <3> QED
      BY <2>1, <3>1, <3>2, PinsAreBytes DEF LedRead, VarsInv
  <2>2. CASE LedWrite
    BY <2>2, PinsAreBytes DEF LedWrite, At, Goto, VarsInv, LabelInv, HoldInv
  <2>3. CASE MainLoop \/ LedButtonUp \/ LedWait
    BY <2>3 DEF MainLoop, LedButtonUp, LedWait, At, Goto, taskVars, displayVars, VarsInv, LabelInv
  <2> QED
    BY <2>1, <2>2, <2>3 DEF LedStep
<1>8. HoldInv'
  <2>1. ASSUME NEW b \in Banks, b # bank, pc'[b] = "led_write"
        PROVE  FALSE
    BY <2>1, <1>3, <1>4 DEF LockInv, TestIsGood, MaskedLabels, At, MainLoop, LedStep, LedButtonUp, LedRead, LedWrite, LedWait, CanExecute
  <2> QED
    BY <1>3, <1>5, <1>7, <2>1 DEF HoldInv, VarsInv
<1>9. AtInv'
  BY <1>2, <1>3, <1>4 DEF VarsInv, AtInv, InScreen, InScreenLabels
<1> QED
  BY <1>1, <1>2, <1>7, <1>8, <1>9 DEF VarsInv

LEMMA NextVars ==
  ASSUME VarsInv, LockInv, bank \in Banks, [Next]_vars
  PROVE  VarsInv'
<1>1. CASE KernelStep \/ UNCHANGED vars
  <2>1. UNCHANGED taskVars
    BY <1>1 DEF KernelStep, vars
  <2> QED
    BY <2>1 DEF taskVars, bufferVars, displayVars, VarsInv, LabelInv, HoldInv, Pins, OpenReadings,
                AtInv, InScreen
<1>2. CASE TaskStep
  BY <1>2, ScreenStepVars, BufferStepVars, LedStepVars DEF TaskStep
<1> QED
  BY <1>1, <1>2 DEF Next

\* What the types rest on holds in every reachable state: where each program can be,
\* and what is in its registers there.
THEOREM VarsInvariant == Spec => []VarsInv
<1>1. LockInv => bank \in Banks
  BY DEF LockInv
<1> QED
  BY <1>1, InitVarsInv, NextVars, LockInvariant, PTL DEF Spec

\* Every variable of the programs keeps its type: nobody leaves his program, nor his
\* text, the positions stay in the buffer, and a port value is never taken for a
\* character.
THEOREM TaskTypes == Spec => []TaskTypeOK
<1>1. LockInv /\ KernelInv /\ VarsInv => TaskTypeOK
  <2> SUFFICES ASSUME LockInv, KernelInv, VarsInv PROVE TaskTypeOK
    OBVIOUS
  <2>1. screenLock \in Nat /\ bufferLock \in {0, 1}
    BY DEF LockInv, ScreenExclusion, BufferExclusion
  <2>2. lcd.first \subseteq Tokens /\ lcd.cursor \in Banks
    BY DEF VarsInv, LcdStates, Bytes
  <2>3. lcd.shown = <<>> \/ lcd.shown \in (SUBSET Tokens) \X (SUBSET Tokens)
    BY DEF VarsInv, LcdStates, Bytes
  <2> QED
    BY <2>1, <2>2, <2>3 DEF TaskTypeOK, KernelInv, VarsInv, LabelInv, Bytes
<1>2. Spec => []KernelInv
  BY TasksRefineKernel, KernelInvariant, PTL
<1> QED
  BY <1>1, <1>2, LockInvariant, VarsInvariant, PTL

-----------------------------------------------------------------------------
(***************************************************************************)
(* The display                                                             *)
(***************************************************************************)
NoLed == "led" \notin {Programs[i] : i \in DOMAIN Programs}

\* What led_control may have left on the port: it writes what the pins read.
Stray == IF NoLed THEN {} ELSE {OpenPins}
Sending(s, x) == s \ Stray = x

HighByte(b) == {Nybble(b, "high")} \cup RSFlag(Kind(b))

(***************************************************************************)
(* What is on the port follows from where the task is that has the screen: *)
(* this is the inductive form of "the display receives what was sent".     *)
(***************************************************************************)
PortOf(b) ==
  /\ pc[b] \in {"wait", "drive", "high", "unlock"} => Sending(ora, {})
  /\ pc[b] = "clear" => ora \subseteq {OpenPins}
  /\ pc[b] = "clear_high" => Sending(ora, HighByte(b))
  /\ pc[b] = "low" => Sending(ora, RSFlag(Kind(b)))
  /\ pc[b] \in {"clear_high", "low"} => Sending(lcd.first, HighByte(b))
  /\ pc[b] \in InScreenLabels \ {"clear", "drive"} => driven
  /\ InScreen(b) /\ at[b] > 1 => lcd.cursor = b
  /\ pc[b] = "clear_low" => lcd.cursor = b

PortAtRest == (\A b \in Banks : ~ InScreen(b)) => Sending(ora, {}) /\ driven

ShownWasSent ==
  lcd.shown # <<>> =>
    \E b \in Banks, kind \in {"cursor", "char"} :
      /\ Sending(lcd.shown[1], Sent(b, kind)[1])
      /\ Sending(lcd.shown[2], Sent(b, kind)[2])
      /\ lcd.cursor = b

DisplayInv == (\A b \in Banks : PortOf(b)) /\ PortAtRest /\ ShownWasSent

LEMMA TokensDiffer ==
  ASSUME NEW b \in Banks
  PROVE  /\ RS # OpenPins
         /\ \A half \in {"high", "low"} : Nybble(b, half) # RS /\ Nybble(b, half) # OpenPins
BY DEF RS, OpenPins, Nybble

LEMMA InitDisplay == Init => DisplayInv
<1> SUFFICES ASSUME Init PROVE DisplayInv
  OBVIOUS
<1>1. \A b \in Banks : pc[b] \in {"main", "lock", "buf_lock", "led"}
  <2>1. \A b \in Banks : Entry(b) \in {"main", "lock", "buf_lock", "led"}
    BY ProgramKinds DEF Entry, EntryLabel
  <2> QED
    BY <2>1 DEF Init
<1>2. \A b \in Banks : PortOf(b)
  BY <1>1 DEF PortOf, InScreen, InScreenLabels
<1>3. PortAtRest /\ ShownWasSent
  BY DEF Init, PortAtRest, ShownWasSent, Sending, Stray
<1> QED
  BY <1>2, <1>3 DEF DisplayInv

\* Steps that neither touch the port nor enter or leave the screen.
LEMMA ElsewhereKeepsDisplay ==
  ASSUME DisplayInv, UNCHANGED displayVars,
         \A b \in Banks :
           \/ pc'[b] = pc[b] /\ at'[b] = at[b]
           \/ ~ InScreen(b) /\ pc'[b] \notin InScreenLabels
  PROVE  DisplayInv'
<1>1. \A b \in Banks : PortOf(b)'
  BY DEF DisplayInv, displayVars, PortOf, InScreenLabels, InScreen, Sending, HighByte, Kind
<1>2. PortAtRest' /\ ShownWasSent'
  BY DEF DisplayInv, displayVars, PortAtRest, ShownWasSent, InScreenLabels, InScreen, Sending, Sent
<1> QED
  BY <1>1, <1>2 DEF DisplayInv

\* A step of the task that has the screen: it is enough to look at that task.
LEMMA HolderKeepsDisplay ==
  ASSUME VarsInv, LockInv, InScreen(bank), bank \in Banks,
         \A b \in Banks : b # bank => pc'[b] = pc[b] /\ at'[b] = at[b],
         pc' \in [Banks -> Labels],
         NEW h \in Banks, h = bank,
         PortOf(h)',
         ~ InScreen(h)' => Sending(ora, {})' /\ driven',
         ShownWasSent'
  PROVE  DisplayInv'
<1>1. \A b \in Banks : b # bank => ~ InScreen(b)
  BY DEF LockInv, ScreenExclusion
<1>2. ASSUME NEW b \in Banks, b # bank
      PROVE  PortOf(b)'
  BY <1>1, <1>2 DEF PortOf, InScreen, InScreenLabels
<1>3. PortAtRest'
  BY DEF PortAtRest
<1> QED
  BY <1>2, <1>3 DEF DisplayInv

LEMMA ScreenStepDisplay ==
  ASSUME VarsInv, LockInv, DisplayInv, bank \in Banks, ScreenStep
  PROVE  DisplayInv'
<1>1. LabelInv'
  BY TaskStepLabels DEF TaskStep, VarsInv
<1>2. \A b \in Banks : b # bank => pc'[b] = pc[b] /\ at'[b] = at[b]
  BY DEF ScreenStep, LockScreen, LockAcquired, LockBusy, LockSleep, UnlockScreen, CountSleep,
         WaitBusy, ClearBits, StillBusy, NotBusy, SendHigh, ClearHigh, SendLow, ClearLow, Goto,
         VarsInv, LabelInv
<1>3. CASE LockScreen \/ LockBusy \/ LockSleep \/ CountSleep
  <2>1. UNCHANGED displayVars /\ ~ InScreen(bank) /\ pc'[bank] \notin InScreenLabels
    BY <1>3 DEF LockScreen, LockBusy, LockSleep, CountSleep, At, Goto, InScreen, InScreenLabels,
                VarsInv, LabelInv
  <2> QED
    BY <2>1, <1>2, ElsewhereKeepsDisplay
<1>4. CASE LockAcquired
  <2>1. \A b \in Banks : ~ InScreen(b)
    BY <1>4 DEF LockAcquired, At, LockInv, TestIsGood, ScreenExclusion
  <2>2. UNCHANGED <<ora, driven, lcd>> /\ pc'[bank] = "wait" /\ at'[bank] = 1
    BY <1>4 DEF LockAcquired, displayVars, Goto, VarsInv, LabelInv
  <2>3. ShownWasSent'
    BY <2>2 DEF DisplayInv, ShownWasSent, Sending, Sent
  <2>4. Sending(ora, {})' /\ driven'
    BY <2>1, <2>2 DEF DisplayInv, PortAtRest, Sending
  <2>5. ASSUME NEW b \in Banks
        PROVE  PortOf(b)'
    <3>1. CASE b = bank
      BY <2>2, <2>4, <3>1 DEF PortOf
    <3>2. CASE b # bank
      BY <1>2, <2>1, <3>2 DEF PortOf, InScreen, InScreenLabels
    <3> QED
      BY <3>1, <3>2
  <2>6. PortAtRest'
    BY <2>4 DEF PortAtRest
  <2> QED
    BY <2>3, <2>5, <2>6 DEF DisplayInv
<1>5. CASE ~ LockScreen /\ ~ LockBusy /\ ~ LockSleep /\ ~ CountSleep /\ ~ LockAcquired
  <2>1. InScreen(bank) /\ PortOf(bank) /\ ShownWasSent
    BY <1>5 DEF ScreenStep, UnlockScreen, WaitBusy, ClearBits, StillBusy, NotBusy, SendHigh, ClearHigh,
                SendLow, ClearLow, At, InScreen, DisplayInv
  <2>2. PICK h \in Banks : h = bank
    OBVIOUS
  <2>3. bank' = bank
    BY <1>5 DEF ScreenStep, UnlockScreen, WaitBusy, ClearBits, StillBusy, NotBusy, SendHigh, ClearHigh,
                SendLow, ClearLow, Plain, kernelVars
  <2>4. at[h] \in 1 .. Len(Screen[Program(h)]) /\ Screen[Program(h)] \in Seq({"cursor", "char"})
        /\ Screen[Program(h)][1] = "cursor" /\ Kind(h) \in {"cursor", "char"}
    BY <2>1, <2>2, TextOf DEF VarsInv, AtInv, InScreen, ScreenLabels, InScreenLabels, Kind
  <2> USE <2>1, <2>2, <2>3, <2>4, TokensDiffer DEF VarsInv, LabelInv, At, Goto
  <2>5. CASE UnlockScreen
    <3>1. UNCHANGED <<at, ora, driven, lcd>> /\ pc'[h] \notin InScreenLabels /\ pc[h] = "unlock"
      BY <2>5 DEF UnlockScreen, displayVars, InScreenLabels
    <3>2. PortOf(h)' /\ Sending(ora, {})' /\ driven' /\ ShownWasSent'
      BY <3>1 DEF PortOf, InScreen, InScreenLabels, Sending, ShownWasSent, Sent
    <3> QED
      BY <3>2, <1>1, <1>2, HolderKeepsDisplay
  <2>6. CASE WaitBusy
    <3>1. /\ UNCHANGED <<at, lcd>> /\ pc'[h] = "clear" /\ pc[h] = "wait"
          /\ driven' = FALSE /\ ora' \in OpenReadings
      BY <2>6 DEF WaitBusy
    <3>2. ora' \subseteq {OpenPins}
      BY <3>1 DEF OpenReadings, PortOf, Sending, Stray
    <3>3. PortOf(h)' /\ InScreen(h)' /\ ShownWasSent'
      BY <3>1, <3>2 DEF PortOf, InScreen, InScreenLabels, Sending, ShownWasSent, Sent
    <3> QED
      BY <3>3, <1>1, <1>2, HolderKeepsDisplay
  <2>7. CASE ClearBits
    <3>1. UNCHANGED <<at, lcd>> /\ pc'[h] = "drive" /\ pc[h] = "clear" /\ ora' = {}
      BY <2>7 DEF ClearBits
    <3>2. PortOf(h)' /\ InScreen(h)' /\ ShownWasSent'
      BY <3>1 DEF PortOf, InScreen, InScreenLabels, Sending, ShownWasSent, Sent
    <3> QED
      BY <3>2, <1>1, <1>2, HolderKeepsDisplay
  <2>8. CASE StillBusy \/ NotBusy
    <3>1. /\ UNCHANGED <<at, lcd, ora>> /\ pc'[h] \in {"wait", "high"} /\ pc[h] = "drive"
          /\ driven' = TRUE
      BY <2>8 DEF StillBusy, NotBusy
    <3>2. PortOf(h)' /\ InScreen(h)' /\ ShownWasSent'
      BY <3>1 DEF PortOf, InScreen, InScreenLabels, Sending, ShownWasSent, Sent
    <3> QED
      BY <3>2, <1>1, <1>2, HolderKeepsDisplay
  <2>9. CASE SendHigh
    <3>1. /\ UNCHANGED <<at, driven>> /\ pc'[h] = "clear_high" /\ pc[h] = "high"
          /\ ora' = ora \cup HighByte(h)
          /\ lcd' = [lcd EXCEPT !.first = ora']
      BY <2>9 DEF SendHigh, HighByte
    <3>2. HighByte(h)' = HighByte(h)
      BY <3>1 DEF HighByte, Kind
    <3>3. Sending(ora', HighByte(h))
      BY <3>1 DEF PortOf, Sending, Stray, HighByte, RSFlag
    <3>4. lcd'.first = ora' /\ lcd'.shown = lcd.shown /\ lcd'.cursor = lcd.cursor
      BY <3>1 DEF LcdStates
    <3>5. PortOf(h)' /\ InScreen(h)' /\ ShownWasSent'
      BY <3>1, <3>2, <3>3, <3>4 DEF PortOf, InScreen, InScreenLabels, Sending, ShownWasSent, Sent
    <3> QED
      BY <3>5, <1>1, <1>2, HolderKeepsDisplay
  <2>10. CASE ClearHigh
    <3>1. UNCHANGED <<at, driven, lcd>> /\ pc'[h] = "low" /\ pc[h] = "clear_high" /\ ora' = ora \cap {RS}
      BY <2>10 DEF ClearHigh
    <3>2. HighByte(h)' = HighByte(h) /\ Kind(h)' = Kind(h)
      BY <3>1 DEF HighByte, Kind
    <3>3. Sending(ora', RSFlag(Kind(h)))
      BY <3>1 DEF PortOf, Sending, Stray, HighByte, RSFlag
    <3>4. PortOf(h)' /\ InScreen(h)' /\ ShownWasSent'
      BY <3>1, <3>2, <3>3 DEF PortOf, InScreen, InScreenLabels, Sending, ShownWasSent, Sent
    <3> QED
      BY <3>4, <1>1, <1>2, HolderKeepsDisplay
  <2>11. CASE SendLow
    <3>1. /\ UNCHANGED <<at, driven>> /\ pc'[h] = "clear_low" /\ pc[h] = "low"
          /\ ora' = ora \cup {Nybble(h, "low")}
          /\ lcd'.shown = <<lcd.first, ora'>>
          /\ lcd'.cursor = IF RS \in ora' THEN lcd.cursor ELSE h
      BY <2>11 DEF SendLow
    <3>2. RS \in ora' <=> Kind(h) = "char"
      BY <3>1 DEF PortOf, Sending, Stray, RSFlag
    <3>3. lcd'.cursor = h
      <4>1. Kind(h) = "char" => at[h] > 1
        BY DEF Kind
      <4> QED
        BY <3>1, <3>2, <4>1 DEF PortOf
    <3>4. Sending(lcd'.shown[1], Sent(h, Kind(h))[1]) /\ Sending(lcd'.shown[2], Sent(h, Kind(h))[2])
      <4>1. Sending(lcd.first, HighByte(h)) /\ Sending(ora, RSFlag(Kind(h)))
        BY <3>1 DEF PortOf
      <4>2. Sending(ora', RSFlag(Kind(h)) \cup {Nybble(h, "low")})
        BY <3>1, <4>1 DEF Sending, Stray
      <4>3. /\ Sent(h, Kind(h))[1] = HighByte(h)
            /\ Sent(h, Kind(h))[2] = RSFlag(Kind(h)) \cup {Nybble(h, "low")}
        BY DEF Sent, HighByte
      <4> HIDE DEF Sending, HighByte
      <4> QED
        BY <3>1, <4>1, <4>2, <4>3
    <3>5. ShownWasSent'
      BY <3>3, <3>4 DEF ShownWasSent, Sending, Sent
    <3>6. PortOf(h)' /\ InScreen(h)'
      BY <3>1, <3>3 DEF PortOf, InScreen, InScreenLabels
    <3> QED
      BY <3>5, <3>6, <1>1, <1>2, HolderKeepsDisplay
  <2>12. CASE ClearLow
    <3>1. UNCHANGED <<driven, lcd>> /\ pc'[h] \in {"unlock", "wait"} /\ pc[h] = "clear_low" /\ ora' = {}
      BY <2>12 DEF ClearLow
    <3>2. PortOf(h)' /\ InScreen(h)' /\ ShownWasSent'
      BY <3>1 DEF PortOf, InScreen, InScreenLabels, Sending, ShownWasSent, Sent
    <3> QED
      BY <3>2, <1>1, <1>2, HolderKeepsDisplay
  <2> QED
    BY <1>5, <2>5, <2>6, <2>7, <2>8, <2>9, <2>10, <2>11, <2>12 DEF ScreenStep
<1> QED
  BY <1>3, <1>4, <1>5

\* led_control writes back what the pins read.  With the data pins open it changes
\* the port only by what they read, and there is nothing on the port to lose then.
LEMMA LedStepDisplay ==
  ASSUME VarsInv, LockInv, DisplayInv, bank \in Banks, LedStep
  PROVE  DisplayInv'
<1>1. LabelInv'
  BY TaskStepLabels DEF TaskStep, VarsInv
<1>2. /\ \A b \in Banks : b # bank => pc'[b] = pc[b]
      /\ at' = at
      /\ ~ InScreen(bank) /\ pc'[bank] \notin InScreenLabels
  BY DEF LedStep, LedButtonUp, LedRead, LedWrite, LedWait, At, Goto, taskVars, InScreen, InScreenLabels,
         VarsInv, LabelInv
<1>3. CASE ~ LedWrite
  <2>1. UNCHANGED displayVars
    BY <1>3 DEF LedStep, LedButtonUp, LedRead, LedWait, taskVars, displayVars
  <2> QED
    BY <1>2, <2>1, ElsewhereKeepsDisplay
<1>4. CASE LedWrite
  <2>1. ~ NoLed
    <3>1. bank \in Assigned /\ Program(bank) = "led"
      BY <1>4, ProgramKinds DEF LedWrite, At, VarsInv, LabelInv, MyLabels, LabelsOf, BufferLabels,
                  ScreenLabels, InScreenLabels
    <3>2. bank - BANK_START \in DOMAIN Programs /\ Programs[bank - BANK_START] = "led"
      BY <3>1, ProgramsAssumption, BankAssumption DEF Assigned, Program, Banks
    <3> QED
      BY <3>2 DEF NoLed
  <2>2. Stray = {OpenPins}
    BY <2>1 DEF Stray
  <2>3. ora' \in Pins /\ UNCHANGED <<driven, lcd>>
    BY <1>4 DEF LedWrite, At, VarsInv, HoldInv
  <2>4. ShownWasSent'
    BY <2>3 DEF DisplayInv, ShownWasSent, Sending, Sent
  <2>5. CASE driven
    <3>1. UNCHANGED displayVars
      BY <2>3, <2>5 DEF Pins, displayVars
    <3> QED
      BY <1>2, <3>1, ElsewhereKeepsDisplay
  <2>6. CASE ~ driven
    <3>1. ora' \in OpenReadings
      BY <2>3, <2>6 DEF Pins
    <3>2. ASSUME NEW b \in Banks
          PROVE  PortOf(b)'
      <4>1. PortOf(b)
        BY DEF DisplayInv
      <4>2. InScreen(b)' => pc[b] \in {"clear", "drive"} /\ pc'[b] = pc[b]
        BY <1>2, <2>6, <4>1 DEF PortOf, InScreen, InScreenLabels
      <4>3. pc[b] \in {"clear", "drive"} => ora \subseteq {OpenPins}
        BY <2>2, <4>1 DEF PortOf, Sending
      <4>4. pc[b] \in {"clear", "drive"} => ora' \subseteq {OpenPins}
        BY <3>1, <4>3, TokensDiffer DEF OpenReadings
      <4> QED
        BY <1>2, <2>2, <2>3, <4>1, <4>2, <4>4 DEF PortOf, Sending, InScreen, InScreenLabels
    <3>3. PortAtRest'
      <4>1. PICK b \in Banks : InScreen(b)
        BY <2>6 DEF DisplayInv, PortAtRest
      <4>2. pc'[b] = pc[b]
        BY <1>2, <4>1
      <4> QED
        BY <4>1, <4>2 DEF PortAtRest, InScreen
    <3> QED
      BY <2>4, <3>2, <3>3 DEF DisplayInv
  <2> QED
    BY <2>5, <2>6
<1> QED
  BY <1>3, <1>4

LEMMA NextDisplay ==
  ASSUME VarsInv, LockInv, DisplayInv, bank \in Banks, [Next]_vars
  PROVE  DisplayInv'
<1>1. CASE KernelStep \/ UNCHANGED vars
  <2>1. UNCHANGED displayVars /\ pc' = pc /\ at' = at
    BY <1>1 DEF KernelStep, vars, taskVars
  <2> QED
    BY <2>1, ElsewhereKeepsDisplay
<1>2. CASE MainLoop
  <2>1. UNCHANGED displayVars /\ pc' = pc /\ at' = at
    BY <1>2 DEF MainLoop, taskVars
  <2> QED
    BY <2>1, ElsewhereKeepsDisplay
<1>3. CASE BufferStep
  <2>1. LabelInv'
    BY <1>3, TaskStepLabels DEF TaskStep, VarsInv
  <2>2. UNCHANGED displayVars /\ at' = at /\ ~ InScreen(bank) /\ pc'[bank] \notin InScreenLabels
    BY <1>3 DEF BufferStep, BufferLock, BufferTake, BufferSpin, BufferTest, BufferRetry,
         BufferSleep, BufferData, BufferPos, BufferUnlock, NextChar, At, Goto, InScreen, InScreenLabels,
         VarsInv, LabelInv
  <2>3. \A b \in Banks : b # bank => pc'[b] = pc[b]
    BY <1>3 DEF BufferStep, BufferLock, BufferTake, BufferSpin, BufferTest, BufferRetry,
         BufferSleep, BufferData, BufferPos, BufferUnlock, NextChar, Goto, VarsInv, LabelInv
  <2> QED
    BY <2>2, <2>3, ElsewhereKeepsDisplay
<1> QED
  BY <1>1, <1>2, <1>3, ScreenStepDisplay, LedStepDisplay DEF Next, TaskStep

\* What the two properties of the display rest on holds in every reachable state: the
\* port is the lock holder's, and what it has sent of its byte is where its program is.
THEOREM DisplayInvariant == Spec => []DisplayInv
<1>1. LockInv => bank \in Banks
  BY DEF LockInv
<1> QED
  BY <1>1, InitDisplay, NextDisplay, LockInvariant, VarsInvariant, PTL DEF Spec

\* Without led_control the display receives exactly the bytes that the tasks sent,
\* whatever is pre-empted between which two nybbles.
THEOREM DisplayReceivesWhatWasSent == Spec => []ScreenShowsWhatWasSent
<1>1. DisplayInv /\ VarsInv => ScreenShowsWhatWasSent
  <2> SUFFICES ASSUME DisplayInv, VarsInv, NoLed, lcd.shown # <<>>
               PROVE  \E b \in Banks, kind \in {"cursor", "char"} : lcd.shown = Sent(b, kind) /\ lcd.cursor = b
    BY DEF ScreenShowsWhatWasSent, NoLed
  <2>1. PICK b \in Banks, kind \in {"cursor", "char"} :
          /\ Sending(lcd.shown[1], Sent(b, kind)[1])
          /\ Sending(lcd.shown[2], Sent(b, kind)[2])
          /\ lcd.cursor = b
    BY DEF DisplayInv, ShownWasSent
  <2>2. lcd.shown \in Bytes \X Bytes
    BY DEF VarsInv, LcdStates
  <2>3. lcd.shown[1] = Sent(b, kind)[1] /\ lcd.shown[2] = Sent(b, kind)[2]
    BY <2>1 DEF Sending, Stray
  <2> QED
    BY <2>1, <2>2, <2>3 DEF Sent
<1> QED
  BY <1>1, DisplayInvariant, VarsInvariant, PTL

\* With led_control on the same port, too, both nybbles of a byte are one task's and
\* of one kind, and a character goes where its own task moved the cursor.
THEOREM DisplayNeverMixesTasks == Spec => []ScreenNeverMixesTasks
<1>1. DisplayInv => ScreenNeverMixesTasks
  <2> SUFFICES ASSUME DisplayInv, lcd.shown # <<>>
               PROVE  \E b \in Banks, kind \in {"cursor", "char"} :
                        /\ <<lcd.shown[1] \ {OpenPins}, lcd.shown[2] \ {OpenPins}>> = Sent(b, kind)
                        /\ lcd.cursor = b
    BY DEF ScreenNeverMixesTasks
  <2>1. PICK b \in Banks, kind \in {"cursor", "char"} :
          /\ Sending(lcd.shown[1], Sent(b, kind)[1])
          /\ Sending(lcd.shown[2], Sent(b, kind)[2])
          /\ lcd.cursor = b
    BY DEF DisplayInv, ShownWasSent
  <2>2. OpenPins \notin Sent(b, kind)[1] /\ OpenPins \notin Sent(b, kind)[2]
    BY TokensDiffer DEF Sent, RSFlag
  <2>3. /\ lcd.shown[1] \ {OpenPins} = Sent(b, kind)[1]
        /\ lcd.shown[2] \ {OpenPins} = Sent(b, kind)[2]
    BY <2>1, <2>2 DEF Sending, Stray
  <2> QED
    BY <2>1, <2>3 DEF Sent
<1> QED
  BY <1>1, DisplayInvariant, PTL

-----------------------------------------------------------------------------
(***************************************************************************)
(* The ring buffer: buffer_read and buffer_write are a FIFO, for any size of *)
(* the buffer and any number of readers and writers.                       *)
(***************************************************************************)

\* What a task has made sure of, or has done, stays so while it has the lock.
BufferInv ==
  \A b \in Assigned :
    /\ Program(b) = "reader" /\ pc[b] = "buf_data" => writePos # readPos
    /\ Program(b) = "writer" /\ pc[b] \in {"buf_data", "buf_pos"} => NextPos(writePos) # readPos
    /\ Program(b) = "writer" /\ pc[b] = "buf_pos" => data[writePos] = hold[b]

\* From one position to another, going up and around.
Distance(from, to) == IF to >= from THEN to - from ELSE to - from + BufferSize

\* The position n places behind p.
Place(p, n) == IF p + n < BufferSize THEN p + n ELSE p + n - BufferSize

LEMMA NextPosition ==
  ASSUME NEW p \in Positions
  PROVE  NextPos(p) \in Positions
BY BufferAssumption DEF NextPos, Positions

LEMMA BufferRemainders ==
  ASSUME NEW p \in Positions, NEW q \in Positions
  PROVE  /\ (q - p) % BufferSize = Distance(p, q)
         /\ \A i \in 1 .. BufferSize : (p + i - 1) % BufferSize = Place(p, i - 1)
<1>0. BufferSize \in Nat \ {0} /\ p \in Int /\ q \in Int
  BY BufferAssumption DEF Positions
<1>1. \A a \in 0 .. BufferSize - 1 : a % BufferSize = a
  BY <1>0, SMT
<1>2. \A a \in BufferSize .. 2 * BufferSize - 1 : a % BufferSize = a - BufferSize
  BY <1>0, SMT
<1>3. \A a \in - BufferSize .. -1 : a % BufferSize = a + BufferSize
  BY <1>0, SMT
<1> QED
  BY <1>0, <1>1, <1>2, <1>3 DEF Positions, Distance, Place

\* The values between two positions, the cells being d.
QueueOf(from, to, d) == [i \in 1 .. Distance(from, to) |-> d[Place(from, i - 1)]]

Cells == Values \cup {NoValue}

LEMMA QueueSequence ==
  ASSUME NEW from \in Positions, NEW to \in Positions, NEW d \in [Positions -> Cells]
  PROVE  /\ Distance(from, to) \in 0 .. BufferSize - 1
         /\ \A i \in 1 .. BufferSize : Place(from, i - 1) \in Positions
         /\ QueueOf(from, to, d) \in Seq(Cells)
         /\ Len(QueueOf(from, to, d)) = Distance(from, to)
<1>1. Distance(from, to) \in 0 .. BufferSize - 1
  BY BufferAssumption DEF Positions, Distance
<1>2. \A i \in 1 .. BufferSize : Place(from, i - 1) \in Positions
  BY BufferAssumption DEF Positions, Place
<1>3. \A i \in 1 .. Distance(from, to) : i \in 1 .. BufferSize
  BY <1>1, BufferAssumption
<1> DEFINE n == Distance(from, to)
<1>4. QueueOf(from, to, d) \in [1 .. n -> Cells]
  BY <1>2, <1>3 DEF QueueOf
<1>5. n \in Nat
  BY <1>1
<1> HIDE DEF n
<1>6. QueueOf(from, to, d) \in Seq(Cells) /\ Len(QueueOf(from, to, d)) = n
  BY <1>4, <1>5
<1> QED
  BY <1>1, <1>2, <1>6 DEF n

\* Writing behind the last value makes the queue longer by that value.
LEMMA QueueGrows ==
  ASSUME NEW from \in Positions, NEW to \in Positions, NEW d \in [Positions -> Cells],
         NextPos(to) # from
  PROVE  /\ QueueOf(from, NextPos(to), d) = Append(QueueOf(from, to, d), d[to])
         /\ Len(QueueOf(from, to, d)) < BufferSize - 1
<1> DEFINE n == Distance(from, to)
           old == QueueOf(from, to, d)
           new == QueueOf(from, NextPos(to), d)
<1>1. NextPos(to) \in Positions
  BY BufferAssumption DEF Positions, NextPos
<1>2. n \in 0 .. BufferSize - 2 /\ Distance(from, NextPos(to)) = n + 1 /\ Place(from, n) = to
  BY BufferAssumption DEF Positions, NextPos, Distance, Place
<1>3. /\ old \in Seq(Cells) /\ Len(old) = n
      /\ new \in Seq(Cells) /\ Len(new) = n + 1
  BY <1>1, <1>2, QueueSequence
<1>4. ASSUME NEW i \in 1 .. n + 1
      PROVE  new[i] = Append(old, d[to])[i]
  <2>1. new[i] = d[Place(from, i - 1)]
    BY <1>2 DEF QueueOf
  <2>2. CASE i = n + 1
    <3>1. i - 1 = n
      BY <1>2, <2>2
    <3> HIDE DEF old, n
    <3>2. Append(old, d[to])[i] = d[to]
      BY <1>3, <2>2
    <3> QED
      BY <1>2, <2>1, <3>1, <3>2
  <2>3. CASE i # n + 1
    <3>1. i \in 1 .. n
      BY <1>2, <2>3
    <3>2. old[i] = d[Place(from, i - 1)]
      BY <3>1 DEF QueueOf
    <3> HIDE DEF old, n
    <3>3. Append(old, d[to])[i] = old[i]
      BY <1>3, <3>1
    <3> QED
      BY <2>1, <3>2, <3>3
  <2> QED
    BY <2>2, <2>3
<1>5. d[to] \in Cells
  OBVIOUS
<1> HIDE DEF old, new, n
<1>6. Append(old, d[to]) \in Seq(Cells) /\ Len(Append(old, d[to])) = n + 1
  BY <1>3, <1>5
<1>7. new = Append(old, d[to])
  BY <1>3, <1>4, <1>6
<1> QED
  BY <1>2, <1>3, <1>7, BufferAssumption DEF old, new

\* Reading the first value makes the queue shorter by that value.
LEMMA QueueShrinks ==
  ASSUME NEW from \in Positions, NEW to \in Positions, NEW d \in [Positions -> Cells],
         from # to
  PROVE  /\ QueueOf(from, to, d) # <<>>
         /\ QueueOf(NextPos(from), to, d) = Tail(QueueOf(from, to, d))
         /\ Head(QueueOf(from, to, d)) = d[from]
<1> DEFINE n == Distance(from, to)
           old == QueueOf(from, to, d)
           new == QueueOf(NextPos(from), to, d)
<1>1. NextPos(from) \in Positions
  BY BufferAssumption DEF Positions, NextPos
<1>2. n \in 1 .. BufferSize - 1 /\ Distance(NextPos(from), to) = n - 1 /\ Place(from, 0) = from
  BY BufferAssumption DEF Positions, NextPos, Distance, Place
<1>3. /\ old \in Seq(Cells) /\ Len(old) = n
      /\ new \in Seq(Cells) /\ Len(new) = n - 1
  BY <1>1, <1>2, QueueSequence
<1>4. ASSUME NEW i \in 1 .. n - 1
      PROVE  new[i] = Tail(old)[i]
  <2>1. new[i] = d[Place(NextPos(from), i - 1)]
    BY <1>2 DEF QueueOf
  <2>2. i + 1 \in 1 .. n /\ (i + 1) - 1 = i
    BY <1>2
  <2>3. old[i + 1] = d[Place(from, i)]
    BY <2>2 DEF QueueOf
  <2>4. Place(NextPos(from), i - 1) = Place(from, i)
    BY <1>2, BufferAssumption DEF Positions, NextPos, Place
  <2> HIDE DEF old, n
  <2>5. Tail(old)[i] = old[i + 1]
    BY <1>3, <1>2, <2>2
  <2> QED
    BY <2>1, <2>3, <2>4, <2>5
<1>5. old[1] = d[from]
  <2>1. 1 \in 1 .. n /\ 1 - 1 = 0
    BY <1>2
  <2> QED
    BY <1>2, <2>1 DEF QueueOf
<1> HIDE DEF old, new, n
<1>6. old # <<>>
  BY <1>2, <1>3
<1>7. Tail(old) \in Seq(Cells) /\ Len(Tail(old)) = n - 1 /\ Head(old) = old[1]
  BY <1>2, <1>3, <1>6
<1>8. new = Tail(old)
  BY <1>3, <1>4, <1>7
<1> QED
  BY <1>5, <1>6, <1>7, <1>8 DEF old, new

\* A value written to a free cell is not yet in the queue.
LEMMA QueueKeeps ==
  ASSUME NEW from \in Positions, NEW to \in Positions, NEW d, NEW e,
         \A q \in Positions \ {to} : e[q] = d[q]
  PROVE  QueueOf(from, to, e) = QueueOf(from, to, d)
<1>1. ASSUME NEW i \in 1 .. Distance(from, to)
      PROVE  Place(from, i - 1) \in Positions /\ Place(from, i - 1) # to
  BY BufferAssumption DEF Positions, Distance, Place
<1>2. ASSUME NEW i \in 1 .. Distance(from, to)
      PROVE  e[Place(from, i - 1)] = d[Place(from, i - 1)]
  BY <1>1
<1> QED
  BY <1>2 DEF QueueOf

-----------------------------------------------------------------------------
(***************************************************************************)
(* What each step does to the positions and the cells                      *)
(***************************************************************************)
Unbuffered == UNCHANGED <<readPos, writePos, data>>

\* Only the two steps of a task that has the lock touch the buffer, and only
\* they move a task to or from the second.
LEMMA OtherBufferSteps ==
  ASSUME VarsInv, LockInv, bank \in Banks, [Next]_vars, ~ BufferData, ~ BufferPos
  PROVE  /\ Unbuffered
         /\ \A b \in Banks : (pc'[b] = "buf_pos") = (pc[b] = "buf_pos")
         /\ \A b \in Banks : pc'[b] = "buf_data" => pc[b] = "buf_data" \/ (b = bank /\ BufferTest)
         /\ \A b \in Banks : pc[b] \in {"buf_data", "buf_pos"} => hold'[b] = hold[b]
         /\ \A b \in Readers : hold'[b] = hold[b]
<1> USE DEF At, Goto, VarsInv, LabelInv, Unbuffered, bufferVars, displayVars, taskVars
<1>0. \A b \in Readers : Program(b) = "reader" /\ b \in Banks
  BY DEF Readers, Assigned
<1>1. CASE KernelStep \/ UNCHANGED vars
  BY <1>0, <1>1 DEF KernelStep, vars
<1>2. CASE MainLoop
  BY <1>0, <1>2 DEF MainLoop
<1>3. CASE ScreenStep
  BY <1>0, <1>3
     DEF ScreenStep, LockScreen, LockAcquired, LockBusy, LockSleep, UnlockScreen, CountSleep,
         WaitBusy, ClearBits, StillBusy, NotBusy, SendHigh, ClearHigh, SendLow, ClearLow
<1>4. CASE BufferStep
  <2>1. pc[bank] = "next_char" => bank \notin Readers
    BY <1>0 DEF MyLabels, LabelsOf, BufferLabels, ScreenLabels, InScreenLabels, Readers
  <2> QED
    BY <1>0, <1>4, <2>1
       DEF BufferStep, BufferLock, BufferTake, BufferSpin, BufferTest, BufferRetry,
           BufferSleep, BufferUnlock, NextChar
<1>5. CASE LedStep
  <2>1. pc[bank] \in {"led", "led_write", "led_wait"} => bank \notin Readers
    BY <1>0 DEF MyLabels, LabelsOf, BufferLabels, ScreenLabels, InScreenLabels, Readers
  <2> QED
    BY <1>0, <1>5, <2>1 DEF LedStep, LedButtonUp, LedRead, LedWrite, LedWait
<1> QED
  BY <1>1, <1>2, <1>3, <1>4, <1>5 DEF Next, TaskStep

\* A task that accesses the buffer has it alone.
LEMMA BufferAlone ==
  ASSUME LockInv, bank \in Banks, InBuffer(bank)
  PROVE  \A b \in Banks : InBuffer(b) => b = bank
BY DEF LockInv, BufferExclusion

LEMMA InitBuffer == Init => BufferInv
<1> SUFFICES ASSUME Init PROVE BufferInv
  OBVIOUS
<1>1. \A b \in Banks : Entry(b) \in {"main", "lock", "buf_lock", "led"}
  BY ProgramKinds DEF Entry, EntryLabel
<1> QED
  BY <1>1 DEF Init, BufferInv, Assigned

LEMMA NextBuffer ==
  ASSUME VarsInv, LockInv, BufferInv, bank \in Banks, [Next]_vars
  PROVE  BufferInv'
<1>0. Assigned \subseteq Banks
  BY DEF Assigned
<1>1. CASE BufferData
  <2>1. /\ pc[bank] = "buf_data" /\ pc' = [pc EXCEPT ![bank] = "buf_pos"]
        /\ UNCHANGED <<readPos, writePos>>
        /\ Program(bank) = "writer" => data' = [data EXCEPT ![writePos] = hold[bank]] /\ hold' = hold
    BY <1>1 DEF BufferData, At, Goto
  <2>2. \A b \in Banks : b # bank => ~ InBuffer(b)
    BY <2>1, BufferAlone DEF InBuffer
  <2>3. \A b \in Banks : b # bank => pc'[b] \notin {"buf_data", "buf_pos"}
    BY <2>1, <2>2 DEF VarsInv, LabelInv, InBuffer
  <2>4. data'[writePos'] = hold'[bank] \/ Program(bank) # "writer"
    BY <2>1 DEF VarsInv
  <2> QED
    BY <1>0, <2>1, <2>3, <2>4 DEF BufferInv, NextPos, VarsInv, LabelInv
<1>2. CASE BufferPos
  <2>1. /\ pc[bank] = "buf_pos" /\ pc' = [pc EXCEPT ![bank] = "buf_unlock"]
    BY <1>2 DEF BufferPos, At, Goto
  <2>2. \A b \in Banks : b # bank => ~ InBuffer(b)
    BY <2>1, BufferAlone DEF InBuffer
  <2>3. \A b \in Banks : pc'[b] \notin {"buf_data", "buf_pos"}
    BY <2>1, <2>2 DEF VarsInv, LabelInv, InBuffer
  <2> QED
    BY <1>0, <2>3 DEF BufferInv
<1>3. CASE ~ BufferData /\ ~ BufferPos
  <2>1. /\ Unbuffered
        /\ \A b \in Banks : (pc'[b] = "buf_pos") = (pc[b] = "buf_pos")
        /\ \A b \in Banks : pc'[b] = "buf_data" => pc[b] = "buf_data" \/ (b = bank /\ BufferTest)
        /\ \A b \in Banks : pc[b] \in {"buf_data", "buf_pos"} => hold'[b] = hold[b]
    BY <1>3, OtherBufferSteps
  <2>2. ASSUME NEW b \in Assigned
        PROVE /\ Program(b) = "reader" /\ pc'[b] = "buf_data" => writePos # readPos
              /\ Program(b) = "writer" /\ pc'[b] \in {"buf_data", "buf_pos"} => NextPos(writePos) # readPos
              /\ Program(b) = "writer" /\ pc'[b] = "buf_pos" => data[writePos] = hold'[b]
    <3>1. CASE b = bank /\ BufferTest
      BY <3>1 DEF BufferTest, MustWait, At, Goto, VarsInv, LabelInv
    <3>2. CASE ~ (b = bank /\ BufferTest)
      BY <1>0, <2>1, <3>2 DEF BufferInv
    <3> QED
      BY <3>1, <3>2
  <2> QED
    BY <2>1, <2>2 DEF BufferInv, Unbuffered, NextPos
<1> QED
  BY <1>1, <1>2, <1>3

\* Nobody makes stale what buffer_read or buffer_write has tested or written while
\* the buffer's lock is held.
THEOREM BufferInvariant == Spec => []BufferInv
<1>1. LockInv => bank \in Banks
  BY DEF LockInv
<1> QED
  BY <1>1, InitBuffer, NextBuffer, LockInvariant, VarsInvariant, PTL DEF Spec

-----------------------------------------------------------------------------
(***************************************************************************)
(* The steps of the FIFO                                                   *)
(***************************************************************************)
Taken == [b \in Readers |-> hold[b]]

\* The queue of the refinement mapping, without its remainders.
LEMMA QueueIs ==
  ASSUME NEW q \in Positions, NEW w \in Positions, NEW d
  PROVE  [i \in 1 .. (w - q) % BufferSize |-> d[(q + i - 1) % BufferSize]] = QueueOf(q, w, d)
<1>1. (w - q) % BufferSize = Distance(q, w) /\ Distance(q, w) \in 0 .. BufferSize - 1
  BY BufferRemainders, BufferAssumption DEF Positions, Distance
<1>2. ASSUME NEW i \in 1 .. Distance(q, w)
      PROVE  (q + i - 1) % BufferSize = Place(q, i - 1)
  <2>1. i \in 1 .. BufferSize
    BY <1>1, BufferAssumption
  <2> QED
    BY <2>1, BufferRemainders
<1> QED
  BY <1>1, <1>2 DEF QueueOf

LEMMA MappedQueue ==
  ASSUME VarsInv
  PROVE  QueueStart \in Positions /\ Queue = QueueOf(QueueStart, writePos, data)
<1>1. QueueStart \in Positions
  BY BufferAssumption DEF VarsInv, QueueStart, NextPos, Positions
<1>2. writePos \in Positions
  BY DEF VarsInv
<1> QED
  BY <1>1, <1>2, QueueIs DEF Queue

LEMMA MappedQueueNext ==
  ASSUME VarsInv'
  PROVE  QueueStart' \in Positions /\ Queue' = QueueOf(QueueStart', writePos', data')
<1>2. writePos' \in Positions /\ readPos' \in Positions
  BY DEF VarsInv
<1>1. QueueStart' \in Positions
  <2>1. NextPos(readPos') \in Positions
    BY <1>2, NextPosition
  <2>2. QueueStart' = readPos' \/ QueueStart' = NextPos(readPos')
    BY DEF QueueStart, NextPos
  <2> QED
    BY <1>2, <2>1, <2>2
<1> QED
  BY <1>1, <1>2, QueueIs DEF Queue

\* A reader that has loaded the byte has taken it; nobody else is at that place.
LEMMA StartOfQueue ==
  ASSUME VarsInv, LockInv, bank \in Banks
  PROVE  /\ bank \in Readers /\ pc[bank] = "buf_pos" => QueueStart = NextPos(readPos)
         /\ InBuffer(bank) /\ ~ (bank \in Readers /\ pc[bank] = "buf_pos") => QueueStart = readPos
<1>1. InBuffer(bank) => \A b \in Banks : InBuffer(b) => b = bank
  BY BufferAlone
<1>2. \A b \in Banks : pc[b] = "buf_pos" => InBuffer(b)
  BY DEF InBuffer
<1>3. Assigned \subseteq Banks
  BY DEF Assigned
<1> QED
  BY <1>1, <1>2, <1>3 DEF QueueStart, Readers

LEMMA ReaderTakes ==
  ASSUME VarsInv, VarsInv', LockInv, LockInv', BufferInv, bank \in Banks, BufferData, bank \in Readers
  PROVE  \E r \in Readers : Fifo!Get(r)
<1>1. /\ Program(bank) = "reader" /\ bank \in Assigned
      /\ pc[bank] = "buf_data" /\ pc' = [pc EXCEPT ![bank] = "buf_pos"]
      /\ UNCHANGED <<readPos, writePos, data>>
      /\ hold' = [hold EXCEPT ![bank] = data[readPos]]
  BY DEF BufferData, At, Goto, Readers
<1>2. readPos # writePos
  BY <1>1 DEF BufferInv
<1>3. readPos \in Positions /\ writePos \in Positions /\ data \in [Positions -> Cells]
  BY DEF VarsInv, Cells
<1>4. QueueStart = readPos
  BY <1>1, StartOfQueue DEF InBuffer
<1>5. QueueStart' = NextPos(readPos)
  <2>1. pc'[bank] = "buf_pos"
    BY <1>1 DEF VarsInv, LabelInv
  <2> QED
    BY <1>1, <2>1 DEF QueueStart, NextPos
<1>6. Queue = QueueOf(readPos, writePos, data) /\ Queue' = QueueOf(NextPos(readPos), writePos, data)
  BY <1>1, <1>4, <1>5, MappedQueue, MappedQueueNext
<1>7. Queue # <<>> /\ Queue' = Tail(Queue) /\ Head(Queue) = data[readPos]
  BY <1>2, <1>3, <1>6, QueueShrinks
<1>8. Taken' = [Taken EXCEPT ![bank] = Head(Queue)]
  BY <1>1, <1>7 DEF Taken, VarsInv, Readers, Assigned
<1> QED
  BY <1>1, <1>7, <1>8 DEF Fifo!Get, Taken, Readers

LEMMA WriterPuts ==
  ASSUME VarsInv, VarsInv', LockInv, LockInv', BufferInv, bank \in Banks, BufferPos, bank \notin Readers
  PROVE  \E v \in Values : Fifo!Put(v)
<1>1. pc[bank] = "buf_pos" /\ pc' = [pc EXCEPT ![bank] = "buf_unlock"] /\ hold' = hold /\ data' = data
  BY DEF BufferPos, At, Goto
<1>2. bank \in Assigned /\ Program(bank) = "writer"
  BY <1>1, ProgramKinds
     DEF VarsInv, LabelInv, MyLabels, LabelsOf, BufferLabels, ScreenLabels, InScreenLabels, Readers
<1>3. readPos' = readPos /\ writePos' = NextPos(writePos)
  BY <1>2 DEF BufferPos
<1>4. NextPos(writePos) # readPos /\ data[writePos] = hold[bank] /\ hold[bank] \in Values
  BY <1>1, <1>2 DEF BufferInv, VarsInv, HoldInv
<1>5. readPos \in Positions /\ writePos \in Positions /\ data \in [Positions -> Cells]
  BY DEF VarsInv, Cells
<1>6. QueueStart = readPos
  BY <1>1, StartOfQueue DEF InBuffer
<1>7. QueueStart' = readPos
  <2>1. \A b \in Banks : pc'[b] # "buf_pos"
    BY <1>1, BufferAlone DEF InBuffer, VarsInv, LabelInv
  <2> QED
    BY <1>3, <2>1 DEF QueueStart, Assigned
<1>8. Queue = QueueOf(readPos, writePos, data) /\ Queue' = QueueOf(readPos, NextPos(writePos), data)
  BY <1>1, <1>3, <1>6, <1>7, MappedQueue, MappedQueueNext
<1>9. Queue' = Append(Queue, hold[bank]) /\ Len(Queue) < BufferSize - 1
  BY <1>4, <1>5, <1>8, QueueGrows
<1>10. Taken' = Taken
  BY <1>1 DEF Taken
<1> QED
  BY <1>4, <1>9, <1>10 DEF Fifo!Put, Taken

LEMMA BufferStutters ==
  ASSUME VarsInv, VarsInv', LockInv, LockInv', BufferInv, bank \in Banks, [Next]_vars,
         ~ (BufferData /\ bank \in Readers), ~ (BufferPos /\ bank \notin Readers)
  PROVE  Queue' = Queue /\ Taken' = Taken
<1>1. CASE BufferData
  <2>1. /\ pc[bank] = "buf_data" /\ pc' = [pc EXCEPT ![bank] = "buf_pos"]
        /\ UNCHANGED <<readPos, writePos>>
    BY <1>1 DEF BufferData, At, Goto
  <2>2. bank \in Assigned /\ Program(bank) = "writer" /\ bank \notin Readers
    BY <1>1, <2>1, ProgramKinds
       DEF VarsInv, LabelInv, MyLabels, LabelsOf, BufferLabels, ScreenLabels, InScreenLabels, Readers
  <2>3. hold' = hold /\ data' = [data EXCEPT ![writePos] = hold[bank]]
    BY <1>1, <2>2 DEF BufferData
  <2>4. QueueStart = readPos
    BY <2>1, StartOfQueue DEF InBuffer
  <2>5. QueueStart' = readPos
    <3>1. \A b \in Banks : b # bank => pc'[b] # "buf_pos"
      BY <2>1, BufferAlone DEF InBuffer, VarsInv, LabelInv
    <3> QED
      BY <2>1, <2>2, <3>1 DEF QueueStart, Assigned, Readers
  <2>6. /\ Queue = QueueOf(readPos, writePos, data)
        /\ Queue' = QueueOf(readPos, writePos, [data EXCEPT ![writePos] = hold[bank]])
    BY <2>1, <2>3, <2>4, <2>5, MappedQueue, MappedQueueNext
  <2>7. readPos \in Positions /\ writePos \in Positions /\ data \in [Positions -> Cells]
    BY DEF VarsInv, Cells
  <2>8. QueueOf(readPos, writePos, [data EXCEPT ![writePos] = hold[bank]]) = QueueOf(readPos, writePos, data)
    <3>1. PICK e : e = [data EXCEPT ![writePos] = hold[bank]]
      OBVIOUS
    <3>2. \A q \in Positions \ {writePos} : e[q] = data[q]
      BY <2>7, <3>1
    <3>3. QueueOf(readPos, writePos, e) = QueueOf(readPos, writePos, data)
      BY <2>7, <3>2, QueueKeeps
    <3> QED
      BY <3>1, <3>3
  <2> QED
    BY <2>3, <2>6, <2>8 DEF Taken
<1>2. CASE BufferPos
  <2>1. pc[bank] = "buf_pos" /\ pc' = [pc EXCEPT ![bank] = "buf_unlock"] /\ hold' = hold /\ data' = data
    BY <1>2 DEF BufferPos, At, Goto
  <2>2. bank \in Readers /\ readPos' = NextPos(readPos) /\ writePos' = writePos
    BY <1>2 DEF BufferPos, Readers
  <2>3. QueueStart = NextPos(readPos)
    BY <2>1, <2>2, StartOfQueue
  <2>4. QueueStart' = NextPos(readPos)
    <3>1. \A b \in Banks : pc'[b] # "buf_pos"
      BY <2>1, BufferAlone DEF InBuffer, VarsInv, LabelInv
    <3> QED
      BY <2>2, <3>1 DEF QueueStart, Assigned
  <2> QED
    BY <2>1, <2>2, <2>3, <2>4 DEF Queue, Taken
<1>3. CASE ~ BufferData /\ ~ BufferPos
  <2>1. /\ UNCHANGED <<readPos, writePos, data>>
        /\ \A b \in Banks : (pc'[b] = "buf_pos") = (pc[b] = "buf_pos")
        /\ \A b \in Readers : hold'[b] = hold[b]
    BY <1>3, OtherBufferSteps DEF Unbuffered
  <2>2. QueueStart' = QueueStart
    BY <2>1 DEF QueueStart, Assigned, NextPos
  <2> QED
    BY <2>1, <2>2 DEF Queue, Taken
<1> QED
  BY <1>1, <1>2, <1>3

\* buffer_read and buffer_write implement the FIFO of BoundedFIFO.tla: whatever
\* the size of the buffer, whoever reads and writes and wherever the tasks are
\* pre-empted, no value is lost, duplicated, reordered or overwritten.
THEOREM BufferRefinesFifo == Spec => BufferIsFifo
<1>1. Init => Fifo!Init
  <2> SUFFICES ASSUME Init PROVE Queue = <<>> /\ Taken = [r \in Readers |-> NoValue]
    BY DEF Fifo!Init, Taken
  <2>1. VarsInv /\ readPos = 0 /\ writePos = 0
    BY InitVarsInv DEF Init
  <2>2. QueueStart = 0
    <3>1. \A b \in Banks : Entry(b) # "buf_pos"
      BY ProgramKinds DEF Entry, EntryLabel
    <3> QED
      BY <2>1, <3>1 DEF QueueStart, Init, Assigned
  <2>3. Queue = QueueOf(0, 0, data) /\ 0 \in Positions /\ data \in [Positions -> Cells]
    BY <2>1, <2>2, MappedQueue DEF VarsInv, Cells
  <2>4. Distance(0, 0) = 0
    BY DEF Distance
  <2>5. Queue = <<>>
    BY <2>3, <2>4, QueueSequence
  <2>6. \A b \in Readers : hold[b] = NoValue
    BY DEF Init, Readers, Assigned
  <2> QED
    BY <2>5, <2>6 DEF Taken
<1>2. ASSUME VarsInv, VarsInv', LockInv, LockInv', BufferInv, [Next]_vars
      PROVE  [Fifo!Next]_<<Queue, [b \in Readers |-> hold[b]]>>
  <2>1. bank \in Banks
    BY <1>2 DEF LockInv
  <2>2. CASE BufferData /\ bank \in Readers
    <3>1. \E r \in Readers : Fifo!Get(r)
      BY <1>2, <2>1, <2>2, ReaderTakes
    <3> QED
      BY <3>1 DEF Fifo!Next
  <2>3. CASE BufferPos /\ bank \notin Readers
    <3>1. \E v \in Values : Fifo!Put(v)
      BY <1>2, <2>1, <2>3, WriterPuts
    <3> QED
      BY <3>1 DEF Fifo!Next
  <2>4. CASE ~ (BufferData /\ bank \in Readers) /\ ~ (BufferPos /\ bank \notin Readers)
    <3>1. Queue' = Queue /\ Taken' = Taken
      BY <1>2, <2>1, <2>4, BufferStutters
    <3> QED
      BY <3>1 DEF Taken
  <2> QED
    BY <2>2, <2>3, <2>4
<1> QED
  BY <1>1, <1>2, LockInvariant, VarsInvariant, BufferInvariant, PTL DEF Spec, Fifo!Spec, BufferIsFifo

=============================================================================
