------------------------- MODULE MultitaskingProofs -------------------------
(***************************************************************************)
(* What holds of the kernel for any number of banks and any width of the   *)
(* tick counter: types, and the match of every saved stack with the        *)
(* instructions that will pop it.                                          *)
(***************************************************************************)
EXTENDS Multitasking, TLAPS

\* FrameMatchesSleeping is not inductive: before timer 2 starts the other tasks
\* are on their banks with a frame for RTI, and the first bank has none.
BootFrames ==
  cpu = "boot" =>
    /\ bank = BANK_START
    /\ \A b \in Used : ~ sleeping[b] /\ frame[b] = (IF b = BANK_START THEN "none" ELSE "rti")

KernelInv ==
  /\ TypeOK
  /\ bank \in Used
  /\ BootFrames
  /\ FrameMatchesSleeping

-----------------------------------------------------------------------------

\* A tick count stays within its width, and so does the time to wake up.
LEMMA TickRange ==
  ASSUME NEW t \in 0 .. TickMod - 1
  PROVE  /\ NextTick(t) \in 0 .. TickMod - 1
         /\ \A n \in Nat : (t + n) % TickMod \in 0 .. TickMod - 1
<1>1. TickMod \in Nat \ {0}
  BY TickAssumption
<1>2. NextTick(t) \in 0 .. TickMod - 1
  BY <1>1 DEF NextTick
<1>3. ASSUME NEW n \in Nat
      PROVE  (t + n) % TickMod \in 0 .. TickMod - 1
  BY <1>1, <1>3
<1> QED
  BY <1>2, <1>3

\* The scan for the next bank, whatever it is called with, leaves a running
\* bank that has no frame and does not sleep, or a halt with a frame for every bank,
\* and does not touch the other banks.
LEMMA SwitchEffect ==
  ASSUME TypeOK,
         bank \in Used,
         NEW sl \in [Banks -> BOOLEAN],
         NEW wk \in [Banks -> 0 .. TickMod - 1],
         NEW now \in 0 .. TickMod - 1,
         NEW fr \in [Banks -> {"none", "rti", "rts"}],
         ticks' = now,
         UNCHANGED firstUnused,
         \A b \in Used : fr[b] # "none" /\ (fr[b] = "rts" <=> sl[b]),
         SwitchToNextBank(sl, wk, now, fr)
  PROVE  /\ cpu' \in {"run", "wai"}
         /\ bank' \in Used
         /\ masked' \in BOOLEAN
         /\ sleeping' \in [Banks -> BOOLEAN]
         /\ wakeAt' \in [Banks -> 0 .. TickMod - 1]
         /\ frame' \in [Banks -> {"none", "rti", "rts"}]
         /\ FrameMatchesSleeping'
<1>1. Used \subseteq Banks
  BY BankAssumption DEF TypeOK, Used, Banks
<1>2. wakeAt' = wk
  BY DEF SwitchToNextBank
<1>3. Used' = Used
  BY DEF Used
<1>4. CASE (\A b \in Used : ~ Ready(b, sl, wk, now)) /\ Halt(sl, fr)
  <2>1. /\ cpu' = "wai" /\ masked' = TRUE /\ sleeping' = sl /\ frame' = fr /\ bank' = bank
    BY <1>4 DEF Halt
  <2>2. FrameMatchesSleeping'
    BY <2>1, <1>3 DEF FrameMatchesSleeping
  <2> QED
    BY <1>2, <2>1, <2>2
<1>5. CASE \E b \in Used : Resume(b, sl, fr)
  <2>1. PICK b \in Used : Resume(b, sl, fr)
    BY <1>5
  <2>2. /\ cpu' = "run" /\ masked' = FALSE /\ bank' = b
        /\ sleeping' = [sl EXCEPT ![b] = FALSE]
        /\ frame' = [fr EXCEPT ![b] = "none"]
    BY <2>1 DEF Resume
  <2>3. FrameMatchesSleeping'
    BY <1>1, <1>3, <2>2 DEF FrameMatchesSleeping
  <2> QED
    BY <1>1, <1>2, <2>1, <2>2, <2>3
<1> QED
  BY <1>4, <1>5 DEF SwitchToNextBank, Scanned

LEMMA InitInv == KernelInit => KernelInv
<1> SUFFICES ASSUME KernelInit PROVE KernelInv
  OBVIOUS
<1>1. TypeOK
  <2>1. 0 \in 0 .. TickMod - 1
    BY TickAssumption
  <2>2. BANK_START \in Banks /\ BANK_START + 1 \in BANK_START + 1 .. BANK_STOP
    BY BankAssumption DEF Banks
  <2> QED
    BY <2>1, <2>2 DEF KernelInit, TypeOK
<1>2. Used = {BANK_START}
  BY BankAssumption DEF KernelInit, Used
<1>3. bank \in Used /\ BootFrames /\ FrameMatchesSleeping
  BY <1>2, BankAssumption
     DEF KernelInit, BootFrames, FrameMatchesSleeping, Banks
<1> QED
  BY <1>1, <1>3 DEF KernelInv

\* Every action of the kernel keeps the invariant.
LEMMA StepInv ==
  ASSUME KernelInv, KernelNext
  PROVE  KernelInv'
<1> USE DEF KernelInv
<1>0. Used \subseteq Banks
  BY BankAssumption DEF TypeOK, Used, Banks
<1>1. CASE AddProcess
  <2>1. CASE firstUnused = BANK_STOP
    BY <1>1, <2>1
       DEF AddProcess, TypeOK, BootFrames, FrameMatchesSleeping, Used
  <2>2. CASE firstUnused # BANK_STOP
    <3>1. /\ cpu = "boot" /\ cpu' = "boot" /\ bank' = bank
          /\ firstUnused' = firstUnused + 1
          /\ sleeping' = [sleeping EXCEPT ![firstUnused] = FALSE]
          /\ frame' = [frame EXCEPT ![firstUnused] = "rti"]
          /\ UNCHANGED <<masked, t2, ticks, wakeAt>>
      BY <1>1, <2>2 DEF AddProcess
    <3>2. firstUnused \in Banks /\ firstUnused' \in BANK_START + 1 .. BANK_STOP
      BY <2>2, <3>1, BankAssumption DEF TypeOK, Banks
    <3>3. Used' = Used \cup {firstUnused} /\ firstUnused # BANK_START /\ firstUnused \notin Used
      BY <3>1, BankAssumption DEF TypeOK, Used
    <3>4. TypeOK'
      BY <3>1, <3>2 DEF TypeOK
    <3>5. BootFrames'
      BY <1>0, <3>1, <3>2, <3>3 DEF BootFrames, TypeOK
    <3> QED
      BY <3>1, <3>3, <3>4, <3>5 DEF FrameMatchesSleeping
  <2> QED
    BY <2>1, <2>2
<1>2. CASE StartTimer
  BY <1>2 DEF StartTimer, TypeOK, BootFrames, FrameMatchesSleeping, Used
<1>3. CASE T2Expire
  BY <1>3 DEF T2Expire, TypeOK, BootFrames, FrameMatchesSleeping, Used
<1>4. CASE Interrupt
  <2> DEFINE fr == [frame EXCEPT ![bank] = "rti"]
  <2>1. fr \in [Banks -> {"none", "rti", "rts"}]
    BY DEF TypeOK
  <2>2. \A b \in Used : fr[b] # "none" /\ (fr[b] = "rts" <=> sleeping[b])
    BY <1>0, <1>4 DEF Interrupt, TypeOK, FrameMatchesSleeping
  <2>3. NextTick(ticks) \in 0 .. TickMod - 1
    BY TickRange DEF TypeOK
  <2>4. /\ t2' = FALSE /\ ticks' = NextTick(ticks) /\ firstUnused' = firstUnused
        /\ SwitchToNextBank(sleeping, wakeAt, NextTick(ticks), fr)
    BY <1>4 DEF Interrupt
  <2> HIDE DEF fr
  <2> QED
    BY <1>0, <2>1, <2>2, <2>3, <2>4, SwitchEffect DEF TypeOK, BootFrames, Used
<1>5. CASE WaiWake
  <2>1. \A b \in Used : frame[b] # "none" /\ (frame[b] = "rts" <=> sleeping[b])
    BY <1>5 DEF WaiWake, TypeOK, FrameMatchesSleeping
  <2>2. NextTick(ticks) \in 0 .. TickMod - 1
    BY TickRange DEF TypeOK
  <2>3. /\ t2' = FALSE /\ ticks' = NextTick(ticks) /\ firstUnused' = firstUnused
        /\ SwitchToNextBank(sleeping, wakeAt, NextTick(ticks), frame)
    BY <1>5 DEF WaiWake
  <2> QED
    BY <1>0, <2>1, <2>2, <2>3, SwitchEffect DEF TypeOK, BootFrames, Used
<1>6. ASSUME NEW n \in 0 .. MaxSleep, Sleep(n)
      PROVE  KernelInv'
  <2> DEFINE sl == [sleeping EXCEPT ![bank] = TRUE]
             wk == [wakeAt EXCEPT ![bank] = (ticks + n) % TickMod]
             fr == [frame EXCEPT ![bank] = "rts"]
  <2>1. sl \in [Banks -> BOOLEAN] /\ fr \in [Banks -> {"none", "rti", "rts"}]
    BY DEF TypeOK
  <2>2. wk \in [Banks -> 0 .. TickMod - 1]
    BY TickRange, TickAssumption DEF TypeOK
  <2>3. \A b \in Used : fr[b] # "none" /\ (fr[b] = "rts" <=> sl[b])
    BY <1>0, <1>6 DEF Sleep, CanExecute, TypeOK, FrameMatchesSleeping
  <2>4. /\ t2' = t2 /\ ticks' = ticks /\ firstUnused' = firstUnused
        /\ SwitchToNextBank(sl, wk, ticks, fr)
    BY <1>6 DEF Sleep
  <2> HIDE DEF sl, wk, fr
  <2> QED
    BY <1>0, <2>1, <2>2, <2>3, <2>4, SwitchEffect DEF TypeOK, BootFrames, Used
<1>7. CASE Sei
  BY <1>7 DEF Sei, CanExecute, TypeOK, BootFrames, FrameMatchesSleeping, Used
<1>8. CASE Cli
  BY <1>8 DEF Cli, CanExecute, TypeOK, BootFrames, FrameMatchesSleeping, Used
<1> QED
  BY <1>1, <1>2, <1>3, <1>4, <1>5, <1>6, <1>7, <1>8 DEF KernelNext, SleepSome

LEMMA StutterInv ==
  ASSUME KernelInv, UNCHANGED kernelVars
  PROVE  KernelInv'
BY DEF KernelInv, kernelVars, TypeOK, BootFrames, FrameMatchesSleeping, Used

\* The invariant holds in every reachable state of the kernel.
THEOREM KernelInvariant == KernelSpec => []KernelInv
<1>1. KernelInv /\ [KernelNext]_kernelVars => KernelInv'
  BY StepInv, StutterInv
<1> QED
  BY <1>1, InitInv, PTL DEF KernelSpec

\* Every variable keeps its type: the scan never leaves the used banks, the
\* counters never leave their width, and no task is added past BANK_STOP.
THEOREM TypeCorrect == KernelSpec => []TypeOK
<1>1. KernelInv => TypeOK
  BY DEF KernelInv
<1> QED
  BY <1>1, KernelInvariant, PTL

\* The kernel never resumes a bank with instructions that do not match the
\* frame on its stack: RTI after a switch of t2_irq, RTS after multi_sleep.
THEOREM ResumeCorrect == KernelSpec => []FrameMatchesSleeping
<1>1. KernelInv => FrameMatchesSleeping
  BY DEF KernelInv
<1> QED
  BY <1>1, KernelInvariant, PTL

=============================================================================
