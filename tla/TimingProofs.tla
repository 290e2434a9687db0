---------------------------- MODULE TimingProofs ----------------------------
(***************************************************************************)
(* How long a task waits for the CPU, for any number of banks and any      *)
(* width of the tick counter: no sleep is cut short, and none overruns.    *)
(***************************************************************************)
EXTENDS MultitaskingTiming, MultitaskingProofs

\* WAKE_AT, as a 16-bit number, is n ticks from now, or was n ticks ago.
Due(wake, now, n) == wake - now \in {n, n + TickMod, n - TickMod}

\* What is known of the tasks when the scan begins: the ticks a task has waited
\* beyond those it asked for, and the banks that are scanned before it, are
\* together no more than there are tasks.
ScanInv(sl, wk, now, asks, waits) ==
  \A b \in Used :
    /\ sl[b] => asks[b] >= 1 /\ Due(wk[b], now, asks[b] - 1 - waits[b])
    /\ ~ sl[b] => asks[b] = 0
    /\ waits[b] >= asks[b] => waits[b] + ScanDistance(b) <= asks[b] + TaskCount

\* And after it: of a task that waits beyond its time there is one bank less.
WaitInv ==
  \A b \in Used : ~ Running(b) =>
    /\ sleeping[b] => asked[b] >= 1 /\ Due(wakeAt[b], ticks, asked[b] - 1 - waited[b])
    /\ ~ sleeping[b] => asked[b] = 0
    /\ waited[b] >= asked[b] => waited[b] + ScanDistance(b) <= asked[b] + TaskCount - 1

TimingInv ==
  /\ asked \in [Banks -> 0 .. MaxSleep + 1]
  /\ waited \in [Banks -> Nat]
  /\ \A b \in Banks : cpu = "boot" \/ Running(b) => asked[b] = 0 /\ waited[b] = 0
  /\ cpu # "boot" => WaitInv

-----------------------------------------------------------------------------
(***************************************************************************)
(* The distances of the scan                                               *)
(***************************************************************************)
LEMMA AskedRange ==
  ASSUME NEW a \in 0 .. MaxSleep + 1
  PROVE  a \in Nat /\ a <= MaxSleep + 1
BY TickAssumption

LEMMA TaskCountRange ==
  ASSUME TypeOK
  PROVE  /\ TaskCount \in 1 .. BANK_STOP - BANK_START
         /\ TaskCount \in Nat /\ 2 * TaskCount <= TickMod
         /\ Used \subseteq Banks /\ Banks \subseteq Nat
BY BankAssumption, LatenessAssumption, TickAssumption DEF TypeOK, TaskCount, Used, Banks

LEMMA ScanDistances ==
  ASSUME TypeOK, bank \in Used, NEW b \in Used, NEW c \in Used
  PROVE  /\ ScanDistance(b) \in 1 .. TaskCount
         /\ ScanDistance(b) = ScanDistance(c) => b = c
BY BankAssumption DEF TypeOK, Used, Banks, TaskCount, ScanDistance

\* Passing the CPU to a bank that comes before b brings b nearer.
LEMMA ScanComesNearer ==
  ASSUME TypeOK, bank \in Used, NEW b \in Used, NEW c \in Used,
         bank' = c, firstUnused' = firstUnused, b # c, ScanDistance(c) <= ScanDistance(b)
  PROVE  ScanDistance(b)' \in 1 .. ScanDistance(b) - 1
BY BankAssumption DEF TypeOK, Used, Banks, ScanDistance

(***************************************************************************)
(* The sign of the 16-bit difference tells the past from the future.       *)
(***************************************************************************)
LEMMA ExpiredWhenDue ==
  ASSUME NEW wake \in 0 .. TickMod - 1, NEW now \in 0 .. TickMod - 1, NEW n \in Int,
         n <= MaxSleep, 2 * n >= - TickMod, Due(wake, now, n)
  PROVE  Expired(wake, now) <=> n < 0
<1>0. TickMod \in Nat \ {0} /\ MaxSleep \in Nat /\ 2 * MaxSleep < TickMod
  BY TickAssumption
<1>1. \A a \in 0 .. TickMod - 1 : a % TickMod = a
  BY <1>0, SMT
<1>2. \A a \in - TickMod .. -1 : a % TickMod = a + TickMod
  BY <1>0, SMT
<1> DEFINE e == wake - now
<1>3. e \in - TickMod .. TickMod - 1
  BY <1>0
<1>4. e % TickMod = IF e < 0 THEN e + TickMod ELSE e
  BY <1>0, <1>1, <1>2, <1>3
<1>5. e \in {n, n + TickMod, n - TickMod}
  BY DEF Due
<1> HIDE DEF e
<1>6. 2 * (e % TickMod) >= TickMod <=> n < 0
  BY <1>0, <1>3, <1>4, <1>5
<1> QED
  BY <1>6 DEF e, Expired

\* A tick brings a due time nearer by one, also when the counter wraps.
LEMMA DueAfterTick ==
  ASSUME NEW wake \in 0 .. TickMod - 1, NEW now \in 0 .. TickMod - 1, NEW n \in Int,
         n <= MaxSleep, 2 * n > - TickMod, Due(wake, now, n)
  PROVE  Due(wake, NextTick(now), n - 1)
BY TickAssumption DEF Due, NextTick

\* A due time is set n ticks ahead.
LEMMA DueWhenSet ==
  ASSUME NEW now \in 0 .. TickMod - 1, NEW n \in 0 .. MaxSleep
  PROVE  Due((now + n) % TickMod, now, n)
<1>0. TickMod \in Nat \ {0} /\ MaxSleep \in Nat /\ 2 * MaxSleep < TickMod
  BY TickAssumption
<1>1. \A a \in 0 .. TickMod - 1 : a % TickMod = a
  BY <1>0, SMT
<1>2. \A a \in TickMod .. 2 * TickMod - 1 : a % TickMod = a - TickMod
  BY <1>0, SMT
<1> QED
  BY <1>0, <1>1, <1>2 DEF Due

-----------------------------------------------------------------------------
(***************************************************************************)
(* The scan                                                                *)
(***************************************************************************)
\* The scan takes a task for ready exactly when it has waited its time.
LEMMA ReadyWhenWaited ==
  ASSUME TypeOK, bank \in Used,
         NEW sl \in [Banks -> BOOLEAN], NEW wk \in [Banks -> 0 .. TickMod - 1],
         NEW now \in 0 .. TickMod - 1,
         NEW asks \in [Banks -> 0 .. MaxSleep + 1], NEW waits \in [Banks -> Nat],
         ScanInv(sl, wk, now, asks, waits), NEW b \in Used
  PROVE  Ready(b, sl, wk, now) <=> waits[b] >= asks[b]
<1>a. b \in Banks /\ asks[b] \in 0 .. MaxSleep + 1 /\ waits[b] \in Nat /\ sl[b] \in BOOLEAN
  BY TaskCountRange
<1>0. asks[b] \in Nat /\ asks[b] <= MaxSleep + 1 /\ waits[b] \in Nat /\ sl[b] \in BOOLEAN
  BY <1>a, AskedRange
<1>1. CASE ~ sl[b]
  BY <1>0, <1>1 DEF ScanInv, Ready
<1>2. CASE sl[b]
  <2> DEFINE n == asks[b] - 1 - waits[b]
  <2>1. asks[b] >= 1 /\ Due(wk[b], now, n)
    BY <1>2 DEF ScanInv
  <2>2. waits[b] >= asks[b] => waits[b] <= asks[b] + TaskCount - 1
    <3>1. waits[b] >= asks[b] => waits[b] + ScanDistance(b) <= asks[b] + TaskCount
      BY DEF ScanInv
    <3>2. ScanDistance(b) \in 1 .. TaskCount
      BY ScanDistances
    <3> QED
      BY <1>0, <3>1, <3>2, TaskCountRange
  <2>3. n \in Int /\ n <= MaxSleep /\ 2 * n >= - TickMod
    BY <1>0, <2>2, TaskCountRange, TickAssumption
  <2>4. Expired(wk[b], now) <=> n < 0
    <3>1. wk[b] \in 0 .. TickMod - 1
      BY <1>a
    <3> HIDE DEF n
    <3> QED
      BY <2>1, <2>3, <3>1, ExpiredWhenDue
  <2> QED
    BY <1>0, <1>2, <2>4 DEF Ready
<1> QED
  BY <1>1, <1>2

\* The scan leaves a running task, whose wait is over, and others that are one
\* bank nearer; or it halts, and all have time left.
LEMMA ScanKeepsWaits ==
  ASSUME TypeOK, bank \in Used,
         NEW sl \in [Banks -> BOOLEAN], NEW wk \in [Banks -> 0 .. TickMod - 1],
         NEW now \in 0 .. TickMod - 1, NEW fr,
         NEW asks \in [Banks -> 0 .. MaxSleep + 1], NEW waits \in [Banks -> Nat],
         ScanInv(sl, wk, now, asks, waits), SwitchToNextBank(sl, wk, now, fr),
         ticks' = now, firstUnused' = firstUnused,
         asked' = [b \in Banks |-> IF Running(b)' THEN 0 ELSE asks[b]],
         \A b \in Used : waited'[b] = IF Running(b)' THEN 0 ELSE waits[b]
  PROVE  /\ cpu' # "boot" /\ WaitInv'
         /\ \A b \in Used : Running(b)' => waits[b] >= asks[b]
<1>0. Used \subseteq Banks /\ Used' = Used /\ TaskCount' = TaskCount
  BY TaskCountRange DEF Used, TaskCount
<1>1. \A b \in Used : asks[b] \in Nat /\ waits[b] \in Nat
  BY <1>0, AskedRange
<1>2. \A b \in Used : Ready(b, sl, wk, now) <=> waits[b] >= asks[b]
  BY ReadyWhenWaited
<1>3. wakeAt' = wk
  BY DEF SwitchToNextBank
<1>4. CASE (\A b \in Used : ~ Ready(b, sl, wk, now)) /\ Halt(sl, fr)
  <2>1. cpu' = "wai" /\ sleeping' = sl
    BY <1>4 DEF Halt
  <2>2. \A b \in Used : ~ Running(b)' /\ asked'[b] = asks[b] /\ waited'[b] = waits[b] /\ ~ (waits[b] >= asks[b])
    BY <1>0, <1>2, <1>4, <2>1 DEF Running
  <2>3. WaitInv'
    BY <1>0, <1>3, <2>1, <2>2 DEF WaitInv, ScanInv
  <2> QED
    BY <2>1, <2>2, <2>3
<1>5. CASE \E c \in Used : /\ Ready(c, sl, wk, now)
                           /\ \A d \in Used : Ready(d, sl, wk, now) => ScanDistance(c) <= ScanDistance(d)
                           /\ Resume(c, sl, fr)
  <2>1. PICK c \in Used : /\ Ready(c, sl, wk, now)
                          /\ \A d \in Used : Ready(d, sl, wk, now) => ScanDistance(c) <= ScanDistance(d)
                          /\ Resume(c, sl, fr)
    BY <1>5
  <2>2. cpu' = "run" /\ bank' = c /\ sleeping' = [sl EXCEPT ![c] = FALSE]
    BY <2>1 DEF Resume
  <2>3. \A b \in Used : Running(b)' <=> b = c
    BY <2>2 DEF Running
  <2>4. ASSUME NEW b \in Used, b # c
        PROVE  /\ asked'[b] = asks[b] /\ waited'[b] = waits[b] /\ sleeping'[b] = sl[b]
               /\ waits[b] >= asks[b] => waits[b] + ScanDistance(b)' <= asks[b] + TaskCount - 1
    <3>1. asked'[b] = asks[b] /\ waited'[b] = waits[b] /\ sleeping'[b] = sl[b]
      BY <1>0, <2>2, <2>3, <2>4
    <3>2. ASSUME waits[b] >= asks[b]
          PROVE  waits[b] + ScanDistance(b)' <= asks[b] + TaskCount - 1
      <4>1. ScanDistance(c) <= ScanDistance(b)
        BY <1>2, <2>1, <3>2
      <4>2. ScanDistance(b)' \in 1 .. ScanDistance(b) - 1
        BY <2>2, <2>4, <4>1, ScanComesNearer
      <4>3. waits[b] + ScanDistance(b) <= asks[b] + TaskCount /\ ScanDistance(b) \in 1 .. TaskCount
        BY <3>2, ScanDistances DEF ScanInv
      <4>4. TaskCount \in Nat /\ asks[b] \in Nat /\ waits[b] \in Nat
        BY <1>1, TaskCountRange
      <4>5. \A w, a, t \in Nat : \A d \in 1 .. t : \A e \in 1 .. d - 1 :
              w + d <= a + t => w + e <= a + t - 1
        OBVIOUS
      <4> QED
        BY <4>2, <4>3, <4>4, <4>5
    <3> QED
      BY <3>1, <3>2
  <2>5. WaitInv'
    BY <1>0, <1>3, <2>3, <2>4 DEF WaitInv, ScanInv
  <2> QED
    BY <1>2, <2>1, <2>2, <2>3, <2>5
<1> QED
  BY <1>4, <1>5 DEF SwitchToNextBank, Scanned

-----------------------------------------------------------------------------
(***************************************************************************)
(* The steps                                                               *)
(***************************************************************************)
\* The history variables see the kernel and do not disturb it.
LEMMA TimingStepIsKernelStep == TimingNext => KernelNext
BY DEF TimingNext, TimedSleep, Timed, KernelNext, SleepSome

\* What is proved of the kernel holds of the timed kernel.
THEOREM TimingRefinesKernel == TimingSpec => KernelSpec
<1>1. TimingInit => KernelInit
  BY DEF TimingInit
<1>2. [TimingNext]_timingVars => [KernelNext]_kernelVars
  BY TimingStepIsKernelStep DEF timingVars, kernelVars
<1> QED
  BY <1>1, <1>2, PTL DEF TimingSpec, KernelSpec

LEMMA InitTiming == TimingInit => TimingInv
<1> SUFFICES ASSUME TimingInit PROVE TimingInv
  OBVIOUS
<1>1. 0 \in 0 .. MaxSleep + 1 /\ 0 \in Nat
  BY TickAssumption
<1> QED
  BY <1>1 DEF TimingInit, KernelInit, TimingInv

\* Nobody waits long enough for the count to stop.
LEMMA NotSaturated ==
  ASSUME TypeOK, bank \in Used, TimingInv, cpu # "boot", NEW b \in Used, ~ Running(b)
  PROVE  waited[b] # Saturated
<1>1. b \in Banks /\ asked[b] \in Nat /\ asked[b] <= MaxSleep + 1 /\ waited[b] \in Nat
  BY TaskCountRange, AskedRange DEF TimingInv
<1>2. waited[b] >= asked[b] => waited[b] + ScanDistance(b) <= asked[b] + TaskCount
  BY <1>1, ScanDistances, TaskCountRange DEF TimingInv, WaitInv
<1> QED
  BY <1>1, <1>2, ScanDistances, TaskCountRange, BankAssumption, TickAssumption DEF Saturated

\* The wait of every task when the scan of a tick begins.
Counted(b) == IF Running(b) THEN waited[b] ELSE waited[b] + 1

LEMMA TickBeginsScan ==
  ASSUME TypeOK, FrameMatchesSleeping, bank \in Used, TimingInv, cpu # "boot"
  PROVE  ScanInv(sleeping, wakeAt, NextTick(ticks), asked, [b \in Banks |-> Counted(b)])
<1> SUFFICES ASSUME NEW b \in Used
             PROVE  /\ sleeping[b] => asked[b] >= 1 /\ Due(wakeAt[b], NextTick(ticks), asked[b] - 1 - Counted(b))
                    /\ ~ sleeping[b] => asked[b] = 0
                    /\ Counted(b) >= asked[b] => Counted(b) + ScanDistance(b) <= asked[b] + TaskCount
  BY TaskCountRange DEF ScanInv
<1>1. b \in Banks /\ asked[b] \in Nat /\ asked[b] <= MaxSleep + 1 /\ waited[b] \in Nat
  BY TaskCountRange, AskedRange DEF TimingInv
<1>2. ScanDistance(b) \in 1 .. TaskCount /\ TaskCount \in Nat /\ 2 * TaskCount <= TickMod
  BY ScanDistances, TaskCountRange
<1>3. CASE Running(b)
  <2>1. ~ sleeping[b] /\ asked[b] = 0 /\ waited[b] = 0
    BY <1>1, <1>3 DEF Running, FrameMatchesSleeping, TimingInv
  <2> QED
    BY <1>2, <1>3, <2>1 DEF Counted
<1>4. CASE ~ Running(b)
  <2>1. /\ sleeping[b] => asked[b] >= 1 /\ Due(wakeAt[b], ticks, asked[b] - 1 - waited[b])
        /\ ~ sleeping[b] => asked[b] = 0
        /\ waited[b] >= asked[b] => waited[b] + ScanDistance(b) <= asked[b] + TaskCount - 1
    BY <1>4 DEF TimingInv, WaitInv
  <2>2. Counted(b) = waited[b] + 1
    BY <1>4 DEF Counted
  <2>3. ASSUME sleeping[b]
        PROVE  Due(wakeAt[b], NextTick(ticks), asked[b] - 1 - Counted(b))
    <3> DEFINE n == asked[b] - 1 - waited[b]
    <3>1. n \in Int /\ n <= MaxSleep /\ 2 * n > - TickMod
      BY <1>1, <1>2, <2>1, TickAssumption
    <3>2. wakeAt[b] \in 0 .. TickMod - 1 /\ ticks \in 0 .. TickMod - 1
      BY <1>1 DEF TypeOK
    <3>3. asked[b] - 1 - Counted(b) = n - 1
      BY <1>1, <2>2
    <3>4. Due(wakeAt[b], ticks, n)
      BY <2>1, <2>3
    <3> HIDE DEF n
    <3> QED
      BY <3>1, <3>2, <3>3, <3>4, DueAfterTick
  <2>4. Counted(b) >= asked[b] => Counted(b) + ScanDistance(b) <= asked[b] + TaskCount
    BY <1>1, <1>2, <2>1, <2>2
  <2> QED
    BY <2>1, <2>3, <2>4
<1> QED
  BY <1>3, <1>4

\* What the history variables become when a tick is counted.
LEMMA TickCounts ==
  ASSUME TypeOK, bank \in Used, TimingInv, cpu # "boot",
         ticks' = NextTick(ticks), CountTick, Forget(asked)
  PROVE  /\ asked' = [b \in Banks |-> IF Running(b)' THEN 0 ELSE asked[b]]
         /\ \A b \in Used : waited'[b] = IF Running(b)' THEN 0 ELSE [c \in Banks |-> Counted(c)][b]
<1>1. ticks' # ticks
  BY TickAssumption, LatenessAssumption, BankAssumption DEF NextTick, TypeOK
<1>2. Used \subseteq Banks
  BY TaskCountRange
<1>3. ASSUME NEW b \in Used
      PROVE  waited'[b] = IF Running(b)' THEN 0 ELSE Counted(b)
  <2>1. ~ Running(b) => waited[b] # Saturated
    BY NotSaturated
  <2> QED
    BY <1>1, <1>2, <2>1 DEF CountTick, Counted
<1> QED
  BY <1>2, <1>3 DEF Forget

\* The types of the history variables, and what they are for a running task.
LEMMA HistoryTypes ==
  ASSUME NEW wanted \in [Banks -> 0 .. MaxSleep + 1], waited \in [Banks -> Nat],
         CountTick, Forget(wanted)
  PROVE  /\ asked' \in [Banks -> 0 .. MaxSleep + 1]
         /\ waited' \in [Banks -> Nat]
         /\ \A b \in Banks : Running(b)' => asked'[b] = 0 /\ waited'[b] = 0
<1>1. 0 \in 0 .. MaxSleep + 1 /\ Saturated \in Nat
  BY TickAssumption, BankAssumption DEF Saturated
<1>2. asked' \in [Banks -> 0 .. MaxSleep + 1]
  BY <1>1 DEF Forget
<1>3. waited' \in [Banks -> Nat]
  <2>1. ASSUME NEW b \in Banks
        PROVE  waited'[b] \in Nat
    BY <1>1 DEF CountTick
  <2> QED
    BY <2>1 DEF CountTick
<1> QED
  BY <1>2, <1>3 DEF CountTick, Forget

\* A tick, whether a task is interrupted or all are asleep.
LEMMA TickKeepsWaits ==
  ASSUME TypeOK, FrameMatchesSleeping, bank \in Used, TimingInv, cpu # "boot", NEW fr,
         ticks' = NextTick(ticks), firstUnused' = firstUnused,
         SwitchToNextBank(sleeping, wakeAt, NextTick(ticks), fr), CountTick, Forget(asked)
  PROVE  /\ cpu' # "boot" /\ WaitInv'
         /\ \A b \in Used : Running(b)' => Counted(b) >= asked[b]
<1> DEFINE asks == asked
           waits == [b \in Banks |-> Counted(b)]
<1>1. ScanInv(sleeping, wakeAt, NextTick(ticks), asks, waits)
  BY TickBeginsScan
<1>2. /\ asked' = [b \in Banks |-> IF Running(b)' THEN 0 ELSE asks[b]]
      /\ \A b \in Used : waited'[b] = IF Running(b)' THEN 0 ELSE waits[b]
  BY TickCounts
<1>3. /\ sleeping \in [Banks -> BOOLEAN] /\ wakeAt \in [Banks -> 0 .. TickMod - 1]
      /\ NextTick(ticks) \in 0 .. TickMod - 1
      /\ asks \in [Banks -> 0 .. MaxSleep + 1] /\ waits \in [Banks -> Nat]
  BY TickRange DEF TypeOK, TimingInv, Counted
<1>4. \A b \in Used : b \in Banks
  BY TaskCountRange
<1>5. \A b \in Used : waits[b] = Counted(b)
  BY <1>4
<1> HIDE DEF asks, waits
<1>6. /\ cpu' # "boot" /\ WaitInv'
      /\ \A b \in Used : Running(b)' => waits[b] >= asks[b]
  BY <1>1, <1>2, <1>3, ScanKeepsWaits
<1> QED
  BY <1>5, <1>6 DEF asks

\* A task goes to sleep.
LEMMA SleepKeepsWaits ==
  ASSUME TypeOK, FrameMatchesSleeping, bank \in Used, TimingInv, NEW n \in 0 .. MaxSleep,
         Sleep(n), CountTick, Forget([asked EXCEPT ![bank] = n + 1])
  PROVE  /\ cpu' # "boot" /\ WaitInv'
         /\ \A b \in Used : Running(b)' /\ ~ Running(b) => waited[b] >= asked[b]
<1> DEFINE asks == [asked EXCEPT ![bank] = n + 1]
           sl == [sleeping EXCEPT ![bank] = TRUE]
           wk == [wakeAt EXCEPT ![bank] = (ticks + n) % TickMod]
           fr == [frame EXCEPT ![bank] = "rts"]
<1>0. Used \subseteq Banks /\ bank \in Banks /\ \A b \in Used : Running(b) <=> b = bank
  BY TaskCountRange DEF Sleep, CanExecute, Running
<1>1. cpu = "run" /\ ticks' = ticks /\ firstUnused' = firstUnused /\ SwitchToNextBank(sl, wk, ticks, fr)
  BY DEF Sleep, CanExecute
<1>2. n \in Nat /\ n + 1 \in 0 .. MaxSleep + 1 /\ (ticks + n) % TickMod \in 0 .. TickMod - 1
  BY TickAssumption, TickRange DEF TypeOK
<1>3. /\ sl \in [Banks -> BOOLEAN] /\ wk \in [Banks -> 0 .. TickMod - 1] /\ ticks \in 0 .. TickMod - 1
      /\ asks \in [Banks -> 0 .. MaxSleep + 1] /\ waited \in [Banks -> Nat]
  BY <1>2 DEF TypeOK, TimingInv
<1>4. ScanInv(sl, wk, ticks, asks, waited)
  <2> SUFFICES ASSUME NEW b \in Used
               PROVE  /\ sl[b] => asks[b] >= 1 /\ Due(wk[b], ticks, asks[b] - 1 - waited[b])
                      /\ ~ sl[b] => asks[b] = 0
                      /\ waited[b] >= asks[b] => waited[b] + ScanDistance(b) <= asks[b] + TaskCount
    BY DEF ScanInv
  <2>1. CASE b = bank
    <3>1. sl[b] /\ asks[b] = n + 1 /\ wk[b] = (ticks + n) % TickMod /\ waited[b] = 0
      BY <1>0, <1>3, <2>1 DEF TimingInv, TypeOK
    <3>2. Due(wk[b], ticks, n)
      BY <1>3, <3>1, DueWhenSet
    <3> QED
      BY <1>2, <3>1, <3>2
  <2>2. CASE b # bank
    <3>1. sl[b] = sleeping[b] /\ asks[b] = asked[b] /\ wk[b] = wakeAt[b] /\ ~ Running(b)
      BY <1>0, <2>2 DEF TimingInv, TypeOK
    <3>2. asked[b] \in Nat /\ waited[b] \in Nat
      BY <1>0, AskedRange DEF TimingInv
    <3>3. /\ sleeping[b] => asked[b] >= 1 /\ Due(wakeAt[b], ticks, asked[b] - 1 - waited[b])
          /\ ~ sleeping[b] => asked[b] = 0
          /\ waited[b] >= asked[b] => waited[b] + ScanDistance(b) <= asked[b] + TaskCount - 1
      BY <1>1, <3>1 DEF TimingInv, WaitInv
    <3>4. waited[b] >= asked[b] => waited[b] + ScanDistance(b) <= asked[b] + TaskCount
      BY <3>2, <3>3, ScanDistances, TaskCountRange
    <3> HIDE DEF asks, sl, wk
    <3> QED
      BY <3>1, <3>3, <3>4
  <2> QED
    BY <2>1, <2>2
<1>5. asked' = [b \in Banks |-> IF Running(b)' THEN 0 ELSE asks[b]]
  BY DEF Forget
<1>6. \A b \in Used : waited'[b] = IF Running(b)' THEN 0 ELSE waited[b]
  BY <1>0, <1>1 DEF CountTick
<1>7. \A b \in Used : ~ Running(b) => asks[b] = asked[b]
  BY <1>0 DEF TimingInv
<1> HIDE DEF asks, sl, wk, fr
<1>8. /\ cpu' # "boot" /\ WaitInv'
      /\ \A b \in Used : Running(b)' => waited[b] >= asks[b]
  BY <1>1, <1>3, <1>4, <1>5, <1>6, ScanKeepsWaits
<1> QED
  BY <1>7, <1>8

\* A step that neither counts a tick nor changes which task runs.
LEMMA QuietKeepsWaits ==
  ASSUME TypeOK, TimingInv, cpu # "boot",
         UNCHANGED <<cpu, bank, firstUnused, ticks, sleeping, wakeAt>>, CountTick, Forget(asked)
  PROVE  WaitInv'
<1>1. Used \subseteq Banks /\ Used' = Used /\ TaskCount' = TaskCount
  BY TaskCountRange DEF Used, TaskCount
<1>2. \A b \in Used : /\ Running(b)' = Running(b) /\ ScanDistance(b)' = ScanDistance(b)
                      /\ ~ Running(b) => asked'[b] = asked[b] /\ waited'[b] = waited[b]
  BY <1>1 DEF Running, ScanDistance, CountTick, Forget
<1> QED
  BY <1>1, <1>2 DEF TimingInv, WaitInv

\* A task is resumed no earlier than it asked for.
ResumedInTime ==
  \A b \in Used : sleeping[b] /\ Running(b)' /\ ~ Running(b)
    => waited[b] + (IF ticks' = ticks THEN 0 ELSE 1) >= asked[b]

LEMMA StepTiming ==
  ASSUME KernelInv, TimingInv, TimingNext
  PROVE  TimingInv' /\ ResumedInTime
<1>0. TypeOK /\ FrameMatchesSleeping /\ BootFrames /\ bank \in Used /\ Used \subseteq Banks
  BY TaskCountRange DEF KernelInv
<1>1. CASE TimedSleep
  <2>1. PICK n \in 0 .. MaxSleep : Sleep(n) /\ CountTick /\ Forget([asked EXCEPT ![bank] = n + 1])
    BY <1>1 DEF TimedSleep
  <2>2. [asked EXCEPT ![bank] = n + 1] \in [Banks -> 0 .. MaxSleep + 1]
    <3>1. n + 1 \in 0 .. MaxSleep + 1
      BY TickAssumption
    <3> QED
      BY <3>1 DEF TimingInv
  <2>3. cpu' # "boot" /\ WaitInv' /\ \A b \in Used : Running(b)' /\ ~ Running(b) => waited[b] >= asked[b]
    BY <1>0, <2>1, SleepKeepsWaits
  <2>4. TimingInv'
    BY <2>1, <2>2, <2>3, HistoryTypes DEF TimingInv
  <2>5. ticks' = ticks /\ \A b \in Used : waited[b] + 0 = waited[b]
    BY <1>0, <2>1 DEF Sleep, TimingInv
  <2> QED
    BY <2>3, <2>4, <2>5 DEF ResumedInTime
<1>2. CASE Timed(Interrupt) \/ Timed(WaiWake)
  <2>1. CountTick /\ Forget(asked) /\ cpu # "boot" /\ ticks' = NextTick(ticks) /\ firstUnused' = firstUnused
    BY <1>2 DEF Timed, Interrupt, WaiWake
  <2>2. \E fr : SwitchToNextBank(sleeping, wakeAt, NextTick(ticks), fr)
    BY <1>2 DEF Timed, Interrupt, WaiWake
  <2>3. cpu' # "boot" /\ WaitInv' /\ \A b \in Used : Running(b)' => Counted(b) >= asked[b]
    BY <1>0, <2>1, <2>2, TickKeepsWaits
  <2>4. TimingInv'
    BY <2>1, <2>3, HistoryTypes DEF TimingInv
  <2>5. ticks' # ticks
    BY <1>0, <2>1, TickAssumption, LatenessAssumption, BankAssumption DEF NextTick, TypeOK
  <2> QED
    BY <2>3, <2>4, <2>5 DEF ResumedInTime, Counted
<1>3. CASE Timed(T2Expire) \/ Timed(Sei) \/ Timed(Cli)
  <2>1. /\ CountTick /\ Forget(asked) /\ cpu # "boot"
        /\ UNCHANGED <<cpu, bank, firstUnused, ticks, sleeping, wakeAt>>
    BY <1>3 DEF Timed, T2Expire, Sei, Cli, CanExecute
  <2>2. WaitInv'
    BY <1>0, <2>1, QuietKeepsWaits
  <2>3. TimingInv'
    BY <2>1, <2>2, HistoryTypes DEF TimingInv
  <2>4. \A b \in Used : Running(b)' = Running(b)
    BY <2>1 DEF Running
  <2> QED
    BY <2>3, <2>4 DEF ResumedInTime
<1>4. CASE Timed(AddProcess)
  <2>1. CountTick /\ Forget(asked) /\ cpu = "boot" /\ cpu' = "boot" /\ ticks' = ticks
    BY <1>4 DEF Timed, AddProcess
  <2>2. \A b \in Banks : asked'[b] = 0 /\ waited'[b] = 0
    BY <2>1 DEF CountTick, Forget, TimingInv
  <2>3. TimingInv'
    BY <2>1, <2>2, HistoryTypes DEF TimingInv
  <2> QED
    BY <2>1, <2>3 DEF ResumedInTime, Running
<1>5. CASE Timed(StartTimer)
  <2>1. /\ CountTick /\ Forget(asked) /\ cpu = "boot" /\ cpu' = "run"
        /\ UNCHANGED <<bank, firstUnused, ticks, sleeping, wakeAt>>
    BY <1>5 DEF Timed, StartTimer
  <2>2. \A b \in Banks : asked'[b] = 0 /\ waited'[b] = 0
    BY <2>1 DEF CountTick, Forget, TimingInv
  <2>3. \A b \in Used : ~ sleeping[b]
    BY <1>0, <2>1 DEF BootFrames
  <2>4. Used' = Used /\ TaskCount' = TaskCount /\ TaskCount \in Nat
    BY <1>0, <2>1, TaskCountRange DEF Used, TaskCount
  <2>5. \A b \in Used : ScanDistance(b)' \in 1 .. TaskCount /\ (~ Running(b)' => ScanDistance(b)' <= TaskCount - 1)
    BY <1>0, <2>1, BankAssumption DEF ScanDistance, TaskCount, Used, Running, BootFrames, TypeOK, Banks
  <2>6. WaitInv'
    BY <1>0, <2>1, <2>2, <2>3, <2>4, <2>5 DEF WaitInv
  <2>7. TimingInv'
    BY <2>1, <2>6, HistoryTypes DEF TimingInv
  <2> QED
    BY <2>3, <2>7 DEF ResumedInTime
<1> QED
  BY <1>1, <1>2, <1>3, <1>4, <1>5 DEF TimingNext

LEMMA StutterTiming ==
  ASSUME TimingInv, UNCHANGED timingVars
  PROVE  TimingInv' /\ ResumedInTime
BY DEF timingVars, TimingInv, WaitInv, Running, ScanDistance, TaskCount, Used, Due, ResumedInTime

\* The time a task has waited beyond its sleep, and the banks the scan still has before
\* it, make no more than one round of the tasks, in every reachable state.
THEOREM TimingInvariant == TimingSpec => []TimingInv
<1>1. KernelInv /\ TimingInv /\ [TimingNext]_timingVars => TimingInv'
  BY StepTiming, StutterTiming
<1> QED
  BY <1>1, InitTiming, TimingRefinesKernel, KernelInvariant, PTL DEF TimingSpec

\* No sleep overruns: a task that is due, or was pre-empted, waits for at most one
\* tick of each other task, whatever the others do and whenever the counter wraps.
THEOREM WakesInTimeAlways == TimingSpec => []WakesInTime
<1>1. KernelInv /\ TimingInv => WakesInTime
  <2> SUFFICES ASSUME KernelInv, TimingInv, NEW b \in Used, ~ Running(b)
               PROVE  waited[b] <= asked[b] + TaskCount - 1
    BY DEF WakesInTime
  <2>0. TypeOK /\ bank \in Used /\ Used \subseteq Banks
    BY TaskCountRange DEF KernelInv
  <2>1. asked[b] \in Nat /\ waited[b] \in Nat /\ TaskCount \in Nat /\ ScanDistance(b) \in 1 .. TaskCount
    BY <2>0, AskedRange, ScanDistances, TaskCountRange DEF TimingInv
  <2>2. CASE cpu = "boot"
    BY <2>0, <2>1, <2>2 DEF TimingInv
  <2>3. CASE cpu # "boot"
    BY <2>1, <2>3 DEF TimingInv, WaitInv
  <2> QED
    BY <2>2, <2>3
<1> QED
  BY <1>1, TimingInvariant, TimingRefinesKernel, KernelInvariant, PTL

\* Nor is one cut short: a task that asked for n ticks is resumed no earlier than
\* the (n+1)th tick after its call.
THEOREM NeverWakesEarlyAlways == TimingSpec => NeverWakesEarly
<1>1. KernelInv /\ TimingInv /\ [TimingNext]_timingVars =>
        [\A b \in Used : (sleeping[b] /\ Running(b)' /\ ~ Running(b))
           => waited[b] + (IF ticks' = ticks THEN 0 ELSE 1) >= asked[b]]_timingVars
  BY StepTiming DEF ResumedInTime
<1> QED
  BY <1>1, TimingInvariant, TimingRefinesKernel, KernelInvariant, PTL DEF TimingSpec, NeverWakesEarly

=============================================================================
