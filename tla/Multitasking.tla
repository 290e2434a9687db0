---------------------------- MODULE Multitasking ----------------------------
(***************************************************************************)
(* The pre-emptive multitasking kernel of the Wendy 2 boards:              *)
(* firmware/programs/wendy2/multitasking_test_wendy2c.s.                   *)
(*                                                                         *)
(* Every task owns a memory bank (its zero page and stack are banked).     *)
(* Timer 2 of the 6522 is a one-shot that the interrupt handler re-arms;   *)
(* the handler counts a tick and passes the CPU to the next bank in        *)
(* cyclic order that is not sleeping.  A task may also give up the CPU     *)
(* with `sleep`.  When every bank sleeps the kernel halts in WAI.          *)
(*                                                                         *)
(* The code from `interrupt` or `sleep` to the final RTI or RTS runs with  *)
(* interrupts disabled on the only CPU, so each is one action.  What a     *)
(* task does between two calls of the kernel is not modelled here: it may  *)
(* disable and enable interrupts and go to sleep (Tasks.tla adds the       *)
(* programs).                                                              *)
(***************************************************************************)
EXTENDS Integers

CONSTANTS
  BANK_START,   \* the first bank that holds a task
  BANK_STOP,    \* the first bank number past the last one
  TickMod,      \* TICKS_COUNTER counts modulo this (65536 on the board)
  MaxSleep      \* the longest sleep, in ticks (32767: 16 bits, halved)

ASSUME BankAssumption ==
  BANK_START \in Nat /\ BANK_STOP \in Nat /\ BANK_START < BANK_STOP

\* sleep_milliseconds shifts a 16-bit count right by one, so no caller can
\* ask for half of the range of TICKS_COUNTER or more.
ASSUME TickAssumption ==
  TickMod \in Nat \ {0} /\ MaxSleep \in Nat /\ 2 * MaxSleep < TickMod

VARIABLES
  cpu,          \* "boot" before timer 2 runs, then "run", or "wai" (halted)
  bank,         \* the bank BANK_PORT selects
  firstUnused,  \* FIRST_UNUSED_BANK
  masked,       \* the CPU's interrupt disable flag
  t2,           \* timer 2 has expired and its interrupt is pending
  ticks,        \* TICKS_COUNTER
  sleeping,     \* SLEEPING of each bank
  wakeAt,       \* WAKE_AT of each bank
  frame         \* what STACK_POINTER_SAVE of each bank points at

kernelVars == <<cpu, bank, firstUnused, masked, t2, ticks, sleeping, wakeAt, frame>>

Banks == BANK_START .. BANK_STOP - 1

\* The banks that hold a task.
Used == BANK_START .. firstUnused - 1

NextTick(t) == IF t = TickMod - 1 THEN 0 ELSE t + 1

\* Mutant: BCC, an unsigned comparison that forgets the wrap.
UnsignedExpired(wake, now) == wake < now

\* Mutant: BEQ, which a bank that is scanned a tick late misses.
ExactlyExpired(wake, now) == wake = now

\* BMI after the 16-bit subtraction WAKE_AT - TICKS_COUNTER.
Expired(wake, now) == 2 * ((wake - now) % TickMod) >= TickMod

TypeOK ==
  /\ cpu \in {"boot", "run", "wai"}
  /\ bank \in Banks
  /\ firstUnused \in BANK_START + 1 .. BANK_STOP
  /\ masked \in BOOLEAN
  /\ t2 \in BOOLEAN
  /\ ticks \in 0 .. TickMod - 1
  /\ sleeping \in [Banks -> BOOLEAN]
  /\ wakeAt \in [Banks -> 0 .. TickMod - 1]
  /\ frame \in [Banks -> {"none", "rti", "rts"}]

(***************************************************************************)
(* program_start: the first bank runs, timer interrupts are not enabled.   *)
(***************************************************************************)
KernelInit ==
  /\ cpu = "boot"
  /\ bank = BANK_START
  /\ firstUnused = BANK_START + 1
  /\ masked = FALSE
  /\ t2 = FALSE
  /\ ticks = 0
  /\ sleeping = [b \in Banks |-> FALSE]
  /\ wakeAt = [b \in Banks |-> 0]
  /\ frame = [b \in Banks |-> "none"]

\* Mutant: the check for the last bank is off by one.
AddProcessPastEnd ==
  /\ cpu = "boot"
  /\ firstUnused <= BANK_STOP
  /\ firstUnused' = firstUnused + 1
  /\ sleeping' = [sleeping EXCEPT ![firstUnused] = FALSE]
  /\ frame' = [frame EXCEPT ![firstUnused] = "rti"]
  /\ UNCHANGED <<cpu, bank, masked, t2, ticks, wakeAt>>

\* initialize_additional_process: a frame for RTI on the new bank's stack.
\* With no bank left the call is silently ignored.
AddProcess ==
  /\ cpu = "boot"
  /\ IF firstUnused = BANK_STOP
       THEN UNCHANGED <<firstUnused, sleeping, frame>>
       ELSE /\ firstUnused' = firstUnused + 1
            /\ sleeping' = [sleeping EXCEPT ![firstUnused] = FALSE]
            /\ frame' = [frame EXCEPT ![firstUnused] = "rti"]
  /\ UNCHANGED <<cpu, bank, masked, t2, ticks, wakeAt>>

StartTimer ==
  /\ cpu = "boot"
  /\ cpu' = "run"
  /\ UNCHANGED <<bank, firstUnused, masked, t2, ticks, sleeping, wakeAt, frame>>

\* Mutant: the scan starts over at the first bank every time.
ScanDistanceFromStart(b) == b - BANK_START

\* How many times the scan increments the bank number before it tries b.
ScanDistance(b) == IF b > bank THEN b - bank ELSE b - bank + firstUnused - BANK_START

(***************************************************************************)
(* switch_to_next_bank, given SLEEPING, WAKE_AT, TICKS_COUNTER and the     *)
(* frames as they are on entry.  The scan stops at the first bank that is  *)
(* not sleeping or whose time has come, the outgoing bank being the last   *)
(* it tries; when there is none the CPU waits for the next interrupt.      *)
(***************************************************************************)
Ready(b, sl, wk, now) == sl[b] => Expired(wk[b], now)

Scanned == Used

Halt(sl, fr) ==
  /\ cpu' = "wai"
  /\ masked' = TRUE
  /\ sleeping' = sl
  /\ frame' = fr
  /\ UNCHANGED bank

\* Mutant: a bank that is woken keeps its SLEEPING flag.
ResumeAsleep(b, sl, fr) ==
  /\ cpu' = "run"
  /\ masked' = FALSE
  /\ bank' = b
  /\ sleeping' = sl
  /\ frame' = [fr EXCEPT ![b] = "none"]

\* A sleeping bank goes on with CLI and RTS, another with RTI, which restores a
\* status byte pushed with interrupts enabled.
Resume(b, sl, fr) ==
  /\ cpu' = "run"
  /\ masked' = FALSE
  /\ bank' = b
  /\ sleeping' = [sl EXCEPT ![b] = FALSE]
  /\ frame' = [fr EXCEPT ![b] = "none"]

SwitchToNextBank(sl, wk, now, fr) ==
  /\ wakeAt' = wk
  /\ \/ (\A b \in Scanned : ~ Ready(b, sl, wk, now)) /\ Halt(sl, fr)
     \/ \E b \in Scanned :
          /\ Ready(b, sl, wk, now)
          /\ \A c \in Scanned : Ready(c, sl, wk, now) => ScanDistance(b) <= ScanDistance(c)
          /\ Resume(b, sl, fr)

\* Timer 2 runs out.  It is a one-shot: nothing more until it is re-armed.
T2Expire ==
  /\ cpu # "boot"
  /\ ~ t2
  /\ t2' = TRUE
  /\ UNCHANGED <<cpu, bank, firstUnused, masked, ticks, sleeping, wakeAt, frame>>

\* The interrupt handler: re-arm the timer, count, save, switch.
Interrupt ==
  /\ cpu = "run"
  /\ t2
  /\ ~ masked
  /\ t2' = FALSE
  /\ ticks' = NextTick(ticks)
  /\ SwitchToNextBank(sleeping, wakeAt, NextTick(ticks), [frame EXCEPT ![bank] = "rti"])
  /\ UNCHANGED firstUnused

\* Everything was asleep: WAI ends at the interrupt, which stays disabled, and
\* the kernel does the handler's work itself before it scans again.
WaiWake ==
  /\ cpu = "wai"
  /\ t2
  /\ t2' = FALSE
  /\ ticks' = NextTick(ticks)
  /\ SwitchToNextBank(sleeping, wakeAt, NextTick(ticks), frame)
  /\ UNCHANGED firstUnused

(***************************************************************************)
(* What a task can do.  A pending interrupt is taken before the next       *)
(* instruction unless interrupts are disabled.                             *)
(***************************************************************************)
CanExecute == cpu = "run" /\ (t2 => masked)

\* sleep: n ticks, counted from now.  It disables interrupts itself.
Sleep(n) ==
  /\ CanExecute
  /\ SwitchToNextBank([sleeping EXCEPT ![bank] = TRUE],
                      [wakeAt EXCEPT ![bank] = (ticks + n) % TickMod],
                      ticks,
                      [frame EXCEPT ![bank] = "rts"])
  /\ UNCHANGED <<firstUnused, t2, ticks>>

Sei ==
  /\ CanExecute
  /\ masked' = TRUE
  /\ UNCHANGED <<cpu, bank, firstUnused, t2, ticks, sleeping, wakeAt, frame>>

Cli ==
  /\ CanExecute
  /\ masked' = FALSE
  /\ UNCHANGED <<cpu, bank, firstUnused, t2, ticks, sleeping, wakeAt, frame>>

SleepSome == \E n \in 0 .. MaxSleep : Sleep(n)

KernelNext ==
  \/ AddProcess
  \/ StartTimer
  \/ T2Expire
  \/ Interrupt
  \/ WaiWake
  \/ SleepSome
  \/ Sei
  \/ Cli

KernelSpec == KernelInit /\ [][KernelNext]_kernelVars

-----------------------------------------------------------------------------

\* A bank is resumed by the instructions that match what lies on its stack: the
\* scan pops registers and a status byte exactly when SLEEPING is zero, so a
\* suspended task must sleep if and only if `sleep` saved its stack pointer.
FrameMatchesSleeping ==
  cpu # "boot" =>
    \A b \in Used :
      /\ frame[b] = "none" <=> (b = bank /\ cpu = "run")
      /\ frame[b] = "rts" <=> sleeping[b]

\* Every task gets the CPU again and again: neither the other tasks, nor the
\* wrap of the tick counter, nor a halt keeps it from running.
EveryTaskRuns ==
  \A b \in Banks : []((cpu # "boot" /\ b \in Used) => <>(cpu = "run" /\ bank = b))

=============================================================================
