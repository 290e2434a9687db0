------------------------- MODULE MultitaskingTiming -------------------------
(***************************************************************************)
(* How long a task of Multitasking.tla waits for the CPU, measured by      *)
(* history variables that the code does not have.                          *)
(***************************************************************************)
EXTENDS Multitasking

\* A task that is due is scanned before half the range of TICKS_COUNTER is
\* over: there are far fewer banks than ticks.
ASSUME LatenessAssumption == 2 * (BANK_STOP - BANK_START) <= TickMod

VARIABLES
  asked,        \* the ticks each suspended task asked to sleep, plus one;
                \* 0 for a task that was pre-empted
  waited        \* the ticks counted since the task was suspended

timingVars == <<cpu, bank, firstUnused, masked, t2, ticks, sleeping, wakeAt, frame, asked, waited>>

TimingInit ==
  /\ KernelInit
  /\ asked = [b \in Banks |-> 0]
  /\ waited = [b \in Banks |-> 0]

Running(b) == cpu = "run" /\ bank = b

\* Counting stops beyond anything WakesInTime allows.
Saturated == MaxSleep + 1 + BANK_STOP - BANK_START

\* One more tick for every suspended task that this step does not resume.
CountTick ==
  waited' = [b \in Banks |->
    CASE Running(b)' \/ b \notin Used -> 0
      [] ticks' # ticks /\ ~ Running(b) /\ ~ Running(b)' /\ b \in Used ->
           IF waited[b] = Saturated THEN Saturated ELSE waited[b] + 1
      [] OTHER -> waited[b]]

\* Resuming a task forgets what it asked for.
Forget(wanted) == asked' = [b \in Banks |-> IF Running(b)' THEN 0 ELSE wanted[b]]

\* A step of the kernel, seen by the history variables.
Timed(A) == A /\ CountTick /\ Forget(asked)

TimedSleep ==
  \E n \in 0 .. MaxSleep :
    /\ Sleep(n)
    /\ CountTick
    /\ Forget([asked EXCEPT ![bank] = n + 1])

TimingNext ==
  \/ TimedSleep
  \/ Timed(AddProcess)
  \/ Timed(StartTimer)
  \/ Timed(T2Expire)
  \/ Timed(Interrupt)
  \/ Timed(WaiWake)
  \/ Timed(Sei)
  \/ Timed(Cli)

(***************************************************************************)
(* Fairness: the timer is a clock, the CPU takes a pending interrupt, and  *)
(* the stretches of task code between SEI and CLI are a few straight-line  *)
(* instructions.                                                           *)
(***************************************************************************)
TimingSpec ==
  /\ TimingInit
  /\ [][TimingNext]_timingVars
  /\ WF_timingVars(Timed(StartTimer))
  /\ WF_timingVars(Timed(T2Expire))
  /\ WF_timingVars(Timed(Interrupt))
  /\ WF_timingVars(Timed(WaiWake))
  /\ WF_timingVars(Timed(Cli))

TaskCount == firstUnused - BANK_START

\* A sleep is never cut short, however the tick counter wraps: a task that
\* asked for n ticks is resumed no earlier than the (n+1)th tick after the call.
NeverWakesEarly ==
  [][\A b \in Used : (sleeping[b] /\ Running(b)' /\ ~ Running(b))
       => waited[b] + (IF ticks' = ticks THEN 0 ELSE 1) >= asked[b]]_timingVars

\* Nor does it overrun: a task that is due, or was pre-empted, waits for at
\* most one tick of each other task.  A due time missed by half the range of
\* TICKS_COUNTER would look like the future and the task would sleep on.
WakesInTime ==
  \A b \in Used : ~ Running(b) => waited[b] <= asked[b] + TaskCount - 1

=============================================================================
