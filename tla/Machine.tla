------------------------------ MODULE Machine ------------------------------
(* What the emulator's machines have in common.  A process runs one of     *)
(* them, the one that its options name, from emulator.c's main to the end. *)
(* chips is the emulated hardware, and host is all the rest: the run loop, *)
(* and the outside world that it talks to.                                 *)
VARIABLES
  machine,      \* which machine runs, "none" before main has chosen, "exit" at the end
  chips,        \* the state of its chips
  host          \* the state of its run loop, and of what is around it

machineVars == <<machine, chips, host>>

Runs(name) == machine = name /\ machine' = name

\* main starts a machine.
Starts(name, hardware, around) ==
  /\ machine = "none"
  /\ machine' = name
  /\ chips' = hardware
  /\ host' = around

\* The process ends; what it leaves can still be looked at.
Exits(name) == machine = name /\ machine' = "exit" /\ UNCHANGED chips

=============================================================================
