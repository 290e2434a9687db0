----------------------------- MODULE BoundedFIFO -----------------------------
(***************************************************************************)
(* What the shared buffer of firmware/lib/core/buffer.inc promises: every  *)
(* value that is written is read by exactly one reader, in order, and at   *)
(* most Capacity values wait at a time.                                    *)
(***************************************************************************)
EXTENDS Naturals, Sequences

CONSTANTS Values, Readers, Capacity, NoValue

VARIABLES
  queue,        \* the values that wait, oldest first
  taken         \* the value each reader took last

Init == queue = <<>> /\ taken = [r \in Readers |-> NoValue]

Put(v) ==
  /\ Len(queue) < Capacity
  /\ queue' = Append(queue, v)
  /\ UNCHANGED taken

Get(r) ==
  /\ queue # <<>>
  /\ queue' = Tail(queue)
  /\ taken' = [taken EXCEPT ![r] = Head(queue)]

Next == (\E v \in Values : Put(v)) \/ (\E r \in Readers : Get(r))

Spec == Init /\ [][Next]_<<queue, taken>>

=============================================================================
