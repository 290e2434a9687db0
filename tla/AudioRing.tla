------------------------------ MODULE AudioRing ------------------------------
(* The ring of samples between the emulator and the sound card's thread,   *)
(* emulator/audio.c.  rb_push, on the emulator's side, and rb_pop_into, in *)
(* the sound card's callback, share it without a lock: head is changed by  *)
(* the one and tail by the other, both count on and wrap only where the    *)
(* word does, and a step here makes one access to what they share.         *)
EXTENDS Integers, Sequences

CONSTANTS
  RB_CAPACITY,      \* the samples that it holds
  WORD,             \* where an unsigned int wraps
  Sample,           \* the samples
  FrameCounts,      \* how many samples the sound card may ask for at a time
  Silence           \* what it plays when there is none

ASSUME RingAssumption ==
  /\ RB_CAPACITY \in Nat \ {0}
  /\ \E k \in 2 .. WORD : WORD = k * RB_CAPACITY
  /\ WORD \in Nat
  /\ FrameCounts \subseteq Nat \ {0}
  /\ Silence \in Sample

VARIABLES
  head, tail,       \* where the next sample is put, and taken, not reduced to the ring
  buf,              \* the ring
  pushing,          \* where rb_push is: "no", "writes" the slot, "publishes" head
  sample,           \* the sample that it pushes
  popping,          \* where rb_pop_into is: "no" or "copies"
  take, want,       \* how many samples it copies, and how many the sound card wants
  got,              \* those that it has copied
  played,           \* what the last callback gave the sound card
  waiting           \* the samples that were accepted and not yet taken (of the model only)

ringVars == <<head, tail, buf, pushing, sample, popping, take, want, got, played, waiting>>
pushVars == <<head, pushing, sample>>
popVars == <<tail, popping, take, want, got, played>>

Slot(i) == i % RB_CAPACITY
Slots == 0 .. RB_CAPACITY - 1

RingInit ==
  /\ head = 0 /\ tail = 0 /\ buf = [i \in Slots |-> Silence]
  /\ pushing = "no" /\ sample = Silence
  /\ popping = "no" /\ take = 0 /\ want = 0 /\ got = <<>> /\ played = <<>>
  /\ waiting = <<>>

\* Mutant: the test for a full ring is off by one.
PushOneMore(s) ==
  /\ pushing = "no"
  /\ sample' = s
  /\ pushing' = IF (head - tail) % WORD > RB_CAPACITY THEN "no" ELSE "writes"
  /\ UNCHANGED <<head, buf, waiting, popVars>>
\* rb_push loads both, head is its own; a full ring drops the sample.
Push(s) ==
  /\ pushing = "no"
  /\ sample' = s
  /\ pushing' = IF (head - tail) % WORD >= RB_CAPACITY THEN "no" ELSE "writes"
  /\ UNCHANGED <<head, buf, waiting, popVars>>

PushWrites ==
  /\ pushing = "writes"
  /\ buf' = [buf EXCEPT ![Slot(head)] = sample]
  /\ pushing' = "publishes"
  /\ UNCHANGED <<head, sample, waiting, popVars>>

PushPublishes ==
  /\ pushing = "publishes"
  /\ head' = (head + 1) % WORD
  /\ waiting' = Append(waiting, sample)
  /\ pushing' = "no"
  /\ UNCHANGED <<sample, buf, popVars>>

\* The callback asks for n samples; rb_pop_into loads head, and tail is its own.
Pop(n) ==
  /\ popping = "no"
  /\ LET have == (head - tail) % WORD IN take' = IF have < n THEN have ELSE n
  /\ want' = n /\ got' = <<>> /\ popping' = "copies"
  /\ UNCHANGED <<tail, played, buf, waiting, pushVars>>

PopCopies ==
  /\ popping = "copies" /\ Len(got) < take
  /\ got' = Append(got, buf[Slot((tail + Len(got)) % WORD)])
  /\ UNCHANGED <<tail, popping, take, want, played, buf, waiting, pushVars>>

\* What there was not is silence.
PopPublishes ==
  /\ popping = "copies" /\ Len(got) = take
  /\ tail' = (tail + take) % WORD
  /\ waiting' = [i \in 1 .. Len(waiting) - take |-> waiting[i + take]]
  /\ played' = [i \in 1 .. want |-> IF i <= take THEN got[i] ELSE Silence]
  /\ popping' = "no"
  /\ UNCHANGED <<take, want, got, buf, pushVars>>

RingNext ==
  \/ \E s \in Sample : Push(s)
  \/ PushWrites \/ PushPublishes
  \/ \E n \in FrameCounts : Pop(n)
  \/ PopCopies \/ PopPublishes

RingSpec == RingInit /\ [][RingNext]_ringVars

----
\* Properties

\* Every variable has its type, and no more samples wait than the ring holds.
RingTypeOK ==
  /\ head \in 0 .. WORD - 1 /\ tail \in 0 .. WORD - 1
  /\ buf \in [Slots -> Sample]
  /\ pushing \in {"no", "writes", "publishes"} /\ sample \in Sample
  /\ popping \in {"no", "copies"} /\ take \in Nat /\ want \in Nat /\ got \in Seq(Sample)
  /\ waiting \in Seq(Sample) /\ Len(waiting) <= RB_CAPACITY
  /\ Len(waiting) = (head - tail) % WORD

\* What the callback has copied so far are the samples that have waited longest, in their
\* order: no slot is written while it still waits or is being read, also when the two
\* indices wrap at different times.
HearsInOrder ==
  popping = "copies" =>
    /\ take <= Len(waiting) /\ Len(got) <= take
    /\ \A i \in 1 .. Len(got) : got[i] = waiting[i]

\* What keeps that true: the ring holds the waiting samples, each in its slot, and rb_push
\* has room for what it writes.
RingInv ==
  /\ RingTypeOK
  /\ \A i \in 1 .. Len(waiting) : buf[Slot((tail + (i - 1)) % WORD)] = waiting[i]
  /\ pushing # "no" => Len(waiting) < RB_CAPACITY
  /\ pushing = "publishes" => buf[Slot(head)] = sample
  /\ HearsInOrder

=============================================================================
