------------------------------ MODULE UploadV3 ------------------------------
(***************************************************************************)
(* Michael's loader, firmware/lib/serial/upload_v3.inc with its receive    *)
(* handler serial_receive_interrupt.inc: while the handler stores the      *)
(* upload's bytes, the main loop takes turns at showing progress and at    *)
(* checking what has come; then UploadPlace moves everything into place.   *)
(*                                                                         *)
(* The handler runs between any two instructions of the main loop; the     *)
(* only state that both use is UPLOAD_P, which the main loop reads in two  *)
(* halves.  A header field and an entry are one cell each, and checksums   *)
(* are taken not to collide: a sum matches if what was summed is what the  *)
(* sender summed.  The sender may build a table that the loader must       *)
(* refuse, and the line may spoil or lose a byte.                          *)
(***************************************************************************)
EXTENDS UploadPlace

CONSTANTS
  SumStep,      \* UPLOAD_SUM_STEP
  AddressMod,   \* 2^16
  Uploads       \* the uploads looked at: a sender's table and what the line does
                \* to the stream, see Spoiled

\* A fault of the line, and where it strikes.
FaultType == [kind : {"none", "spoil", "lose", "count"}, at : Nat]

ASSUME LoaderAssumption ==
  /\ SumStep \in Nat \ {0}
  /\ AddressMod \in Nat /\ AddressMod > Limit
  /\ HEntries + MaxEntries * EntrySize <= Limit    \* a full table ends within a page of RamStart
  /\ \A u \in Uploads : u.table \in Seq(EntryType) /\ u.fault \in FaultType

VARIABLES
  sent,         \* the sender's table
  wire,         \* the cells that are still to come
  fault,
  p,            \* UPLOAD_P
  seen,         \* UPLOAD_SEEN
  pc,           \* where the main loop is
  state,        \* UPLOAD_STATE
  count,        \* UPLOAD_COUNT
  sum,          \* CHECKSUM_VALUE: what was summed
  sumAt,        \* UPLOAD_SOURCE while the data is summed
  shown,        \* UPLOAD_SHOWN, or -1 when a redraw is wanted
  block,        \* UPLOAD_ENTRY, from 1
  paused,       \* UPLOAD_TICKS # 0
  lcd           \* what the display shows: bytes received, block, address

receiveVars == <<sent, wire, fault, p, seen, pc, state, count, sum, sumAt, shown, block, paused, lcd>>
vars == <<placeVars, receiveVars>>

-----------------------------------------------------------------------------
(***************************************************************************)
(* What is on the wire                                                     *)
(***************************************************************************)

Version == <<"version", 0, 0>>
Count(n) == <<"count", n, 0>>
HeaderSum == <<"header_sum", 0, 0>>
DataSum == <<"data_sum", 0, 0>>
EntryCell(i) == <<"entry", i, 0>>
Spoilt == <<"spoilt", 0, 0>>

Entries(t) == [i \in 1 .. Len(t) |-> EntryCell(i)]
Sendable(t) == <<Version, StartAt, Count(Len(t)), HeaderSum, DataSum>> \o Entries(t) \o DataOf(t)

\* A fault spoils or loses the cell at a place, or a spoilt count reads as another.
Spoiled(cells, f) ==
  LET without(i) == SubSeq(cells, 1, i - 1) \o SubSeq(cells, i + 1, Len(cells)) IN
  CASE f.kind = "none" -> cells
    [] f.kind = "spoil" /\ f.at <= Len(cells) -> [cells EXCEPT ![f.at] = Spoilt]
    [] f.kind = "lose" /\ f.at <= Len(cells) -> without(f.at)
    [] f.kind = "count" -> [cells EXCEPT ![3] = Count(f.at)]
    [] OTHER -> cells

UploadInit ==
  /\ \E u \in Uploads : sent = u.table /\ fault = u.fault
  /\ wire = Spoiled(Sendable(sent), fault)
  /\ phase = "receive"
  /\ mem = [a \in Addresses |-> IF a \in Owned THEN Loader ELSE Old]
  /\ stash = [a \in Owned |-> Zero]
  /\ table = <<>> /\ dataStart = 0 /\ dataEnd = 0 /\ source = 0 /\ entry = 1
  /\ job = NoJob
  /\ p = Stream /\ seen = Stream
  /\ pc = "read_high"
  /\ state = "fixed" /\ count = 0
  /\ sum = <<>> /\ sumAt = 0
  /\ shown = -1 /\ block = 1 /\ paused = FALSE
  /\ lcd = [received |-> 0, block |-> 0, address |-> -1]

-----------------------------------------------------------------------------
(***************************************************************************)
(* Interrupts and the timer                                                *)
(***************************************************************************)

\* The handler stores a byte and moves on.  It does not get past Limit: the main
\* loop refuses a stream that would, long before, at the line's speed.
Receive ==
  /\ phase = "receive"
  /\ wire # <<>>
  /\ p < Limit
  /\ mem' = [mem EXCEPT ![p] = Head(wire)]
  /\ p' = p + 1
  /\ wire' = Tail(wire)
  /\ UNCHANGED <<phase, stash, table, dataStart, dataEnd, source, entry, job,
                 sent, fault, seen, pc, state, count, sum, sumAt, shown, block, paused, lcd>>

\* Timer 1 has run UPLOAD_REDRAW_TICKS times since the last redraw.
Tick ==
  /\ phase = "receive"
  /\ paused
  /\ paused' = FALSE
  /\ UNCHANGED <<placeVars, sent, wire, fault, p, seen, pc, state, count, sum, sumAt, shown, block, lcd>>

-----------------------------------------------------------------------------
(***************************************************************************)
(* The main loop: upload_read_seen                                         *)
(***************************************************************************)

High(a) == a \div PageSize
Low(a) == a % PageSize
At(l) == phase = "receive" /\ pc = l

\* The first read of UPLOAD_P's high half.
ReadHigh ==
  /\ At("read_high")
  /\ seen' = High(p) * PageSize + Low(seen)
  /\ pc' = "read_low"
  /\ UNCHANGED <<placeVars, sent, wire, fault, p, state, count, sum, sumAt, shown, block, paused, lcd>>

ReadLow ==
  /\ At("read_low")
  /\ seen' = High(seen) * PageSize + Low(p)
  /\ pc' = "reread"
  /\ UNCHANGED <<placeVars, sent, wire, fault, p, state, count, sum, sumAt, shown, block, paused, lcd>>

\* Mutant: the two halves are taken as they are.
RereadNot ==
  /\ At("reread")
  /\ pc' = "progress"
  /\ UNCHANGED <<placeVars, sent, wire, fault, p, seen, state, count, sum, sumAt, shown, block, paused, lcd>>

\* Again if the high half has changed since.
Reread ==
  /\ At("reread")
  /\ pc' = IF High(p) = High(seen) THEN "progress" ELSE "read_high"
  /\ UNCHANGED <<placeVars, sent, wire, fault, p, seen, state, count, sum, sumAt, shown, block, paused, lcd>>

-----------------------------------------------------------------------------
(***************************************************************************)
(* The main loop: upload_pace_progress, upload_show_progress               *)
(***************************************************************************)

\* The block the count has reached: on past every block whose data is all in,
\* but the last.
Reached(from, at) ==
  LET end == DataEnds(table, dataStart)
      arriving == {i \in from .. count : i = count \/ end[i] >= at}
  IN CHOOSE i \in arriving : \A j \in arriving : i <= j

\* Where the next byte of block i ends up, at most the data's end.
NextAddress(i, at) ==
  LET end == DataEnds(table, dataStart)
      reached == IF at < end[i] THEN at ELSE end[i]
  IN table[i].address + reached - end[i - 1]

Draw(at) ==
  /\ shown' = at
  /\ paused' = TRUE
  /\ IF at = Stream
       THEN UNCHANGED <<block, lcd>>
       ELSE /\ block' = IF state = "data" THEN Reached(block, at) ELSE block
            /\ lcd' = [received |-> at - Stream, block |-> block',
                       address |-> IF state = "data" THEN NextAddress(block', at) ELSE -1]

ShowProgress(at) ==
  \/ at # shown /\ Draw(at)
  \/ at = shown /\ UNCHANGED <<shown, paused, block, lcd>>

\* Mutant: a count that it is too early to draw is taken for drawn.
PaceProgressForgets ==
  /\ At("progress")
  /\ \/ ~ paused /\ ShowProgress(seen)
     \/ paused /\ shown' = seen /\ UNCHANGED <<paused, block, lcd>>
  /\ pc' = "check"
  /\ UNCHANGED <<placeVars, sent, wire, fault, p, seen, state, count, sum, sumAt>>

PaceProgress ==
  /\ At("progress")
  /\ \/ ~ paused /\ ShowProgress(seen)
     \/ paused /\ UNCHANGED <<shown, paused, block, lcd>>
  /\ pc' = "check"
  /\ UNCHANGED <<placeVars, sent, wire, fault, p, seen, state, count, sum, sumAt>>

\* When all has been checked: the final count, then interrupts off.
FinishReceiving ==
  /\ At("finish")
  /\ seen' = p
  /\ ShowProgress(p)
  /\ pc' = "placing"
  /\ phase' = "down"
  /\ source' = dataStart
  /\ entry' = 1
  /\ UNCHANGED <<mem, stash, table, dataStart, dataEnd, job, sent, wire, fault, p, state, count, sum, sumAt>>

-----------------------------------------------------------------------------
(***************************************************************************)
(* The main loop: upload_check_step                                        *)
(***************************************************************************)

End(e) == (e.address + e.length) % AddressMod

\* Mutant: entries need not keep clear of the one before.
GoodEntryAnywhere(e, limit) ==
  /\ e.kind \in {"data", "fill"}
  /\ e.length # 0
  /\ e.address + e.length < AddressMod
  /\ \/ End(e) <= PageSize
     \/ e.address >= RamStart /\ End(e) <= Limit

\* upload_table_entry, for an entry that follows one that ends at limit.
GoodEntry(e, limit) ==
  /\ e.kind \in {"data", "fill"}
  /\ e.length # 0
  /\ e.address >= limit
  /\ e.address + e.length < AddressMod
  /\ \/ End(e) <= PageSize
     \/ e.address >= RamStart /\ End(e) <= Limit

GoodTable(t) ==
  \A i \in DOMAIN t : GoodEntry(t[i], IF i = 1 THEN 0 ELSE End(t[i - 1]))

Refuse(why) ==
  /\ phase' = "failed"
  /\ pc' = why
  /\ UNCHANGED <<table, dataStart, dataEnd, source, entry, state, count, sum, sumAt, shown>>

Loop ==
  /\ pc' = "read_high"
  /\ UNCHANGED <<phase, source, entry>>

Wait == Loop /\ UNCHANGED <<table, dataStart, dataEnd, state, count, sum, sumAt, shown>>

\* Mutant: one entry too many.
CountsAndOneMore == 1 .. MaxEntries + 1

Counts == 1 .. MaxEntries

\* The fixed fields: the version and the count.
CheckFixed ==
  /\ state = "fixed"
  /\ \/ seen < HEntries /\ Wait
     \/ seen >= HEntries /\ mem[HVersion] # Version /\ Refuse("bad_version")
     \/ /\ seen >= HEntries /\ mem[HVersion] = Version
        /\ mem[HCount] \notin {Count(n) : n \in Counts}
        /\ Refuse("bad_header")
     \/ /\ seen >= HEntries /\ mem[HVersion] = Version
        /\ \E n \in Counts :
             /\ mem[HCount] = Count(n)
             /\ count' = n
             /\ dataStart' = HEntries + n * EntrySize
        /\ state' = "header"
        /\ Loop
        /\ UNCHANGED <<table, dataEnd, sum, sumAt, shown>>

\* The header's cells but its sum, as the loader reads them and as they were sent.
HeaderCells ==
  <<mem[HVersion], mem[HStart], mem[HCount], mem[HDataSum]>>
    \o [i \in 1 .. count |-> mem[HEntries + i - 1]]
SentHeader == <<Version, StartAt, Count(Len(sent)), DataSum>> \o Entries(sent)

HeaderSumMatches == mem[HHeaderSum] = HeaderSum /\ HeaderCells = SentHeader

\* The entries, once they are all there: what goes into the table is what was sent.
CheckHeader ==
  /\ state = "header"
  /\ LET ends == DataEnds(sent, dataStart) IN
     \/ seen < dataStart /\ Wait
     \/ seen >= dataStart /\ ~ HeaderSumMatches /\ Refuse("bad_header")
     \/ seen >= dataStart /\ HeaderSumMatches /\ ~ GoodTable(sent) /\ Refuse("bad_block")
     \/ /\ seen >= dataStart /\ HeaderSumMatches /\ GoodTable(sent)
        /\ ends[Len(sent)] > Limit
        /\ Refuse("bad_header")
     \/ /\ seen >= dataStart /\ HeaderSumMatches /\ GoodTable(sent)
        /\ ends[Len(sent)] <= Limit
        /\ table' = sent
        /\ dataEnd' = ends[Len(sent)]
        /\ sumAt' = dataStart
        /\ sum' = <<>>
        /\ shown' = -1
        /\ state' = "data"
        /\ Loop
        /\ UNCHANGED <<dataStart, count>>

\* How many bytes one step sums: SumStep, or up to where the next byte's address
\* equals the end's or seen.  (The model's memory ends at Limit.)
Summed ==
  LET stops == {n \in 0 .. SumStep : n = SumStep \/ sumAt + n \in {dataEnd, seen} \/ sumAt + n = Limit}
  IN CHOOSE n \in stops : \A m \in stops : n <= m

\* Mutant: whether the sum has caught up is looked at before the end is.
AtEndUnlessCaughtUp(at) == at = dataEnd /\ Summed < SumStep /\ at # seen

\* The end is noticed before the next byte is summed.
AtEnd(at) == at = dataEnd /\ Summed < SumStep

CheckData ==
  /\ state = "data"
  /\ LET at == sumAt + Summed
         all == sum \o [i \in 1 .. Summed |-> mem[sumAt + i - 1]]
         ended == AtEnd(at)
         good == mem[HDataSum] = DataSum /\ all = DataOf(table)
     IN
     \/ /\ ~ ended
        /\ sumAt' = at
        /\ sum' = all
        /\ Loop
        /\ UNCHANGED <<table, dataStart, dataEnd, state, count, shown>>
     \/ ended /\ ~ good /\ Refuse("bad_checksum")
     \/ /\ ended /\ good
        /\ pc' = "finish"
        /\ sumAt' = at
        /\ sum' = all
        /\ UNCHANGED <<phase, table, dataStart, dataEnd, source, entry, state, count, shown>>

CheckStep ==
  /\ At("check")
  /\ CheckFixed \/ CheckHeader \/ CheckData
  /\ UNCHANGED <<mem, stash, job, sent, wire, fault, p, seen, block, paused, lcd>>

-----------------------------------------------------------------------------
PlaceStep == Place /\ UNCHANGED receiveVars

MainStep == ReadHigh \/ ReadLow \/ Reread \/ PaceProgress \/ CheckStep \/ FinishReceiving \/ PlaceStep

\* The program runs, or the processor is stopped with a message on the display.
Stopped == phase \in {"run", "failed"} /\ UNCHANGED vars

Next == Receive \/ Tick \/ MainStep \/ Stopped

Spec ==
  /\ UploadInit /\ [][Next]_vars
  /\ WF_vars(Receive) /\ WF_vars(Tick) /\ WF_vars(MainStep)

-----------------------------------------------------------------------------
(***************************************************************************)
(* Properties                                                              *)
(***************************************************************************)

CellKinds == {"old", "zero", "loader", "start", "data", "version", "count", "header_sum", "data_sum", "entry", "spoilt"}
Cells == CellKinds \X Nat \X Nat

UploadTypeOK ==
  /\ phase \in {"receive", "down", "up", "fill", "unstash", "run", "failed"}
  /\ mem \in [Addresses -> Cells] /\ stash \in [Owned -> Cells]
  /\ table \in {<<>>, sent}
  /\ {dataStart, dataEnd, source, sumAt, p} \subseteq 0 .. Limit
  /\ seen \in 0 .. Limit + PageSize    \* also with halves of two addresses
  /\ entry \in 0 .. MaxEntries + 1
  /\ job.length \in 0 .. Limit
  /\ pc \in {"read_high", "read_low", "reread", "progress", "check", "finish", "placing",
             "bad_version", "bad_header", "bad_block", "bad_checksum"}
  /\ state \in {"fixed", "header", "data"}
  /\ count \in 0 .. MaxEntries /\ block \in 1 .. MaxEntries
  /\ shown \in -1 .. Limit /\ paused \in BOOLEAN
  /\ lcd.received \in 0 .. Limit /\ lcd.address \in -1 .. Limit

Intact == Spoiled(Sendable(sent), fault) = Sendable(sent)

\* An upload is moved into place only if it arrived as it was sent and was proper,
\* and is refused only if not; and what it is refused for is wrong with it.
VerdictIsRight ==
  /\ phase \in {"down", "up", "fill", "unstash", "run"} => Intact /\ Proper(sent)
  /\ phase = "failed" => ~ Intact \/ ~ Proper(sent)
  /\ pc \in {"bad_version", "bad_checksum"} => ~ Intact
  /\ pc = "bad_block" => ~ Proper(sent)

\* What is handed over to upload_place is what that relies on.
HandsOver == phase = "down" /\ entry = 1 => ReadyToPlace

\* The main loop never takes a byte for received that is not, although the handler
\* moves UPLOAD_P on between the two halves of its read; so the data's sum never
\* runs ahead of the stream (which it could not notice: it waits only where the
\* addresses are equal).
ReadsOnlyWhatArrived ==
  /\ pc \in {"progress", "check"} => seen <= p
  /\ state = "data" => sumAt <= p /\ sumAt <= dataEnd

\* An upload whose bytes all come runs or is refused; it does not hang.
EveryUploadEnds == Intact ~> phase \in {"run", "failed"}

\* A stalled upload shows exactly how far it got: the bytes received, the block that
\* is arriving and where its next byte goes.
ShowsHowFar ==
  /\ lcd.received = p - Stream
  /\ state = "data" =>
       LET end == DataEnds(table, dataStart)
           b == lcd.block
       IN /\ b = 1 \/ end[b - 1] < p
          /\ b = Len(table) \/ p <= end[b]
          /\ lcd.address \in table[b].address .. table[b].address + table[b].length
          /\ ~ Fills(table[b]) => lcd.address - table[b].address = p - end[b - 1]

DisplayCatchesUp == []<>(phase # "receive" \/ ShowsHowFar)

=============================================================================
