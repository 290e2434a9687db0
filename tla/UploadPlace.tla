---------------------------- MODULE UploadPlace ----------------------------
(***************************************************************************)
(* The second half of Michael's loader, firmware/lib/serial/upload_v3.inc: *)
(* upload_place and upload_unstash.  All the entries' data stands in the   *)
(* stream, in order, without gaps.  The loader moves each entry's data to  *)
(* its address, a byte at a time and within the same memory, so that every *)
(* move must keep clear of data still to be moved; zero-page bytes that    *)
(* the loader itself uses wait in a stash until it needs them no more.     *)
(*                                                                         *)
(* A memory cell is a tuple that says what it holds; Cell(i, k) is byte k  *)
(* of entry i.  Interrupts are off: one step is one byte copied.           *)
(***************************************************************************)
EXTENDS Integers, Sequences

CONSTANTS
  PageSize,     \* 256: zero page is the first page, the stack's is the second
  Limit,        \* INTERRUPT_ROUTINE: uploads and the stream end here
  Owned,        \* UPLOAD_ZP_START .. UPLOAD_ZP_END - 1 and DISPLAY_INTERRUPTS_FLAG
  MaxEntries,   \* UPLOAD_MAX_ENTRIES
  Tables        \* the entry tables looked at

\* The stream: five header cells, the entries, the data.  With one entry the data
\* lands at RamStart.
RamStart == 2 * PageSize
Addresses == 0 .. Limit - 1
FixedSize == 5
EntrySize == 1
Stream == RamStart - FixedSize - EntrySize
HVersion == Stream
HStart == Stream + 1
HCount == Stream + 2
HHeaderSum == Stream + 3
HDataSum == Stream + 4
HEntries == Stream + 5

ASSUME MapAssumption ==
  /\ PageSize \in Nat /\ PageSize > FixedSize + EntrySize
  /\ MaxEntries \in Nat \ {0}
  /\ Limit \in Nat /\ Limit > 2 * PageSize
  /\ Owned \subseteq 0 .. PageSize - 1

\* An entry of an upload's table; the table format keeps some kinds for later.
EntryType == [address : Nat, length : Nat, kind : {"data", "fill", "reserved"}]

VARIABLES
  phase,        \* "receive", the passes "down", "up" and "fill", "unstash", "run", "failed"
  mem,
  stash,        \* UPLOAD_STASH
  table,        \* the entry table: a sequence of [address, length, kind]
  dataStart,    \* UPLOAD_DATA
  dataEnd,      \* UPLOAD_END
  source,       \* UPLOAD_SOURCE
  entry,        \* the entry in register X, from 1
  job           \* the copy under way: UPLOAD_FROM, UPLOAD_TO, UPLOAD_LENGTH

placeVars == <<phase, mem, stash, table, dataStart, dataEnd, source, entry, job>>

Old == <<"old", 0, 0>>
Zero == <<"zero", 0, 0>>
Loader == <<"loader", 0, 0>>
Cell(i, k) == <<"data", i, k>>
StartAt == <<"start", 0, 0>>

InZeroPage(e) == e.address < PageSize
Fills(e) == e.kind = "fill"

Idle == job.length = 0
NoJob == [how |-> "none", from |-> 0, to |-> 0, length |-> 0]
CopyOf(e, how, from) == [how |-> how, from |-> from, to |-> e.address, length |-> e.length]

DataLength(t, i) == IF Fills(t[i]) THEN 0 ELSE t[i].length

\* Where the data of entry i ends, for a stream with the data of t from start on.
DataEnds(t, start) ==
  LET end[i \in 0 .. Len(t)] == IF i = 0 THEN start ELSE end[i - 1] + DataLength(t, i)
  IN end

DataOf(t) ==
  LET data[i \in 0 .. Len(t)] ==
        IF i = 0 THEN <<>> ELSE data[i - 1] \o [k \in 1 .. DataLength(t, i) |-> Cell(i, k - 1)]
  IN data[Len(t)]

\* What the sender promises (tools/upload/upload_frame.py:18): entries that ascend
\* without overlapping, each in zero page or in RAM below Limit, in a stream that
\* ends by Limit.
Taken(e) == e.address .. e.address + e.length - 1
Proper(t) ==
  /\ Len(t) \in 1 .. MaxEntries
  /\ \A i \in DOMAIN t :
       /\ t[i].kind \in {"data", "fill"}
       /\ t[i].length > 0
       /\ Taken(t[i]) \subseteq 0 .. PageSize - 1 \/ Taken(t[i]) \subseteq RamStart .. Limit - 1
  /\ \A i, j \in DOMAIN t : i < j => \A a \in Taken(t[i]), b \in Taken(t[j]) : a < b
  /\ HEntries + Len(t) * EntrySize + Len(DataOf(t)) <= Limit

ASSUME TablesAssumption == \A t \in Tables : t \in Seq(EntryType) /\ Proper(t)

\* What the receiver leaves: a proper table and its data in the stream.
ReadyToPlace ==
  /\ phase = "down" /\ source = dataStart /\ entry = 1 /\ job = NoJob
  /\ Proper(table)
  /\ dataStart = HEntries + Len(table) * EntrySize
  /\ dataEnd = dataStart + Len(DataOf(table))
  /\ \A k \in 1 .. Len(DataOf(table)) : mem[dataStart + k - 1] = DataOf(table)[k]
  /\ mem[HStart] = StartAt
  /\ \A a \in Owned : mem[a] = Loader /\ stash[a] = Zero

PlaceInit ==
  /\ table \in Tables
  /\ phase = "down" /\ entry = 1 /\ job = NoJob
  /\ dataStart = HEntries + Len(table) * EntrySize
  /\ dataEnd = DataEnds(table, dataStart)[Len(table)]
  /\ source = dataStart
  /\ stash = [a \in Owned |-> Zero]
  /\ mem = [a \in Addresses |->
              IF a \in Owned THEN Loader
              ELSE IF a = HStart THEN StartAt
              ELSE IF a \in dataStart .. dataEnd - 1 THEN DataOf(table)[a - dataStart + 1]
              ELSE Old]

-----------------------------------------------------------------------------
(***************************************************************************)
(* The three passes over the table                                         *)
(***************************************************************************)

\* Mutant: the first pass also moves the entries that move up.
PassDownEverything ==
  /\ phase = "down" /\ Idle /\ entry <= Len(table)
  /\ entry' = entry + 1
  /\ LET e == table[entry] IN
     /\ source' = IF Fills(e) THEN source ELSE source + e.length
     /\ job' = IF Fills(e)
                 THEN NoJob
                 ELSE CopyOf(e, IF InZeroPage(e) THEN "page" ELSE "down", source)
  /\ UNCHANGED <<phase, mem, stash, table, dataStart, dataEnd>>

\* Lowest first: zero page, and the entries that move down.
PassDown ==
  /\ phase = "down" /\ Idle /\ entry <= Len(table)
  /\ entry' = entry + 1
  /\ LET e == table[entry] IN
     /\ source' = IF Fills(e) THEN source ELSE source + e.length
     /\ job' = IF Fills(e) \/ (~ InZeroPage(e) /\ e.address >= source)
                 THEN NoJob
                 ELSE CopyOf(e, IF InZeroPage(e) THEN "page" ELSE "down", source)
  /\ UNCHANGED <<phase, mem, stash, table, dataStart, dataEnd>>

EndDown ==
  /\ phase = "down" /\ Idle /\ entry > Len(table)
  /\ phase' = "up"
  /\ source' = dataEnd
  /\ entry' = Len(table)
  /\ UNCHANGED <<mem, stash, table, dataStart, dataEnd, job>>

\* Highest first: the entries that move up.
PassUp ==
  /\ phase = "up" /\ Idle /\ entry >= 1
  /\ entry' = entry - 1
  /\ LET e == table[entry] IN
     /\ source' = IF Fills(e) THEN source ELSE source - e.length
     /\ job' = IF ~ Fills(e) /\ source' < e.address THEN CopyOf(e, "up", source') ELSE NoJob
  /\ UNCHANGED <<phase, mem, stash, table, dataStart, dataEnd>>

EndUp ==
  /\ phase = "up" /\ Idle /\ entry = 0
  /\ phase' = "fill"
  /\ entry' = 1
  /\ UNCHANGED <<mem, stash, table, dataStart, dataEnd, source, job>>

PassFill ==
  /\ phase = "fill" /\ Idle /\ entry <= Len(table)
  /\ entry' = entry + 1
  /\ LET e == table[entry] IN
     job' = IF Fills(e)
              THEN CopyOf(e, IF InZeroPage(e) THEN "clear_page" ELSE "clear", source)
              ELSE NoJob
  /\ UNCHANGED <<phase, mem, stash, table, dataStart, dataEnd, source>>

EndFill ==
  /\ phase = "fill" /\ Idle /\ entry > Len(table)
  /\ phase' = "unstash"
  /\ UNCHANGED <<mem, stash, table, dataStart, dataEnd, source, entry, job>>

-----------------------------------------------------------------------------
(***************************************************************************)
(* One byte                                                                *)
(***************************************************************************)

Put(a, v) == mem' = [mem EXCEPT ![a] = v] /\ UNCHANGED stash

\* upload_move_down copies from the bottom up, upload_move_up from the top down.
CopyRam ==
  /\ job.length > 0
  /\ \/ /\ job.how = "down"
        /\ Put(job.to, mem[job.from])
        /\ job' = [job EXCEPT !.from = @ + 1, !.to = @ + 1, !.length = @ - 1]
     \/ /\ job.how = "up"
        /\ Put(job.to + job.length - 1, mem[job.from + job.length - 1])
        /\ job' = [job EXCEPT !.length = @ - 1]
     \/ /\ job.how = "clear"
        /\ Put(job.to, Zero)
        /\ job' = [job EXCEPT !.to = @ + 1, !.length = @ - 1]
  /\ UNCHANGED <<phase, table, dataStart, dataEnd, source, entry>>

\* Mutant: the stash is not used.
StoreInPlace(a, v) == Put(a, v)

\* upload_store_zero_page: the loader's own bytes go to the stash.
StoreZeroPage(a, v) ==
  IF a \in Owned
    THEN stash' = [stash EXCEPT ![a] = v] /\ UNCHANGED mem
    ELSE Put(a, v)

CopyPage ==
  /\ job.length > 0
  /\ job.how \in {"page", "clear_page"}
  /\ StoreZeroPage(job.to, IF job.how = "page" THEN mem[job.from] ELSE Zero)
  /\ job' = [job EXCEPT !.from = @ + 1, !.to = @ + 1, !.length = @ - 1]
  /\ UNCHANGED <<phase, table, dataStart, dataEnd, source, entry>>

Unstash ==
  /\ phase = "unstash"
  /\ mem' = [a \in Addresses |-> IF a \in Owned THEN stash[a] ELSE mem[a]]
  /\ phase' = "run"
  /\ UNCHANGED <<stash, table, dataStart, dataEnd, source, entry, job>>

Place ==
  \/ PassDown \/ EndDown \/ PassUp \/ EndUp \/ PassFill \/ EndFill
  \/ CopyRam \/ CopyPage \/ Unstash

Running == phase = "run" /\ UNCHANGED placeVars

PlaceSpec == PlaceInit /\ [][Place \/ Running]_placeVars

-----------------------------------------------------------------------------
(***************************************************************************)
(* Properties                                                              *)
(***************************************************************************)

\* What the sender asked for at address a.
Asked(a, was) ==
  IF \E i \in DOMAIN table : a \in Taken(table[i])
    THEN LET i == CHOOSE i \in DOMAIN table : a \in Taken(table[i]) IN
         IF Fills(table[i]) THEN Zero ELSE Cell(i, a - table[i].address)
    ELSE was

\* When the upload runs, every entry's bytes are at their addresses, none of them
\* overwritten before it was moved, the loader's own zero page is what the upload
\* gave, or 0, and the start address is still there to be read.
EverythingInPlace ==
  phase = "run" =>
    /\ \A a \in Addresses : mem[a] = Asked(a, IF a \in Owned THEN Zero ELSE mem[a])
    /\ mem[HStart] = StartAt

\* The zero-page variables of the loader are its own until it is done with them.
LoaderKeepsItsZeroPage ==
  phase # "run" => \A a \in Owned : mem[a] = Loader

=============================================================================
