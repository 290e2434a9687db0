----------------------------- MODULE MCUploadV3 -----------------------------
(* Pages of eight bytes, a stream that begins in page 1 and crosses into   *)
(* RAM with its seventh cell; RAM for ten bytes.                           *)
EXTENDS UploadV3

Ram(a, n, kind) == [address |-> a, length |-> n, kind |-> kind]

\* Tables that the loader must refuse: an entry that is empty, with reserved flags,
\* below RAM, across the end of zero page, past Limit or wrapping, entries that
\* overlap or descend, too many of them, or more data than there is room for.
BadTables == {
  <<Ram(16, 0, "data")>>, <<Ram(16, 1, "reserved")>>, <<Ram(12, 2, "data")>>, <<Ram(6, 3, "fill")>>,
  <<Ram(22, 5, "data")>>, <<Ram(20, 80, "fill")>>, <<Ram(20, 76, "fill")>>,
  <<Ram(16, 2, "data"), Ram(17, 2, "data")>>, <<Ram(18, 1, "data"), Ram(16, 1, "data")>>,
  <<Ram(0, 4, "data"), Ram(3, 1, "fill")>>,
  <<Ram(0, 4, "data"), Ram(16, 6, "data")>>,
  <<Ram(16, 1, "data"), Ram(17, 1, "data"), Ram(18, 1, "data"), Ram(19, 1, "data")>>}

NoFault == [kind |-> "none", at |-> 0]
AllFaults == {NoFault} \cup [kind : {"spoil", "lose"}, at : {1, 3, 4, 5, 6, 7, 9}] \cup [kind : {"count"}, at : {0, 2, 4}]

ProperTables == {
  <<Ram(18, 3, "data")>>, <<Ram(17, 1, "fill")>>, <<Ram(1, 2, "data"), Ram(20, 2, "data")>>,
  <<Ram(16, 2, "data"), Ram(18, 1, "fill"), Ram(20, 1, "data")>>}

\* Its data crosses into the next page while it is summed.
LongTable == <<Ram(17, 9, "data")>>

BadOrSpoiled == [table : BadTables \cup {LongTable}, fault : {NoFault}] \cup [table : ProperTables, fault : AllFaults]

=============================================================================
