--------------------------- MODULE MCUploadPlace ---------------------------
(* Pages of eight bytes and RAM for eight.                                 *)
EXTENDS UploadPlace

Ram(a, n, kind) == [address |-> a, length |-> n, kind |-> kind]

\* Every entry in RAM, and every sequence of up to two, or of three, that ascend.
RamEntries == {Ram(a, n, k) : a \in RamStart .. Limit - 1, n \in 1 .. Limit - RamStart, k \in {"data", "fill"}}
Inside == {e \in RamEntries : e.address + e.length <= Limit}
After(e) == {f \in Inside : f.address >= e.address + e.length}
Ones == {<<e>> : e \in Inside}
Twos == UNION {{<<e, f>> : f \in After(e)} : e \in Inside}
Threes == UNION {{<<t[1], t[2], f>> : f \in After(t[2])} : t \in Twos}

\* Entries in zero page, around the loader's own bytes and at the page's end.
Page == {Ram(0, 4, "data"), Ram(1, 2, "fill"), Ram(2, 1, "data"), Ram(6, 2, "data")}
WithPage == {<<z>> : z \in Page} \cup {<<z, e>> : z \in Page, e \in Inside}
              \cup {<<Ram(0, 2, "data"), Ram(2, 3, "fill"), e>> : e \in Inside}

\* Those whose stream fits.
ProperTables == {t \in Ones \cup Twos \cup Threes \cup WithPage : Proper(t)}

=============================================================================
