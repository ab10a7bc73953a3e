---------------------------- MODULE CharTables ----------------------------
(***************************************************************************)
(* How FatFs finds a character in its code pages (fatfs/src/ffunicode.c):  *)
(* single-byte ones by going through 128 codes, double-byte ones by        *)
(* halving, at most sixteen times, a table ordered by what is looked for   *)
(* and ended by a pair of zeros.  A table's content is left out; entry i   *)
(* of a table is what its place says.                                      *)
(***************************************************************************)
EXTENDS Integers, FiniteSets

CONSTANT CodePages
  \* [wide, entries, twins, downward]: a double-byte page or not; the number
  \* of its characters; the i whose Unicode is that of i - 1, as ten in code
  \* page 950; TRUE if OEM codes fall as Unicode rises

VARIABLE page  \* what is looked at

Twin(p, i) == Cardinality({t \in p.twins : t <= i})

(* Character i's two codes, beyond ASCII, with gaps between them.           *)
Unicode(p, i) == 128 + 2 * (i - Twin(p, i))
Oem(p, i) == LET at == IF p.downward THEN p.entries - 1 - i ELSE i
             IN 128 + IF p.wide THEN 2 * at ELSE at

OfOem(p, o) == LET at == (o - 128) \div 2 IN IF p.downward THEN p.entries - 1 - at ELSE at

(* The keys and values of the tables uni2oem and oem2uni.                   *)
KeyAt(p, what, i) ==
  IF i = p.entries THEN 0
  ELSE IF what = "uni" THEN Unicode(p, i) ELSE 128 + 2 * i

ValueAt(p, what, i) ==
  IF i = p.entries THEN 0
  ELSE IF what = "uni" THEN Oem(p, i) ELSE Unicode(p, OfOem(p, 128 + 2 * i))

(* One halving: the place looked at becomes a bound, or ends the search.    *)
Halved(p, what, key, range) ==
  LET i == range.li + (range.hi - range.li) \div 2
      there == KeyAt(p, what, i)
  IN IF range.found THEN range
     ELSE IF there = key THEN [range EXCEPT !.found = TRUE, !.at = i]
     ELSE IF key > there THEN [range EXCEPT !.li = i] ELSE [range EXCEPT !.hi = i]

FoundIn(p, what, key) ==
  LET after[n \in 0..16] ==
        IF n = 0 THEN [li |-> 0, hi |-> p.entries, at |-> 0, found |-> FALSE]
        ELSE Halved(p, what, key, after[n - 1])
      last == after[16]
  IN IF last.found THEN ValueAt(p, what, last.at) ELSE 0

(* Code page of one byte: the first of its 128 codes, 0 beyond the last.    *)
Searched(p, uni) ==
  LET same == {i \in 0..(p.entries - 1) : Unicode(p, i) = uni}
  IN IF same = {} THEN 0 ELSE Oem(p, CHOOSE i \in same : \A j \in same : Oem(p, i) <= Oem(p, j))

wide_uni2oem(p, uni) == IF uni < 128 THEN uni ELSE IF uni < 65536 THEN FoundIn(p, "uni", uni) ELSE 0
wide_oem2uni(p, oem) == IF oem < 128 THEN oem ELSE FoundIn(p, "oem", oem)

page_uni2oem(p, uni) ==
  IF p.wide \/ uni < 128 \/ uni >= 65536 THEN wide_uni2oem(p, uni) ELSE Searched(p, uni)

page_oem2uni(p, oem) ==
  IF p.wide \/ oem < 128 THEN wide_oem2uni(p, oem)
  ELSE IF oem < 256 THEN Unicode(p, IF p.downward THEN p.entries - 1 - (oem - 128) ELSE oem - 128) ELSE 0

(* Every character of a code page is found by its Unicode, under one of its *)
(* codes, and by each of its codes; the codes lead back to it; and what is  *)
(* not in it gives 0, also next to the first and the last (ffunicode.c:     *)
(* 15222-15456).                                                            *)
CharsFound ==
  LET p == page
      last == p.entries - 1
      looked == {i \in 0..last : i <= 40 \/ i >= last - 40 \/ i % 61 = 0 \/ \E t \in p.twins : i \in (t - 1)..(t + 1)}
  IN p.entries > 0 =>
     /\ \A c \in {1, 47, 127} : page_uni2oem(p, c) = c /\ page_oem2uni(p, c) = c
     /\ \A i \in looked :
          LET oem == page_uni2oem(p, Unicode(p, i)) IN
          /\ oem \in {Oem(p, j) : j \in {k \in (i - 1)..(i + 1) : k \in 0..last /\ Unicode(p, k) = Unicode(p, i)}}
          /\ page_oem2uni(p, oem) = Unicode(p, i)
          /\ page_oem2uni(p, Oem(p, i)) = Unicode(p, i)
          /\ page_uni2oem(p, Unicode(p, i) + 1) = 0
     /\ page_uni2oem(p, Unicode(p, last) + 2) = 0 /\ page_uni2oem(p, 65536 + 200) = 0
=============================================================================
