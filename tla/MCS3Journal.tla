---------------------------- MODULE MCS3Journal ----------------------------
(***************************************************************************)
(* Small instances of the journal for TLC: a reader and writer beside a    *)
(* fold that pages its LIST; two leased runs, one of them writing several  *)
(* items at once; a bulk write beside a fold.  The processes and the items *)
(* are interchangeable only where no LIST order and no set of unfenced     *)
(* processes tells them apart, so there is no symmetry.                    *)
(***************************************************************************)
EXTENDS S3Journal

CONSTANTS a, b, p1, p2

OnePage == <<{a, b}>>
TwoPages == <<{a}, {b}>>

Alone ==
    [readers |-> {p1}, writers |-> {p1}, bulkers |-> {}, compactors |-> {p2},
     unfenced |-> {p1}, pages |-> TwoPages, cas |-> 1, reads |-> 2, relists |-> 1,
     writes |-> 2, fences |-> 0, ends |-> 1]
Leased ==
    [Alone EXCEPT !.readers = {p1, p2}, !.writers = {p1, p2}, !.bulkers = {p1},
                  !.compactors = {}, !.unfenced = {}, !.pages = OnePage, !.cas = 2,
                  !.reads = 1, !.writes = 2, !.fences = 2, !.ends = 0]
Bulk ==
    [Leased EXCEPT !.compactors = {p2}, !.unfenced = {p1, p2}, !.writes = 2, !.fences = 0]
TwoReaders ==
    [Bulk EXCEPT !.writers = {p1}, !.bulkers = {}, !.compactors = {}, !.unfenced = {p1},
                 !.cas = 1, !.writes = 4]

FoldLeaseBulk == {Alone, Leased, Bulk}
Causal == {TwoReaders}
=============================================================================
