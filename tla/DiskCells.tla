------------------------------ MODULE DiskCells ------------------------------
(***************************************************************************)
(* The addresses of the disk.  A cell stands for a run of bytes no range   *)
(* boundary falls into; where single bytes matter, it is one byte.         *)
(***************************************************************************)
EXTENDS Integers

CONSTANT Size   \* cells of the disk, numbered from 0

ASSUME SizeAssumption == Size \in Nat \ {0}

Cells == 0..(Size - 1)

\* The non-empty ranges [a, b) of the disk.
Ranges == {r \in [start : 0..(Size - 1), end : 1..Size] : r.start < r.end}

Within(c, r) == r.start <= c /\ c < r.end

\* The cells [a, b).
Span(a, b) == {c \in Cells : a <= c /\ c < b}
CellsOf(r) == Span(r.start, r.end)
=============================================================================
