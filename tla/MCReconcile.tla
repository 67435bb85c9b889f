---------------------------- MODULE MCReconcile ----------------------------
(* Four cells an MFT may lie in and three of file data.  The host adds files *)
(* and extension records, lets the MFT grow and move, and records streams. *)
EXTENDS Reconcile

Record(base, runs, vcn, real) ==
    [ok |-> TRUE, inUse |-> TRUE, isDir |-> FALSE, base |-> base, data |-> TRUE,
     runs |-> runs, vcn |-> vcn, real |-> real]
Free == [Bad EXCEPT !.ok = TRUE]
Run(lcn, len) == [lcn |-> lcn, len |-> len]

Small == Record(0, <<Run(0, 1)>>, 0, 1)
Grown == Record(0, <<Run(0, 1), Run(2, 2)>>, 0, 3)
Elsewhere == Record(0, <<Run(0, 1), Run(3, 1), Run(1, 1)>>, 0, 3)
Short == Record(0, <<Run(4, 1)>>, 0, 1)
Long == Record(0, <<Run(4, 3)>>, 0, 3)
Holed == Record(0, <<Run(0, 1), Run(2, 1), Run(-1, 1)>>, 0, 3)
Emptied == Record(0, <<>>, 0, 2)
Extension == Record(1, <<Run(5, 1)>>, 1, 2)

DiskWith(mft) ==
    [c \in Cells |-> CASE c = 0 -> mft [] c = 2 -> Short [] c = 3 -> Free [] OTHER -> Bad]
MCDisks == {DiskWith(Small), DiskWith(Grown)}

HostWrite(off, data) == [off |-> off, data |-> data, captured |-> FALSE]
Recording(off, len) == [off |-> off, data |-> [i \in 1..len |-> Bad], captured |-> TRUE]
MCHostWrites ==
    {HostWrite(0, <<Grown>>), HostWrite(0, <<Bad>>), HostWrite(0, <<Emptied>>),
     HostWrite(0, <<Holed>>),
     HostWrite(0, <<Elsewhere, Long>>),
     HostWrite(2, <<Long, Extension>>),
     HostWrite(3, <<Extension>>), HostWrite(3, <<Free>>),
     Recording(5, 1), Recording(4, 3)}
============================================================================
