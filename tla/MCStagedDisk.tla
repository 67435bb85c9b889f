---------------------------- MODULE MCStagedDisk ----------------------------
(***************************************************************************)
(* StagedDisk on a disk of a few cells.                                    *)
(***************************************************************************)
EXTENDS StagedDisk

(***************************************************************************)
(* A read changes nothing but its own state, so what follows a finished    *)
(* read also follows the same state without it.  TLC checks the state in   *)
(* which a read finishes, and goes on from it only while the writer has    *)
(* finished with no write, for the return of the read to happen at all.    *)
(***************************************************************************)
ReadsLeftWhenDone == reader.pc = "done" => done = 0

(***************************************************************************)
(* Two cells show everything but a stale capture, which takes a third: the *)
(* scanner keeps a cell of the stream in the first two until the third     *)
(* cell continues it.  The third cell is written last, by itself, after a  *)
(* write of the first two, and before any shutdown.                        *)
(***************************************************************************)
ThirdCellContinues ==
    \A i \in Writes : log[i].end = 3 =>
        /\ i = 3 /\ log[i].start = 2 /\ log[1] = [start |-> 0, end |-> 2]
        /\ wpc # "closed"

(***************************************************************************)
(* Failures meet two writes, and a read that meets a third one begins when *)
(* the writer has finished with the first.                                 *)
(***************************************************************************)
ThirdWriteUndisturbed ==
    /\ torn \subseteq {0}
    /\ Len(log) = 3 => /\ failed \cup stuck \cup torn = {}
                       /\ reader.pc = "idle" \/ reader.at >= 1
=============================================================================
