------------------------------ MODULE MCSHMDisk ------------------------------
(***************************************************************************)
(* SHMDisk on a disk of a few cells.                                       *)
(***************************************************************************)
EXTENDS SHMDisk
=============================================================================
