-------------------------- MODULE MCWritePipeline --------------------------
(***************************************************************************)
(* WritePipeline on small instances: the .cfg files give the depths of the *)
(* channels, the number of host writes and the Flush/Fsync requests (as    *)
(* model values).                                                          *)
(***************************************************************************)
EXTENDS WritePipeline
=============================================================================
