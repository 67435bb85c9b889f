--------------------------- MODULE OrderedDelivery ---------------------------
(***************************************************************************)
(* What the asynchronous write pipeline promises its three consumers.      *)
(*                                                                         *)
(* FUSE Write() numbers the host's writes 1, 2, 3, ... .  The sniffer, the *)
(* physical writer and the reconciler each consume that numbered stream.   *)
(* The promise is that each of them sees every number once, in order and   *)
(* without a gap, and that neither the writer nor the reconciler sees a    *)
(* write before the sniffer has classified it.  Nothing is promised about  *)
(* when a write is delivered.                                              *)
(***************************************************************************)
EXTENDS Naturals

VARIABLES
    accepted,   \* the last sequence number handed out by FUSE Write()
    sniffed,    \* the last write the MPEG-TS scanner was fed
    written,    \* the last write the physical writer processed
    reconciled  \* the last write the reconciler processed

vars == <<accepted, sniffed, written, reconciled>>

Init == accepted = 0 /\ sniffed = 0 /\ written = 0 /\ reconciled = 0

Accept ==
    /\ accepted' = accepted + 1
    /\ UNCHANGED <<sniffed, written, reconciled>>

Sniff ==
    /\ sniffed < accepted
    /\ sniffed' = sniffed + 1
    /\ UNCHANGED <<accepted, written, reconciled>>

Write ==
    /\ written < sniffed
    /\ written' = written + 1
    /\ UNCHANGED <<accepted, sniffed, reconciled>>

Reconcile ==
    /\ reconciled < sniffed
    /\ reconciled' = reconciled + 1
    /\ UNCHANGED <<accepted, sniffed, written>>

Next == Accept \/ Sniff \/ Write \/ Reconcile

Spec == Init /\ [][Next]_vars
=============================================================================
