---------------------------- MODULE MCTSScanner ----------------------------
(***************************************************************************)
(* Packets of three bytes, two of which make a probe: the smallest that    *)
(* can overlap in two phases.  The host writes a packet, a stream, one     *)
(* that goes over into another phase, the rest of a packet and one more,   *)
(* and all short pieces.                                                   *)
(***************************************************************************)
EXTENDS TSScanner

Packet == <<"sync", "afc", "afc">>
Pieces == UNION {[1..n -> {"sync", "afc"}] : n \in {1, 2}}
MCHostData ==
    Pieces \cup {Packet, Packet \o Packet, Packet \o <<"sync", "afc", "sync">>,
                 <<"afc", "afc">> \o Packet}
============================================================================
