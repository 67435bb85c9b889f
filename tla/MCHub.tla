------------------------------ MODULE MCHub ------------------------------
(* Two clients, queues of one message.                                    *)
EXTENDS Hub

MCClients == {"c1", "c2"}
==========================================================================
