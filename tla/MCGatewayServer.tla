--------------------------- MODULE MCGatewayServer --------------------------
(***************************************************************************)
(* GatewayServer for TLC.  The mote m1 sends two reports (p1 and p2) and a *)
(* packet with RSSI only (p3); text that was lost may be taken for m2's.   *)
(***************************************************************************)
EXTENDS GatewayServer

CONSTANTS p1, p2, p3, m1, m2, RSSI, PAPP

MCSender   == [p \in Packets |-> m1]
MCFieldsOf == [p \in Packets |-> IF p = p3 THEN LinkFields ELSE Fields]
=============================================================================
