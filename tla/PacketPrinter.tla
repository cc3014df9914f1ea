----------------------------- MODULE PacketPrinter -----------------------------
(***************************************************************************)
(* What a program that reads the gateway board's serial line may rely on,  *)
(* and what GatewayServer assumes of the board: once told to, the board    *)
(* prints packets, each in one piece; other text only comes between them,  *)
(* unless the board restarts in the middle of one.                         *)
(***************************************************************************)
VARIABLES
    dumping,    \* the board prints packets
    line        \* "open" inside a packet, else what ended last

printerVars == <<dumping, line>>

PrinterInit == dumping = FALSE /\ line = "text"

StartDumping ==
    /\ ~dumping /\ line # "open"
    /\ dumping' = TRUE /\ line' = "text"

PrintText == line # "open" /\ line' = "text" /\ UNCHANGED dumping

OpenPacket ==
    /\ dumping /\ line # "open"
    /\ line' = "open" /\ UNCHANGED dumping

ClosePacket == line = "open" /\ line' = "packet" /\ UNCHANGED dumping

Restart == dumping' = FALSE /\ line' = "text"

PrinterNext ==
    StartDumping \/ PrintText \/ OpenPacket \/ ClosePacket \/ Restart

PrinterSpec == PrinterInit /\ [][PrinterNext]_printerVars
=============================================================================
