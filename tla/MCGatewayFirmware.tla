-------------------------- MODULE MCGatewayFirmware --------------------------
(***************************************************************************)
(* Instances of GatewayFirmware for TLC: frames of motes with an empty and *)
(* the longest payload, one of another PAN; the numbers of the script, one *)
(* in hexadecimal, one of more than 16 bits, and a channel out of range.   *)
(***************************************************************************)
EXTENDS GatewayFirmware

MCFrames ==
    {[chan |-> 11, pan |-> 61453, dst |-> 1, size |-> n] : n \in {0, ByteSize - 1}}
    \cup {[chan |-> 26, pan |-> 35, dst |-> 1, size |-> 1]}

MCNumerals ==
    {[form |-> "dec", value |-> n] : n \in {10, 11, 61453, 65571}}
    \cup {[form |-> "hex", value |-> 61453]}

MCAddresses == {[len |-> 8, value |-> 1], [len |-> 2, value |-> 5],
                [len |-> 0, value |-> 0]}
=============================================================================
