------------------------------- MODULE MCBmeNode -------------------------------
(***************************************************************************)
(* Instances of BmeNode for TLC: readings on both sides of zero, of a      *)
(* whole degree and of what two digits hold, up to the widths in C.        *)
(***************************************************************************)
EXTENDS BmeNode

MCTemperatures == {-4000, -105, -100, -5, 0, 9, 2150, 8500}
MCPressures    == {30000, 98765, 110000}
MCHumidities   == {0, 5, 4510, 10000}
MCSamples      == {341, 1023}
=============================================================================
