---------------------------- MODULE MCPitInfoMote ----------------------------
(***************************************************************************)
(* Instances of PitInfoMote for TLC.  PitInfoMote.cfg has the code's own   *)
(* queues and delays, two of its three fields, and a ring of two chunks.   *)
(* PitInfoMoteLive.cfg is smaller, but keeps what matters: a burst of      *)
(* reports outlasts a window and not the pause, and the counter wraps at   *)
(* no multiple of the battery's period.                                    *)
(***************************************************************************)
EXTENDS PitInfoMote
=============================================================================
