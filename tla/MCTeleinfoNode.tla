--------------------------- MODULE MCTeleinfoNode ---------------------------
(***************************************************************************)
(* Small instances of TeleinfoNode for TLC.                                *)
(***************************************************************************)
EXTENDS TeleinfoNode, TLC

CONSTANTS BASE, PAPP

FieldSymmetry == Permutations({BASE, PAPP})
=============================================================================
