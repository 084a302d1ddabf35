--------------------------- MODULE MCSealManager ---------------------------
(***************************************************************************)
(* Small instances of SealManager: one pair, since pairs share nothing,    *)
(* and two inputs, so that an issue may or may not be a material change.   *)
(***************************************************************************)
EXTENDS SealManager

CONSTANTS p1, i1, i2

OnePair == {p1}
TwoInputs == {i1, i2}
=============================================================================
