---------------------------- MODULE MCShadowRisk ----------------------------
(* Small instances of ShadowRisk.                                          *)
EXTENDS ShadowRisk, TLC

CONSTANTS i1, i2, i3, i4

IdSymmetry == Permutations(Ids)
=============================================================================
