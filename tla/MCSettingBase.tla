--------------------------- MODULE MCSettingBase ---------------------------
(* Instances of SettingBase for TLC. *)
EXTENDS SettingBase, TLC

TwoIndices == {0, 1, Size}
ValueSymmetry == Permutations(Values)
=============================================================================
