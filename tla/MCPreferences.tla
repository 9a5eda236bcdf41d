---------------------------- MODULE MCPreferences ----------------------------
(* Preferences on the instance of its cfg files.                            *)
EXTENDS Preferences, TLC

\* Receivers and gloves are interchangeable.
PrefSymmetry == Permutations(Cores) \cup Permutations(Gloves)

\* One illegal offset, none, and the largest.
OffsetAngles == {-46, 0, 45}
=============================================================================
