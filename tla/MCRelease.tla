------------------------------ MODULE MCRelease ------------------------------
(* Two runs, two commits of main with the same version, a third that has     *)
(* another, and one that is not on main.                                     *)
EXTENDS Release, TLC

CONSTANTS r1, r2, c1, c2, c3, side, v1, v2, linux, windows

TwoVersions == [s \in Shas |-> IF s = c3 THEN v2 ELSE v1]
Ask(v, padded, s, final) ==
  [input |-> [version |-> v, padded |-> padded], sha |-> s, final |-> final]
Asks == {Ask(v1, FALSE, c1, FALSE), Ask(v1, FALSE, c2, TRUE), Ask(v1, TRUE, c1, TRUE),
         Ask(v1, FALSE, c3, FALSE), Ask(v1, FALSE, side, FALSE)}
Hit == {Name("checksum", windows), Name("manifest", linux), IndexFile}
Alike == Permutations(Runs)
=============================================================================
