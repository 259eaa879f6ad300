-------------------------- MODULE MCTargetSession --------------------------
(* Two devices of one and two blocks that take turns on one path, and images *)
(* of one and two blocks.                                                    *)
EXTENDS TargetSession

CONSTANTS u1, u2, sda, big, small, imgA, imgB

Distinct == [d \in Devices |-> IF d = u1 THEN big ELSE small]
Sizes == [p \in Fingerprints |-> IF p = big THEN 2 ELSE 1]
Lengths == [i \in Images |-> IF i = imgA THEN 2 ELSE 1]
=============================================================================
